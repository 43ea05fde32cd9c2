------------------------ MODULE WebmailSessionProofs ------------------------
(***************************************************************************)
(* Proofs about WebmailSession, for any requests, number of sign-ins, of   *)
(* refreshes and of broken requests.                                       *)
(***************************************************************************)
EXTENDS WebmailSession, TLAPS

Steps == {"idle", "metadata", "exchange", "refresh", "account", "end"}

\* No token is the absence of one.
LEMMA TokenIsThere == ASSUME NEW t \in Token PROVE t # NoToken
    BY SessionAssumption DEF Token, Numbers

\* What the operations of webmail_auth.py make of a copy of the session.
LEMMA CopiesTyped ==
    ASSUME NEW c \in Stored
    PROVE  /\ Clear(c) \in Stored
           /\ PopFlow(c) \in Stored
           /\ \A f \in Flows : [c EXCEPT !.flow = f] \in Stored
           /\ \A t \in Token : [c EXCEPT !.token = t] \in Stored
    BY DEF Stored, Clear, Empty, PopFlow

LEMMA NothingTyped == NoRequest \in Request /\ RequestOK(NoRequest)
    BY DEF NoRequest, Request, View, Stored, Empty, RequestOK

\* The tokens that Stalwart issues.
LEMMA NewTokensTyped ==
    ASSUME SessionTypeOK
    PROVE  /\ \A f \in Flows : FirstToken(f) \in Token
           /\ \A t \in Token : Acceptable(t) => /\ RefreshedToken(t) \in Token
                                                /\ NextNumber(t.flow) \in Numbers
                                                /\ NextRefresh(t.flow) \in Numbers
<1> USE SessionAssumption DEF SessionTypeOK
<1>1. ASSUME NEW f \in Flows PROVE FirstToken(f) \in Token
    BY <1>1 DEF FirstToken, Token, Numbers
<1>2. ASSUME NEW t \in Token, Acceptable(t)
      PROVE  /\ RefreshedToken(t) \in Token
             /\ NextNumber(t.flow) \in Numbers
             /\ NextRefresh(t.flow) \in Numbers
  <2>1. t.flow \in Flows /\ t.refresh \in Numbers
      BY DEF Token
  <2>2. grant[t.flow].access \in Numbers /\ grant[t.flow].refresh \in Numbers
      BY <2>1 DEF Grant
  <2> QED BY <1>2, <2>1, <2>2 DEF Acceptable, RefreshedToken, NextNumber, NextRefresh, Token, Numbers
<1> QED BY <1>1, <1>2

\* A request that has begun, and one that goes on.
LEMMA LoadTyped ==
    ASSUME SessionTypeOK, NEW r \in Requests, NEW view \in View,
           NEW pc \in Steps, NEW copy \in Stored, NEW f \in Flows \cup {NoFlow},
           Load(r, view, pc, copy, f),
           pc = "refresh" => copy.token # NoToken /\ copy.token.refresh # 0,
           pc # "idle",
           pc \in {"metadata", "exchange"} \/ view = "connect" => f \in Flows
    PROVE  SessionTypeOK'
<1> DEFINE q == [ pc |-> pc, view |-> view, copy |-> copy,
                  modified |-> copy # session.row, flow |-> f ]
<1>1. q \in Request /\ RequestOK(q)
    BY DEF Request, RequestOK, Steps
<1>2. request' = [request EXCEPT ![r] = q]
    BY DEF Load
<1>3. request' \in [Requests -> Request] /\ \A x \in Requests : RequestOK(request'[x])
    BY <1>1, <1>2 DEF SessionTypeOK
<1>4. UNCHANGED <<session, server, grant, asked>>
      /\ history' = [history EXCEPT !.overlapped = @ \/ Others(r) # {}]
    BY DEF Load
<1>5. history'.overlapped \in BOOLEAN
    BY <1>4 DEF SessionTypeOK
<1>6. history' \in [ overlapped : BOOLEAN, breaks : 0 .. MaxBreaks,
                     left : SUBSET Flows, presented : [Flows -> 0 .. 2] ]
    BY <1>4, <1>5 DEF SessionTypeOK
<1> QED BY <1>3, <1>4, <1>6 DEF SessionTypeOK

LEMMA ContinueTyped ==
    ASSUME SessionTypeOK, NEW r \in Requests,
           NEW pc \in {"end", "account", "refresh"}, NEW copy \in Stored,
           Continue(r, pc, copy),
           pc = "refresh" => copy.token # NoToken /\ copy.token.refresh # 0
    PROVE  request' \in [Requests -> Request] /\ \A x \in Requests : RequestOK(request'[x])
<1>1. request[r] \in Request /\ RequestOK(request[r])
    BY DEF SessionTypeOK
<1> DEFINE q == [request[r] EXCEPT !.pc = pc, !.copy = copy,
                     !.modified = @ \/ copy # request[r].copy]
<1>2. q \in Request
    BY <1>1 DEF Request
<1>3. RequestOK(q)
    BY <1>1 DEF RequestOK, Request
<1>4. request' = [request EXCEPT ![r] = q]
    BY DEF Continue
<1> QED BY <1>2, <1>3, <1>4 DEF SessionTypeOK

\* What Stalwart issues keeps its type.
LEMMA RefreshedTyped ==
    ASSUME SessionTypeOK, NEW t \in Token, Acceptable(t), Refreshed(t)
    PROVE  grant' \in [Flows -> Grant] /\ \A f \in Flows : grant'[f].refresh <= grant'[f].access
<1>1. NextNumber(t.flow) \in Numbers /\ NextRefresh(t.flow) \in Numbers /\ t.flow \in Flows
    BY NewTokensTyped DEF Token
<1> DEFINE g == [grant[t.flow] EXCEPT !.access = NextNumber(t.flow),
                                      !.refresh = NextRefresh(t.flow)]
<1>2. grant[t.flow] \in Grant /\ grant[t.flow].refresh <= grant[t.flow].access
    BY <1>1 DEF SessionTypeOK
<1>3. g \in Grant
    BY <1>1, <1>2 DEF Grant
<1>4. g.refresh <= g.access
    BY <1>2, SessionAssumption DEF NextNumber, NextRefresh, Grant, Numbers
<1>5. grant' = [grant EXCEPT ![t.flow] = g]
    BY DEF Refreshed
<1> QED BY <1>1, <1>3, <1>4, <1>5 DEF SessionTypeOK

LEMMA ExchangedTyped ==
    ASSUME SessionTypeOK, NEW f \in Flows, Exchanged(f)
    PROVE  grant' \in [Flows -> Grant] /\ \A g \in Flows : grant'[g].refresh <= grant'[g].access
<1> DEFINE n == [code |-> "spent", access |-> 1, refresh |-> FirstToken(f).refresh]
<1>1. n \in Grant /\ n.refresh <= n.access
    BY SessionAssumption DEF Grant, Numbers, FirstToken
<1>2. grant' = [grant EXCEPT ![f] = n]
    BY DEF Exchanged
<1> QED BY <1>1, <1>2 DEF SessionTypeOK

LEMMA PresentedTyped ==
    ASSUME SessionTypeOK, NEW f \in Flows, history' = Presented(f)
    PROVE  history' \in [ overlapped : BOOLEAN, breaks : 0 .. MaxBreaks,
                          left : SUBSET Flows, presented : [Flows -> 0 .. 2] ]
<1>1. history.presented \in [Flows -> 0 .. 2]
    BY DEF SessionTypeOK
<1>2. [history.presented EXCEPT ![f] = IF @ < 2 THEN @ + 1 ELSE 2] \in [Flows -> 0 .. 2]
    BY <1>1
<1> QED BY <1>2 DEF SessionTypeOK, Presented

\* The first time that a code is presented is counted.
LEMMA PresentedCounts ==
    ASSUME SessionTypeOK, NEW f \in Flows, history' = Presented(f),
           history.presented[f] = 0
    PROVE  /\ history'.presented[f] = 1
           /\ \A g \in Flows \ {f} : history'.presented[g] = history.presented[g]
<1>1. history.presented \in [Flows -> 0 .. 2]
    BY DEF SessionTypeOK
<1>2. history'.presented = [history.presented EXCEPT ![f] = IF @ < 2 THEN @ + 1 ELSE 2]
    BY DEF SessionTypeOK, Presented
<1> QED BY <1>1, <1>2

\* What a request that is to refresh presents.
LEMMA RefreshesToken ==
    ASSUME SessionTypeOK, NEW r \in Requests, In(r, "refresh")
    PROVE  /\ request[r].copy \in Stored
           /\ request[r].copy.token \in Token
    BY DEF SessionTypeOK, RequestOK, Request, Stored, In

\* Every step keeps the types (webmail_views.py, webmail_auth.py).
LEMMA SessionTypes ==
    SessionTypeOK /\ [SessionNext]_sessionVars => SessionTypeOK'
<1> SUFFICES ASSUME SessionTypeOK, [SessionNext]_sessionVars
             PROVE  SessionTypeOK'
    OBVIOUS
<1>0. /\ session.row \in Stored
      /\ \A r \in Requests : request[r] \in Request /\ request[r].copy \in Stored
      /\ Empty \in Stored
    BY CopiesTyped DEF SessionTypeOK, Request, Clear
<1>1. ASSUME NEW r \in Requests, OpenMail(r)
      PROVE  SessionTypeOK'
  <2>1. session.row.token \in Token
      BY <1>0, <1>1 DEF OpenMail, Stored
  <2>2. CASE AfterDue(session.row.token) = "end"
      BY <1>0, <1>1, <2>2, LoadTyped, CopiesTyped DEF OpenMail, View, Steps
  <2>3. CASE AfterDue(session.row.token) # "end"
    <3>1. AfterDue(session.row.token) = "refresh" /\ session.row.token.refresh # 0
        BY <2>3 DEF AfterDue
    <3>2. Load(r, "open", "refresh", session.row, NoFlow) /\ session.row.token # NoToken
        BY <1>1, <3>1 DEF OpenMail
    <3> QED BY <1>0, <3>1, <3>2, LoadTyped DEF View, Steps
  <2> QED BY <2>2, <2>3
<1>2. ASSUME NEW r \in Requests, Refresh(r)
      PROVE  SessionTypeOK'
  <2> DEFINE t == request[r].copy.token
             pc == IF request[r].view = "callback" THEN "account" ELSE "end"
             copy == [request[r].copy EXCEPT !.token = RefreshedToken(t)]
  <2>1. t \in Token /\ Acceptable(t) /\ Refreshed(t)
      BY <1>2, RefreshesToken DEF Refresh
  <2>2. copy \in Stored
      BY <1>0, <2>1, NewTokensTyped, CopiesTyped
  <2>3. Continue(r, pc, copy) /\ pc \in {"end", "account"}
      BY <1>2 DEF Refresh
  <2>4. request' \in [Requests -> Request] /\ \A x \in Requests : RequestOK(request'[x])
      BY <2>2, <2>3, ContinueTyped
  <2> QED BY <1>2, <2>1, <2>4, RefreshedTyped DEF Refresh, SessionTypeOK
<1>3. ASSUME NEW r \in Requests, RefreshFails(r)
      PROVE  SessionTypeOK'
  <2>1. Continue(r, "end", Empty)
      BY <1>3 DEF RefreshFails, AfterRefusal, Clear
  <2>2. request' \in [Requests -> Request] /\ \A x \in Requests : RequestOK(request'[x])
      BY <1>0, <2>1, ContinueTyped
  <2>3. grant' \in [Flows -> Grant] /\ \A f \in Flows : grant'[f].refresh <= grant'[f].access
      BY <1>3, RefreshesToken, RefreshedTyped DEF RefreshFails, SessionTypeOK
  <2> QED BY <1>3, <2>2, <2>3 DEF RefreshFails, SessionTypeOK
<1>4. ASSUME NEW r \in Requests, ConnectStore(r)
      PROVE  SessionTypeOK'
  <2>1. request[r].flow \in Flows
      BY <1>4 DEF ConnectStore, In, SessionTypeOK, RequestOK
  <2> DEFINE copy == [request[r].copy EXCEPT !.flow = request[r].flow]
  <2>2. copy \in Stored /\ Continue(r, "end", copy)
      BY <1>0, <1>4, <2>1, CopiesTyped DEF ConnectStore
  <2>3. request' \in [Requests -> Request] /\ \A x \in Requests : RequestOK(request'[x])
      BY <2>2, ContinueTyped
  <2> QED BY <1>4, <2>3 DEF ConnectStore, SessionTypeOK
<1>5. ASSUME NEW r \in Requests, ConnectFails(r)
      PROVE  SessionTypeOK'
    BY <1>5, NothingTyped DEF ConnectFails, SessionTypeOK
<1>6. ASSUME NEW r \in Requests, Exchange(r)
      PROVE  SessionTypeOK'
  <2> DEFINE f == request[r].flow
             t == FirstToken(f)
             copy == [request[r].copy EXCEPT !.token = t]
  <2>1. f \in Flows
      BY <1>6 DEF Exchange, In, SessionTypeOK, RequestOK
  <2>2. t \in Token /\ copy \in Stored /\ copy.token = t
    <3>1. t \in Token
        BY <2>1, NewTokensTyped
    <3>2. request[r].copy \in Stored
        BY <1>0
    <3> HIDE DEF t
    <3>3. copy \in Stored
        BY <3>1, <3>2, CopiesTyped
    <3>4. copy.token = t
        BY <3>2 DEF Stored
    <3> QED BY <3>1, <3>3, <3>4
  <2>3. request' \in [Requests -> Request] /\ \A x \in Requests : RequestOK(request'[x])
    <3>1. CASE Continue(r, "account", copy)
        BY <2>2, <3>1, ContinueTyped
    <3>2. CASE AfterDue(t) = "end" /\ Continue(r, "end", Empty)
        BY <1>0, <3>2, ContinueTyped
    <3>3. CASE AfterDue(t) = "refresh" /\ Continue(r, "refresh", copy)
      <4>1. copy.token # NoToken /\ copy.token.refresh # 0
          BY <2>2, <3>3, TokenIsThere DEF AfterDue
      <4> QED BY <2>2, <3>3, <4>1, ContinueTyped
    <3>4. AfterDue(t) \in {"end", "refresh"}
        BY DEF AfterDue
    <3> QED BY <1>6, <3>1, <3>2, <3>3, <3>4 DEF Exchange, Clear
  <2> QED BY <1>6, <2>1, <2>3, ExchangedTyped, PresentedTyped DEF Exchange, SessionTypeOK
<1>7. ASSUME NEW r \in Requests, ExchangeFails(r)
      PROVE  SessionTypeOK'
  <2>1. request[r].flow \in Flows
      BY <1>7 DEF ExchangeFails, In, SessionTypeOK, RequestOK
  <2>2. Continue(r, "end", Empty)
      BY <1>7 DEF ExchangeFails, Clear
  <2>3. request' \in [Requests -> Request] /\ \A x \in Requests : RequestOK(request'[x])
      BY <1>0, <2>2, ContinueTyped
  <2>4. grant' \in [Flows -> Grant] /\ \A f \in Flows : grant'[f].refresh <= grant'[f].access
      BY <1>7, <2>1, ExchangedTyped DEF ExchangeFails, SessionTypeOK
  <2> QED BY <1>7, <2>1, <2>3, <2>4, PresentedTyped DEF ExchangeFails, SessionTypeOK
<1>8. ASSUME NEW r \in Requests, OpenAccount(r)
      PROVE  SessionTypeOK'
  <2>1. \E copy \in Stored : Continue(r, "end", copy)
      BY <1>0, <1>8 DEF OpenAccount, Clear
  <2>2. request' \in [Requests -> Request] /\ \A x \in Requests : RequestOK(request'[x])
      BY <2>1, ContinueTyped
  <2> QED BY <1>8, <2>2 DEF OpenAccount, SessionTypeOK
<1>9. ASSUME NEW r \in Requests, Save(r)
      PROVE  SessionTypeOK'
  <2>1. session' \in [row : Stored, live : BOOLEAN]
      BY <1>0, <1>9 DEF Save, SessionTypeOK
  <2>2. asked' \subseteq Flows
      BY <1>9 DEF Save, SessionTypeOK, RequestOK
  <2>3. history.left \cup Left(r) \subseteq Flows
      BY DEF Left, SessionTypeOK
  <2> QED BY <1>9, <2>1, <2>2, <2>3, NothingTyped DEF Save, SessionTypeOK
<1>10. ASSUME NEW r \in Requests, Break(r)
       PROVE  SessionTypeOK'
    BY <1>10, NothingTyped, SessionAssumption DEF Break, SessionTypeOK
<1>11. ASSUME NEW r \in Requests, Disconnect(r)
       PROVE  SessionTypeOK'
    BY <1>0, <1>11, LoadTyped DEF Disconnect, Disconnected, Clear, View, Steps
<1>12. ASSUME NEW r \in Requests, NEW f \in Flows, ConnectBegin(r, f)
       PROVE  SessionTypeOK'
    BY <1>0, <1>12, LoadTyped DEF ConnectBegin, View, Steps
<1>13. ASSUME NEW r \in Requests, NEW f \in Flows, CallbackDenied(r, f)
       PROVE  SessionTypeOK'
    BY <1>0, <1>13, LoadTyped DEF CallbackDenied, Clear, View, Steps
<1>14. ASSUME NEW r \in Requests, NEW f \in Flows, CallbackBegin(r, f)
       PROVE  SessionTypeOK'
  <2>1. \E copy \in Stored, pc \in {"end", "exchange"} : Load(r, "callback", pc, copy, f)
      BY <1>0, <1>14, CopiesTyped DEF CallbackBegin
  <2> QED BY <2>1, LoadTyped DEF View, Steps
<1>15. ASSUME NEW f \in Flows, Approve(f)
       PROVE  SessionTypeOK'
  <2>1. [grant[f] EXCEPT !.code = "given"] \in Grant
      BY DEF SessionTypeOK, Grant
  <2> QED BY <1>15, <2>1 DEF Approve, SessionTypeOK, Grant
<1>16. CASE LogOut
    BY <1>0, <1>16 DEF LogOut, SessionTypeOK
<1>17. CASE UNCHANGED sessionVars
    BY <1>17 DEF sessionVars, SessionTypeOK
<1> QED BY <1>1, <1>2, <1>3, <1>4, <1>5, <1>6, <1>7, <1>8, <1>9, <1>10, <1>11,
           <1>12, <1>13, <1>14, <1>15, <1>16, <1>17 DEF SessionNext, RequestStep

LEMMA SessionInitTypes == SessionInit => SessionTypeOK
<1> SUFFICES ASSUME SessionInit PROVE SessionTypeOK
    OBVIOUS
<1>1. [f \in Flows |-> [code |-> "none", access |-> 0, refresh |-> 0]] \in [Flows -> Grant]
    BY SessionAssumption DEF Grant, Numbers
<1>2. Empty \in Stored
    BY DEF Empty, Stored
<1> QED BY <1>1, <1>2, NothingTyped, SessionAssumption DEF SessionInit, SessionTypeOK

\* The session, its copies and what Stalwart issued keep their types, only a
\* refresh token is ever presented for a refresh, and a request that has
\* ended leaves nothing behind (webmail_auth.py, webmail_views._usable_token).
THEOREM SessionTypeCorrect == SessionSpec => []SessionTypeOK
<1>1. SessionTypeOK /\ [SessionNext]_sessionVars => SessionTypeOK'
    BY SessionTypes
<1> QED BY <1>1, SessionInitTypes, PTL DEF SessionSpec

---------------------------------------------------------------------------
(* Disconnecting. *)

\* What makes SignedOutStaysOut inductive: a logged-out session is empty, a
\* disconnecting request stores an empty copy, and no code of a sign-in that
\* was left can be exchanged any more.
SignedOutInv ==
    /\ SessionTypeOK
    /\ ~session.live => session.row = Empty
    /\ \A r \in Requests : request[r].view = "disconnect" =>
          request[r].copy = Empty /\ request[r].modified /\ In(r, "end")
    /\ \A f \in history.left : grant[f].code = "spent"
    /\ SignedOutStaysOut

\* A refresh is no exchange of a code.
LEMMA RefreshedCodes ==
    ASSUME SessionTypeOK, NEW t \in Token, Refreshed(t)
    PROVE  \A f \in Flows : grant'[f].code = grant[f].code
<1>1. t.flow \in Flows /\ grant[t.flow] \in Grant
    BY DEF Token, SessionTypeOK
<1> DEFINE g == [grant[t.flow] EXCEPT !.access = NextNumber(t.flow),
                                      !.refresh = NextRefresh(t.flow)]
<1>2. grant' = [grant EXCEPT ![t.flow] = g]
    BY DEF Refreshed
<1>3. g.code = grant[t.flow].code
    BY <1>1 DEF Grant
<1> HIDE DEF g
<1> QED BY <1>1, <1>2, <1>3 DEF SessionTypeOK

\* A request that begins finds no token of a sign-in that was left.
LEMMA SignedOutLoad ==
    ASSUME SignedOutInv, SessionTypeOK',
           NEW r \in Requests, NEW view, NEW pc, NEW copy, NEW f,
           Load(r, view, pc, copy, f),
           copy.token \in {session.row.token, NoToken},
           view = "disconnect" => copy = Empty /\ copy # session.row /\ pc = "end"
    PROVE  SignedOutInv'
<1>1. /\ request' = [request EXCEPT ![r] =
            [ pc |-> pc, view |-> view, copy |-> copy,
              modified |-> copy # session.row, flow |-> f ]]
      /\ UNCHANGED <<session, grant>>
      /\ history'.left = history.left
      /\ request \in [Requests -> Request]
    BY DEF Load, SignedOutInv, SessionTypeOK
<1>2. \A q \in Requests : request'[q].view = "disconnect" =>
         request'[q].copy = Empty /\ request'[q].modified /\ request'[q].pc = "end"
    BY <1>1 DEF SignedOutInv, In
<1>3. ASSUME NEW g \in history.left, NEW q \in Requests
      PROVE  ~Holds(request'[q].copy, g)
    BY <1>1, <1>3 DEF SignedOutInv, SignedOutStaysOut, Holds
<1> QED BY <1>1, <1>2, <1>3 DEF SignedOutInv, SignedOutStaysOut, In

\* Nor does one that goes on come by such a token.
LEMMA SignedOutContinue ==
    ASSUME SignedOutInv, SessionTypeOK',
           NEW r \in Requests, NEW pc, NEW copy,
           ~In(r, "end"), Continue(r, pc, copy),
           session' = session, history'.left = history.left,
           \A f \in history.left : grant'[f].code = "spent" /\ ~Holds(copy, f)
    PROVE  SignedOutInv'
<1>1. /\ request' = [request EXCEPT ![r] =
            [request[r] EXCEPT !.pc = pc, !.copy = copy,
                  !.modified = @ \/ copy # request[r].copy]]
      /\ request \in [Requests -> Request]
      /\ request[r] \in Request
    BY DEF Continue, SignedOutInv, SessionTypeOK
<1>2. request[r].view # "disconnect"
    BY DEF SignedOutInv
<1>3. request'[r].view = request[r].view /\ request'[r].copy = copy
    BY <1>1 DEF Request
<1>4. \A q \in Requests \ {r} : request'[q] = request[q]
    BY <1>1
<1>5. \A q \in Requests : request'[q].view = "disconnect" =>
         request'[q].copy = Empty /\ request'[q].modified /\ request'[q].pc = "end"
    BY <1>2, <1>3, <1>4 DEF SignedOutInv, In
<1>6. \A g \in history.left, q \in Requests : ~Holds(request'[q].copy, g)
    BY <1>3, <1>4 DEF SignedOutInv, SignedOutStaysOut
<1> QED BY <1>5, <1>6 DEF SignedOutInv, SignedOutStaysOut, In

\* Nobody holds anything in what is empty.
LEMMA NothingHeld == \A f \in Flows : ~Holds(Empty, f)
    BY DEF Holds, Empty

\* Nor does a request that ends.
LEMMA SignedOutEnds ==
    ASSUME SignedOutInv, SessionTypeOK', NEW r \in Requests,
           request' = [request EXCEPT ![r] = NoRequest],
           session' = session, grant' = grant, history'.left = history.left
    PROVE  SignedOutInv'
<1>1. request'[r] = NoRequest /\ \A q \in Requests \ {r} : request'[q] = request[q]
    BY DEF SignedOutInv, SessionTypeOK
<1>2. history.left \subseteq Flows
    BY DEF SignedOutInv, SessionTypeOK
<1>3. NoRequest.view # "disconnect" /\ NoRequest.copy = Empty
    BY DEF NoRequest
<1>4. \A q \in Requests : request'[q].view = "disconnect" =>
         request'[q].copy = Empty /\ request'[q].modified /\ request'[q].pc = "end"
    BY <1>1, <1>3 DEF SignedOutInv, In
<1>5. \A g \in history.left, q \in Requests : ~Holds(request'[q].copy, g)
    BY <1>1, <1>2, <1>3, NothingHeld DEF SignedOutInv, SignedOutStaysOut
<1> QED BY <1>4, <1>5 DEF SignedOutInv, SignedOutStaysOut, In

\* The middleware stores a copy, or the mailbox is left with every copy
\* empty.
LEMMA SignedOutSave ==
    ASSUME SignedOutInv, SessionTypeOK', NEW r \in Requests, Save(r)
    PROVE  SignedOutInv'
<1> USE DEF SignedOutInv
<1>1. request'[r] = NoRequest /\ \A q \in Requests \ {r} : request'[q] = request[q]
    BY DEF SessionTypeOK, Save
<1>2. NoRequest.view # "disconnect" /\ NoRequest.copy = Empty
    BY DEF NoRequest
<1>3. \A q \in Requests : request'[q].view = "disconnect" =>
         request'[q].copy = Empty /\ request'[q].modified /\ request'[q].pc = "end"
    BY <1>1, <1>2 DEF In
<1>4. \/ session' = session
      \/ session'.row = request[r].copy /\ session'.live
    BY DEF Save, SessionTypeOK
<1>5. ~session'.live => session'.row = Empty
    BY <1>4 DEF Save
<1>6. history'.left = history.left \cup Left(r) /\ grant' = grant
    BY DEF Save, SessionTypeOK
<1>7. \A f \in history'.left : f \in Flows /\ grant'[f].code = "spent"
    BY <1>6 DEF Left, SessionTypeOK
<1>8. CASE request[r].view = "disconnect" /\ Others(r) = {}
  <2>1. \A q \in Requests : request'[q].copy = Empty
    <3>1. \A q \in Requests \ {r} : In(q, "idle")
        BY <1>8 DEF Others
    <3>2. \A q \in Requests \ {r} : request[q] = NoRequest
        BY <3>1 DEF SessionTypeOK, RequestOK, In
    <3> QED BY <1>1, <1>2, <3>2
  <2>2. session'.row = Empty
      BY <1>8 DEF Save, SessionTypeOK
  <2>3. SignedOutStaysOut'
      BY <1>7, <2>1, <2>2, NothingHeld DEF SignedOutStaysOut
  <2> QED BY <1>3, <1>5, <1>7, <2>3 DEF In
<1>9. CASE ~(request[r].view = "disconnect" /\ Others(r) = {})
  <2>1. history'.left = history.left
      BY <1>6, <1>9 DEF Left
  <2>2. SignedOutStaysOut'
      BY <1>1, <1>2, <1>4, <1>7, <2>1, NothingHeld DEF SignedOutStaysOut
  <2> QED BY <1>3, <1>5, <1>7, <2>2 DEF In
<1> QED BY <1>8, <1>9

\* Every step keeps what was left out of reach.
LEMMA SignedOutStep ==
    SignedOutInv /\ [SessionNext]_sessionVars => SignedOutInv'
<1> SUFFICES ASSUME SignedOutInv, [SessionNext]_sessionVars
             PROVE  SignedOutInv'
    OBVIOUS
<1>0. SessionTypeOK /\ SessionTypeOK'
    BY SessionTypes DEF SignedOutInv
<1>a. history.left \subseteq Flows /\ \A f \in history.left : grant[f].code = "spent"
    BY <1>0 DEF SignedOutInv, SessionTypeOK
<1>b. \A f \in history.left : ~Holds(Empty, f)
    BY <1>a, NothingHeld
<1>1. ASSUME NEW r \in Requests, OpenMail(r)
      PROVE  SignedOutInv'
  <2> DEFINE t == session.row.token
             copy == IF AfterDue(t) = "end" THEN Clear(session.row) ELSE session.row
  <2>1. Load(r, "open", AfterDue(t), copy, NoFlow)
      BY <1>1 DEF OpenMail
  <2>2. copy.token \in {session.row.token, NoToken}
      BY DEF Clear, Empty
  <2> HIDE DEF copy, t
  <2> QED BY <1>0, <2>1, <2>2, SignedOutLoad
<1>2. ASSUME NEW r \in Requests, Refresh(r)
      PROVE  SignedOutInv'
  <2> DEFINE t == request[r].copy.token
             pc == IF request[r].view = "callback" THEN "account" ELSE "end"
             copy == [request[r].copy EXCEPT !.token = RefreshedToken(t)]
  <2>1. t \in Token /\ t # NoToken /\ request[r].copy \in Stored
      BY <1>0, <1>2, RefreshesToken, TokenIsThere DEF Refresh
  <2>2. copy.token.flow = t.flow
      BY <2>1 DEF RefreshedToken, Stored
  <2>3. \A f \in history.left : ~Holds(copy, f)
      BY <2>1, <2>2 DEF Holds, SignedOutInv, SignedOutStaysOut
  <2>4. \A f \in history.left : grant'[f].code = "spent"
    <3>1. Refreshed(t)
        BY <1>2 DEF Refresh
    <3>2. \A f \in Flows : grant'[f].code = grant[f].code
        BY <1>0, <2>1, <3>1, RefreshedCodes
    <3> QED BY <1>a, <3>2
  <2>5. Continue(r, pc, copy) /\ ~In(r, "end") /\ session' = session /\ history' = history
      BY <1>2 DEF Refresh, In
  <2> HIDE DEF pc, copy
  <2> QED BY <1>0, <2>3, <2>4, <2>5, SignedOutContinue
<1>3. ASSUME NEW r \in Requests, RefreshFails(r)
      PROVE  SignedOutInv'
  <2>1. Continue(r, "end", Empty) /\ ~In(r, "end") /\ session' = session /\ history' = history
      BY <1>3 DEF RefreshFails, AfterRefusal, Clear, In
  <2>2. \A f \in history.left : grant'[f].code = "spent"
    <3>1. CASE UNCHANGED grant
        BY <1>a, <3>1
    <3>2. CASE Refreshed(request[r].copy.token)
      <4>1. request[r].copy.token \in Token
          BY <1>0, <1>3, RefreshesToken DEF RefreshFails
      <4>2. \A f \in Flows : grant'[f].code = grant[f].code
          BY <1>0, <4>1, <3>2, RefreshedCodes
      <4> QED BY <1>a, <4>2
    <3> QED BY <1>3, <3>1, <3>2 DEF RefreshFails
  <2> QED BY <1>0, <1>b, <2>1, <2>2, SignedOutContinue
<1>4. ASSUME NEW r \in Requests, ConnectStore(r)
      PROVE  SignedOutInv'
  <2> DEFINE copy == [request[r].copy EXCEPT !.flow = request[r].flow]
  <2>1. request[r].copy \in Stored
      BY <1>0 DEF SessionTypeOK, Request
  <2>2. copy.token = request[r].copy.token
      BY <2>1 DEF Stored
  <2>3. \A f \in history.left : ~Holds(copy, f)
      BY <2>2 DEF Holds, SignedOutInv, SignedOutStaysOut
  <2>4. Continue(r, "end", copy) /\ ~In(r, "end")
        /\ UNCHANGED <<session, grant, history>>
      BY <1>4 DEF ConnectStore, In
  <2> HIDE DEF copy
  <2> QED BY <1>0, <1>a, <2>3, <2>4, SignedOutContinue
<1>5. ASSUME NEW r \in Requests, ConnectFails(r) \/ Break(r)
      PROVE  SignedOutInv'
  <2>1. /\ request' = [request EXCEPT ![r] = NoRequest]
        /\ UNCHANGED <<session, grant>>
        /\ history'.left = history.left
      BY <1>0, <1>5 DEF ConnectFails, Break, SessionTypeOK
  <2> QED BY <1>0, <2>1, SignedOutEnds
<1>6. ASSUME NEW r \in Requests, Exchange(r)
      PROVE  SignedOutInv'
  <2> DEFINE f == request[r].flow
             t == FirstToken(f)
             copy == [request[r].copy EXCEPT !.token = t]
  <2>1. f \in Flows /\ Exchanged(f)
      BY <1>0, <1>6 DEF Exchange, In, SessionTypeOK, RequestOK
  <2>2. f \notin history.left
      BY <1>a, <2>1 DEF Exchanged
  <2>3. request[r].copy \in Stored /\ t.flow = f
      BY <1>0 DEF SessionTypeOK, Request, FirstToken
  <2>4. \A g \in history.left : ~Holds(copy, g)
      BY <2>2, <2>3 DEF Holds, Stored
  <2>5. \A g \in history.left : grant'[g].code = "spent"
      BY <1>0, <1>a, <2>1 DEF Exchanged, SessionTypeOK
  <2>6. session' = session /\ history'.left = history.left /\ ~In(r, "end")
      BY <1>0, <1>6 DEF Exchange, Presented, SessionTypeOK, In
  <2>7. \/ Continue(r, "account", copy) \/ Continue(r, AfterDue(t), copy)
        \/ Continue(r, AfterDue(t), Empty)
      BY <1>6 DEF Exchange, Clear
  <2> HIDE DEF copy, t
  <2> QED BY <1>0, <1>b, <2>4, <2>5, <2>6, <2>7, SignedOutContinue
<1>7. ASSUME NEW r \in Requests, ExchangeFails(r)
      PROVE  SignedOutInv'
  <2>1. Continue(r, "end", Empty) /\ ~In(r, "end") /\ session' = session
        /\ history'.left = history.left
      BY <1>0, <1>7 DEF ExchangeFails, Clear, In, Presented, SessionTypeOK
  <2>2. \A g \in history.left : grant'[g].code = "spent"
      BY <1>0, <1>a, <1>7 DEF ExchangeFails, Exchanged, SessionTypeOK
  <2> QED BY <1>0, <1>b, <2>1, <2>2, SignedOutContinue
<1>8. ASSUME NEW r \in Requests, OpenAccount(r)
      PROVE  SignedOutInv'
  <2>1. Continue(r, "end", request[r].copy) \/ Continue(r, "end", Empty)
      BY <1>8 DEF OpenAccount, Clear
  <2>2. ~In(r, "end") /\ UNCHANGED <<session, grant, history>>
      BY <1>8 DEF OpenAccount, In
  <2>3. \A g \in history.left : ~Holds(request[r].copy, g)
      BY DEF SignedOutInv, SignedOutStaysOut
  <2> QED BY <1>0, <1>a, <1>b, <2>1, <2>2, <2>3, SignedOutContinue
<1>9. ASSUME NEW r \in Requests, Save(r)
      PROVE  SignedOutInv'
    BY <1>0, <1>9, SignedOutSave
<1>11. ASSUME NEW r \in Requests, Disconnect(r)
       PROVE  SignedOutInv'
  <2>1. Load(r, "disconnect", "end", Empty, NoFlow) /\ session.row # Empty
      BY <1>11 DEF Disconnect, Disconnected, Clear
  <2>2. Empty.token = NoToken
      BY DEF Empty
  <2> QED BY <1>0, <2>1, <2>2, SignedOutLoad
<1>12. ASSUME NEW r \in Requests, NEW f \in Flows,
              ConnectBegin(r, f) \/ CallbackDenied(r, f) \/ CallbackBegin(r, f)
       PROVE  SignedOutInv'
  <2>1. Empty.token = NoToken /\ PopFlow(session.row).token = session.row.token
      BY <1>0 DEF Empty, PopFlow, SessionTypeOK, Stored
  <2>2. \E copy \in {session.row, Empty, PopFlow(session.row)},
           view \in {"connect", "callback"}, pc \in Steps :
           Load(r, view, pc, copy, f)
      BY <1>12 DEF ConnectBegin, CallbackDenied, CallbackBegin, Clear, Steps
  <2> QED BY <1>0, <2>1, <2>2, SignedOutLoad
<1>15. ASSUME NEW f \in Flows, Approve(f)
       PROVE  SignedOutInv'
  <2>1. \A g \in Flows : grant[g].code = "spent" => grant'[g].code = "spent"
      BY <1>0, <1>15 DEF Approve, SessionTypeOK, Grant
  <2> QED BY <1>0, <1>a, <1>15, <2>1 DEF Approve, SignedOutInv, SignedOutStaysOut, In
<1>16. CASE LogOut
    BY <1>0, <1>16, <1>b DEF LogOut, SignedOutInv, SignedOutStaysOut, In
<1>17. CASE UNCHANGED sessionVars
    BY <1>0, <1>17 DEF sessionVars, SignedOutInv, SignedOutStaysOut, In, Holds
<1> QED BY <1>1, <1>2, <1>3, <1>4, <1>5, <1>6, <1>7, <1>8, <1>9, <1>11,
           <1>12, <1>15, <1>16, <1>17 DEF SessionNext, RequestStep

\* No later request finds the token of a mailbox that was disconnected while
\* no other request was under way, nor can its authorization code be
\* exchanged again, whatever requests were reloaded, broke or were answered
\* late (webmail_views.webmail_disconnect, webmail_auth.pop_oauth_flow).
THEOREM DisconnectedForGood == SessionSpec => []SignedOutStaysOut
<1>1. SessionInit => SignedOutInv
    BY SessionInitTypes DEF SessionInit, SignedOutInv, SignedOutStaysOut, NoRequest
<1>2. SignedOutInv /\ [SessionNext]_sessionVars => SignedOutInv'
    BY SignedOutStep
<1>3. SignedOutInv => SignedOutStaysOut
    BY DEF SignedOutInv
<1> QED BY <1>1, <1>2, <1>3, PTL DEF SessionSpec

---------------------------------------------------------------------------
(* One request at a time. *)

\* The token is the last that Stalwart issued, and the code of the flow was
\* not presented yet.
Fits(s, issued, presented) ==
    \A f \in Flows :
        /\ Holds(s, f) => /\ s.token.access = issued[f].access
                          /\ s.token.refresh = issued[f].refresh
        /\ s.flow = f => presented[f] = 0

\* What makes SerialSessionIsLive inductive: one request at most is under
\* way; its copy, or the row if there is none, fits what Stalwart issued; a
\* copy that will not be stored is the row; and a code is presented by the
\* request that took its flow out of the session.
SerialInv ==
    /\ SessionTypeOK
    /\ ~session.live => session.row = Empty
    /\ Serial =>
        /\ \A r, q \in Requests : In(r, "idle") \/ In(q, "idle") \/ r = q
        /\ (\A r \in Requests : In(r, "idle"))
              => Fits(session.row, grant, history.presented)
        /\ \A r \in Requests : ~In(r, "idle") =>
              /\ Fits(request[r].copy, grant, history.presented)
              /\ session.live /\ ~request[r].modified
                    => request[r].copy = session.row
        /\ \A r \in Requests : In(r, "metadata") =>
              ~request[r].modified /\ request[r].flow \notin asked
        /\ \A r \in Requests : In(r, "exchange") =>
              /\ request[r].flow \in asked
              /\ history.presented[request[r].flow] = 0
              /\ request[r].copy.flow = NoFlow
        /\ \A f \in Flows :
              /\ history.presented[f] <= 1
              /\ history.presented[f] > 0 \/ grant[f].code # "none" => f \in asked

\* What is empty fits everything.
LEMMA EmptyFits == \A issued, presented : Fits(Empty, issued, presented)
    BY SessionAssumption, NothingHeld DEF Fits, Empty

\* A request that begins alone works on a copy that fits.
LEMMA SerialLoad ==
    ASSUME SerialInv, SessionTypeOK',
           NEW r \in Requests, NEW view, NEW pc, NEW copy, NEW f,
           Load(r, view, pc, copy, f),
           pc # "idle",
           copy.token \in {session.row.token, NoToken},
           copy.flow \in {session.row.flow, NoFlow},
           pc = "metadata" => copy = session.row /\ f \notin asked,
           pc = "exchange" => /\ f \in Flows
                              /\ session.row.flow = f
                              /\ copy.flow = NoFlow
                              /\ grant[f].code # "none"
    PROVE  SerialInv'
<1> DEFINE new == [ pc |-> pc, view |-> view, copy |-> copy,
                    modified |-> copy # session.row, flow |-> f ]
<1>1. /\ request' = [request EXCEPT ![r] = new]
      /\ request \in [Requests -> Request]
      /\ UNCHANGED <<session, grant, asked>>
      /\ history' = [history EXCEPT !.overlapped = @ \/ Others(r) # {}]
    BY DEF Load, SerialInv, SessionTypeOK
<1>2. request'[r] = new /\ \A q \in Requests \ {r} : request'[q] = request[q]
    BY <1>1
<1>3. history'.presented = history.presented /\ history'.breaks = history.breaks
      /\ history'.overlapped = (history.overlapped \/ Others(r) # {})
    BY <1>1 DEF SerialInv, SessionTypeOK
<1> SUFFICES ASSUME Serial' PROVE SerialInv'
    BY <1>1 DEF SerialInv
<1>4. Serial /\ Others(r) = {}
    BY <1>3 DEF Serial
<1>5. \A q \in Requests : In(q, "idle")
    BY <1>4 DEF Others, Load
<1>6. Fits(session.row, grant, history.presented)
    BY <1>4, <1>5 DEF SerialInv
<1>7. Fits(copy, grant, history.presented)
    BY <1>6, SessionAssumption DEF Fits, Holds
<1>8. \A q \in Requests \ {r} : In(q, "idle")' /\ ~In(q, "metadata")' /\ ~In(q, "exchange")'
    BY <1>2, <1>5 DEF In
<1>12. new.modified <=> copy # session.row
    OBVIOUS
<1>13. new.pc = pc /\ new.copy = copy /\ new.flow = f
    OBVIOUS
<1>9. ~In(r, "idle")' /\ request'[r].copy = copy
      /\ (~request'[r].modified => copy = session.row)
    BY <1>2, <1>12, <1>13 DEF In
<1>10. In(r, "metadata")' => ~request'[r].modified /\ request'[r].flow \notin asked
    BY <1>2, <1>12, <1>13 DEF In
<1>11. In(r, "exchange")' => /\ request'[r].flow \in asked
                             /\ history.presented[request'[r].flow] = 0
                             /\ request'[r].copy.flow = NoFlow
    BY <1>2, <1>4, <1>6 DEF In, Fits, SerialInv
<1> HIDE DEF new
<1> QED BY <1>1, <1>3, <1>4, <1>7, <1>8, <1>9, <1>10, <1>11 DEF SerialInv

\* A request that goes on alone keeps a copy that fits.
LEMMA SerialContinue ==
    ASSUME SerialInv, SessionTypeOK',
           NEW r \in Requests, NEW pc \in {"end", "account", "refresh"}, NEW copy,
           ~In(r, "idle"), Continue(r, pc, copy),
           session' = session, asked' = asked, Serial' => Serial,
           Serial => /\ Fits(copy, grant', history'.presented)
                     /\ \A f \in Flows :
                           /\ history'.presented[f] <= 1
                           /\ history'.presented[f] > 0 \/ grant'[f].code # "none"
                                 => f \in asked
    PROVE  SerialInv'
<1> SUFFICES ASSUME Serial', Serial PROVE SerialInv'
    BY DEF SerialInv
<1>1. request \in [Requests -> Request] /\ request[r] \in Request
    BY DEF SerialInv, SessionTypeOK
<1> DEFINE new == [request[r] EXCEPT !.pc = pc, !.copy = copy,
                        !.modified = @ \/ copy # request[r].copy]
<1>2. request' = [request EXCEPT ![r] = new]
    BY DEF Continue
<1>3. request'[r] = new /\ \A q \in Requests \ {r} : request'[q] = request[q]
    BY <1>1, <1>2
<1>4. new.pc = pc /\ new.copy = copy
      /\ new.modified = (request[r].modified \/ copy # request[r].copy)
    BY <1>1 DEF Request
<1> HIDE DEF new
<1>5. \A q \in Requests \ {r} : In(q, "idle")
    BY DEF SerialInv
<1>6. \A q \in Requests \ {r} : In(q, "idle")' /\ ~In(q, "metadata")' /\ ~In(q, "exchange")'
    BY <1>3, <1>5 DEF In
<1>7. ~In(r, "idle")' /\ ~In(r, "metadata")' /\ ~In(r, "exchange")'
    BY <1>3, <1>4 DEF In
<1>8. session.live /\ ~request'[r].modified => request'[r].copy = session.row
    BY <1>3, <1>4 DEF SerialInv
<1>9. request'[r].copy = copy
    BY <1>3, <1>4
<1>10. Fits(request'[r].copy, grant', history'.presented)
    BY <1>9
<1> QED BY <1>6, <1>7, <1>8, <1>10 DEF SerialInv

\* A request that ends alone leaves a row that fits.
LEMMA SerialEnds ==
    ASSUME SerialInv, SessionTypeOK',
           NEW r \in Requests,
           ~In(r, "idle"), request' = [request EXCEPT ![r] = NoRequest],
           grant' = grant, asked \subseteq asked', Serial' => Serial,
           history'.presented = history.presented,
           ~session'.live => session'.row = Empty,
           session' = session \/ session'.row = request[r].copy,
           Serial /\ session' = session /\ session.live
              => ~request[r].modified \/ session.row = request[r].copy
    PROVE  SerialInv'
<1> SUFFICES ASSUME Serial', Serial PROVE SerialInv'
    BY DEF SerialInv
<1>1. request \in [Requests -> Request]
    BY DEF SerialInv, SessionTypeOK
<1>2. request'[r] = NoRequest /\ \A q \in Requests \ {r} : request'[q] = request[q]
    BY <1>1
<1>3. \A q \in Requests : In(q, "idle")' /\ ~In(q, "metadata")' /\ ~In(q, "exchange")'
    BY <1>2 DEF SerialInv, In, NoRequest
<1>4. Fits(request[r].copy, grant, history.presented)
      /\ (session.live /\ ~request[r].modified => request[r].copy = session.row)
    BY DEF SerialInv
<1>5. Fits(session'.row, grant, history.presented)
  <2>1. CASE session'.row = request[r].copy
      BY <1>4, <2>1
  <2>2. CASE session' = session /\ session.live
      BY <1>4, <2>2
  <2>3. CASE ~session'.live
      BY <2>3, EmptyFits
  <2> QED BY <2>1, <2>2, <2>3
<1> QED BY <1>3, <1>5 DEF SerialInv

\* The token endpoint leaves the token that it issued.
LEMMA RefreshedFits ==
    ASSUME SessionTypeOK, NEW c \in Stored, c.token # NoToken,
           Acceptable(c.token), Refreshed(c.token),
           Fits(c, grant, history.presented)
    PROVE  Fits([c EXCEPT !.token = RefreshedToken(c.token)], grant', history.presented)
<1> DEFINE t == c.token
           new == RefreshedToken(t)
           d == [c EXCEPT !.token = new]
<1>1. t \in Token /\ t.flow \in Flows
    BY DEF Stored, Token
<1>2. new.flow = t.flow /\ new.access = NextNumber(t.flow) /\ new.refresh = NextRefresh(t.flow)
    BY DEF RefreshedToken, Acceptable, NextRefresh
<1>3. grant'[t.flow].access = NextNumber(t.flow) /\ grant'[t.flow].refresh = NextRefresh(t.flow)
  <2>1. grant[t.flow] \in Grant
      BY <1>1 DEF SessionTypeOK
  <2> DEFINE g == [grant[t.flow] EXCEPT !.access = NextNumber(t.flow),
                                        !.refresh = NextRefresh(t.flow)]
  <2>2. g.access = NextNumber(t.flow) /\ g.refresh = NextRefresh(t.flow)
      BY <2>1 DEF Grant
  <2>3. grant' = [grant EXCEPT ![t.flow] = g]
      BY DEF Refreshed
  <2> HIDE DEF g
  <2> QED BY <1>1, <2>2, <2>3 DEF SessionTypeOK
<1>4. d.token = new /\ d.flow = c.flow
    BY DEF Stored
<1> SUFFICES Fits(d, grant', history.presented)
    OBVIOUS
<1> HIDE DEF d, new
<1>5. ASSUME NEW f \in Flows, Holds(d, f)
      PROVE  d.token.access = grant'[f].access /\ d.token.refresh = grant'[f].refresh
  <2>1. f = t.flow
      BY <1>2, <1>4, <1>5 DEF Holds
  <2> QED BY <1>2, <1>3, <1>4, <2>1
<1>6. \A f \in Flows : d.flow = f => history.presented[f] = 0
    BY <1>4 DEF Fits
<1> QED BY <1>5, <1>6 DEF Fits

\* Every step keeps the only request's copy in accord with what was issued.
LEMMA SerialStep ==
    SerialInv /\ [SessionNext]_sessionVars => SerialInv'
<1> SUFFICES ASSUME SerialInv, [SessionNext]_sessionVars
             PROVE  SerialInv'
    OBVIOUS
<1>0. SessionTypeOK /\ SessionTypeOK'
    BY SessionTypes DEF SerialInv
<1>a. session.row \in Stored /\ \A r \in Requests : request[r].copy \in Stored
    BY <1>0 DEF SessionTypeOK, Request
<1>b. Empty.token = NoToken /\ Empty.flow = NoFlow
      /\ PopFlow(session.row).token = session.row.token
      /\ PopFlow(session.row).flow = NoFlow
    BY <1>a DEF Empty, PopFlow, Stored
<1>c. Serial => \A f \in Flows :
         /\ history.presented[f] <= 1
         /\ history.presented[f] > 0 \/ grant[f].code # "none" => f \in asked
    BY DEF SerialInv
<1>1. ASSUME NEW r \in Requests, OpenMail(r)
      PROVE  SerialInv'
  <2> DEFINE pc == AfterDue(session.row.token)
             copy == IF pc = "end" THEN Clear(session.row) ELSE session.row
  <2>1. Load(r, "open", pc, copy, NoFlow) /\ pc \in {"end", "refresh"}
      BY <1>1 DEF OpenMail, AfterDue
  <2>2. /\ copy.token \in {session.row.token, NoToken}
        /\ copy.flow \in {session.row.flow, NoFlow}
      BY DEF Clear, Empty
  <2> HIDE DEF copy, pc
  <2> QED BY <1>0, <2>1, <2>2, SerialLoad
<1>2. ASSUME NEW r \in Requests, Refresh(r)
      PROVE  SerialInv'
  <2> DEFINE t == request[r].copy.token
             pc == IF request[r].view = "callback" THEN "account" ELSE "end"
             copy == [request[r].copy EXCEPT !.token = RefreshedToken(t)]
  <2>1. t \in Token /\ t # NoToken /\ Acceptable(t) /\ Refreshed(t)
      BY <1>0, <1>2, RefreshesToken, TokenIsThere DEF Refresh
  <2>2. Continue(r, pc, copy) /\ ~In(r, "idle") /\ pc \in {"end", "account"}
        /\ UNCHANGED <<session, asked, history>>
      BY <1>2 DEF Refresh, In
  <2>3. ASSUME Serial PROVE Fits(copy, grant', history'.presented)
    <3>1. Fits(request[r].copy, grant, history.presented)
        BY <2>2, <2>3 DEF SerialInv
    <3> QED BY <1>0, <1>a, <2>1, <2>2, <3>1, RefreshedFits
  <2>4. \A f \in Flows : grant'[f].code = grant[f].code
      BY <1>0, <2>1, RefreshedCodes
  <2> HIDE DEF pc, copy
  <2> QED BY <1>0, <1>c, <2>2, <2>3, <2>4, SerialContinue DEF Serial
<1>3. ASSUME NEW r \in Requests, RefreshFails(r)
      PROVE  SerialInv'
  <2>1. Continue(r, "end", Empty) /\ ~In(r, "idle") /\ UNCHANGED <<session, asked, history>>
      BY <1>3 DEF RefreshFails, AfterRefusal, Clear, In
  <2>2. \A f \in Flows : grant'[f].code = grant[f].code
      BY <1>0, <1>3, RefreshesToken, RefreshedCodes DEF RefreshFails
  <2> QED BY <1>0, <1>c, <2>1, <2>2, EmptyFits, SerialContinue DEF Serial
<1>4. ASSUME NEW r \in Requests, ConnectStore(r)
      PROVE  SerialInv'
  <2> DEFINE f == request[r].flow
             copy == [request[r].copy EXCEPT !.flow = f]
  <2>1. copy.token = request[r].copy.token /\ copy.flow = f
      BY <1>a DEF Stored
  <2>2. Continue(r, "end", copy) /\ In(r, "metadata")
        /\ UNCHANGED <<session, grant, asked, history>>
      BY <1>4 DEF ConnectStore
  <2>3. f \in Flows
      BY <1>0, <2>2 DEF In, SessionTypeOK, RequestOK
  <2>4. ASSUME Serial PROVE Fits(copy, grant', history'.presented)
    <3>1. f \notin asked /\ Fits(request[r].copy, grant, history.presented)
        BY <2>2, <2>4 DEF SerialInv, In
    <3>2. history.presented[f] = 0
        BY <1>0, <1>c, <2>3, <2>4, <3>1 DEF SessionTypeOK
    <3> HIDE DEF copy, f
    <3> QED BY <2>1, <2>2, <3>1, <3>2 DEF Fits, Holds
  <2>5. ~In(r, "idle")
      BY <2>2 DEF In
  <2> HIDE DEF copy
  <2> QED BY <1>0, <1>c, <2>2, <2>4, <2>5, SerialContinue DEF Serial
<1>5. ASSUME NEW r \in Requests, ConnectFails(r)
      PROVE  SerialInv'
  <2>1. ~In(r, "idle") /\ (Serial => ~request[r].modified)
      BY <1>5 DEF ConnectFails, SerialInv, In
  <2> QED BY <1>0, <1>5, <2>1, SerialEnds DEF ConnectFails, SerialInv, Serial
<1>6. ASSUME NEW r \in Requests, Exchange(r)
      PROVE  SerialInv'
  <2> DEFINE f == request[r].flow
             t == FirstToken(f)
             copy == [request[r].copy EXCEPT !.token = t]
  <2>1. f \in Flows /\ In(r, "exchange") /\ Exchanged(f) /\ history' = Presented(f)
      BY <1>0, <1>6 DEF Exchange, In, SessionTypeOK, RequestOK
  <2>2. copy.token = t /\ copy.flow = request[r].copy.flow /\ t.flow = f
      BY <1>a DEF Stored, FirstToken
  <2>3. /\ grant'[f].code = "spent" /\ grant'[f].access = t.access
        /\ grant'[f].refresh = t.refresh
        /\ \A g \in Flows \ {f} : grant'[g] = grant[g]
      BY <1>0, <2>1 DEF Exchanged, FirstToken, SessionTypeOK
  <2>4. ASSUME Serial
        PROVE  /\ Fits(copy, grant', history'.presented)
               /\ \A g \in Flows :
                     /\ history'.presented[g] <= 1
                     /\ history'.presented[g] > 0 \/ grant'[g].code # "none" => g \in asked
    <3>1. f \in asked /\ history.presented[f] = 0 /\ request[r].copy.flow = NoFlow
        BY <2>1, <2>4 DEF SerialInv
    <3>2. history'.presented[f] = 1 /\ \A g \in Flows \ {f} : history'.presented[g] = history.presented[g]
        BY <1>0, <2>1, <3>1, PresentedCounts
    <3> HIDE DEF copy, t, f
    <3> QED BY <1>c, <2>1, <2>2, <2>3, <2>4, <3>1, <3>2, SessionAssumption DEF Fits, Holds
  <2>5. ~In(r, "idle") /\ UNCHANGED <<session, asked>> /\ (Serial' => Serial)
      BY <1>0, <1>6 DEF Exchange, In, Serial, Presented, SessionTypeOK
  <2>6. \/ Continue(r, "account", copy) \/ Continue(r, AfterDue(t), copy)
        \/ Continue(r, "end", Empty)
      BY <1>6 DEF Exchange, Clear
  <2>7. AfterDue(t) \in {"end", "refresh"}
      BY DEF AfterDue
  <2> HIDE DEF copy, t
  <2> QED BY <1>0, <2>4, <2>5, <2>6, <2>7, EmptyFits, SerialContinue
<1>7. ASSUME NEW r \in Requests, ExchangeFails(r)
      PROVE  SerialInv'
  <2> DEFINE f == request[r].flow
  <2>1. f \in Flows /\ In(r, "exchange") /\ history' = Presented(f)
      BY <1>0, <1>7 DEF ExchangeFails, In, SessionTypeOK, RequestOK
  <2>2. \A g \in Flows \ {f} : grant'[g] = grant[g]
      BY <1>0, <1>7 DEF ExchangeFails, Exchanged, SessionTypeOK
  <2>3. ASSUME Serial
        PROVE  \A g \in Flows :
                  /\ history'.presented[g] <= 1
                  /\ history'.presented[g] > 0 \/ grant'[g].code # "none" => g \in asked
    <3>1. f \in asked /\ history.presented[f] = 0
        BY <2>1, <2>3 DEF SerialInv
    <3>2. history'.presented[f] = 1 /\ \A g \in Flows \ {f} : history'.presented[g] = history.presented[g]
        BY <1>0, <2>1, <3>1, PresentedCounts
    <3> HIDE DEF f
    <3> QED BY <1>c, <2>2, <2>3, <3>1, <3>2
  <2>4. Continue(r, "end", Empty) /\ ~In(r, "idle") /\ UNCHANGED <<session, asked>>
        /\ (Serial' => Serial)
      BY <1>0, <1>7 DEF ExchangeFails, In, Serial, Presented, SessionTypeOK, Clear
  <2> QED BY <1>0, <2>3, <2>4, EmptyFits, SerialContinue
<1>8. ASSUME NEW r \in Requests, OpenAccount(r)
      PROVE  SerialInv'
  <2>1. Continue(r, "end", request[r].copy) \/ Continue(r, "end", Empty)
      BY <1>8 DEF OpenAccount, Clear
  <2>2. ~In(r, "idle") /\ UNCHANGED <<session, grant, asked, history>>
      BY <1>8 DEF OpenAccount, In
  <2>3. Serial => Fits(request[r].copy, grant, history.presented)
      BY <2>2 DEF SerialInv
  <2> QED BY <1>0, <1>c, <2>1, <2>2, <2>3, EmptyFits, SerialContinue DEF Serial
<1>9. ASSUME NEW r \in Requests, Save(r)
      PROVE  SerialInv'
  <2>1. /\ session' = session \/ session'.row = request[r].copy
        /\ ~session'.live => session'.row = Empty
        /\ session' = session /\ session.live /\ request[r].modified
              => session'.row = request[r].copy
      BY <1>0, <1>9 DEF Save, SessionTypeOK, SerialInv
  <2>2. history'.presented = history.presented /\ (Serial' => Serial)
        /\ asked \subseteq asked' /\ grant' = grant /\ ~In(r, "idle")
        /\ request' = [request EXCEPT ![r] = NoRequest]
      BY <1>0, <1>9 DEF Save, SessionTypeOK, Serial, In
  <2> QED BY <1>0, <2>1, <2>2, SerialEnds
<1>10. ASSUME NEW r \in Requests, Break(r)
       PROVE  SerialInv'
  <2>1. history'.breaks = history.breaks + 1 /\ history.breaks \in Nat
      BY <1>0, <1>10, SessionAssumption DEF Break, SessionTypeOK
  <2>2. ~Serial'
      BY <2>1 DEF Serial
  <2> QED BY <1>0, <1>10, <2>2 DEF Break, SerialInv
<1>11. ASSUME NEW r \in Requests, Disconnect(r)
       PROVE  SerialInv'
  <2>1. Load(r, "disconnect", "end", Empty, NoFlow)
      BY <1>11 DEF Disconnect, Disconnected, Clear
  <2> QED BY <1>0, <1>b, <2>1, SerialLoad
<1>12. ASSUME NEW r \in Requests, NEW f \in Flows, ConnectBegin(r, f)
       PROVE  SerialInv'
  <2>1. Load(r, "connect", "metadata", session.row, f) /\ f \notin asked
      BY <1>12 DEF ConnectBegin, Fresh
  <2> QED BY <1>0, <2>1, SerialLoad
<1>13. ASSUME NEW r \in Requests, NEW f \in Flows, CallbackDenied(r, f)
       PROVE  SerialInv'
  <2>1. Load(r, "callback", "end", Empty, f)
      BY <1>13 DEF CallbackDenied, Clear
  <2> QED BY <1>0, <1>b, <2>1, SerialLoad
<1>14. ASSUME NEW r \in Requests, NEW f \in Flows, CallbackBegin(r, f)
       PROVE  SerialInv'
  <2>1. \/ Load(r, "callback", "end", PopFlow(session.row), f)
        \/ Load(r, "callback", "end", Empty, f)
        \/ /\ Load(r, "callback", "exchange", PopFlow(session.row), f)
           /\ session.row.flow = f
           /\ grant[f].code # "none"
      BY <1>14 DEF CallbackBegin, Clear
  <2> QED BY <1>0, <1>b, <2>1, SerialLoad
<1>15. ASSUME NEW f \in Flows, Approve(f)
       PROVE  SerialInv'
  <2>1. /\ UNCHANGED <<session, request, asked, history>>
        /\ f \in asked
        /\ \A g \in Flows : /\ grant'[g].access = grant[g].access
                            /\ grant'[g].refresh = grant[g].refresh
                            /\ g # f => grant'[g] = grant[g]
    <3>1. grant[f] \in Grant /\ grant \in [Flows -> Grant]
        BY <1>0 DEF SessionTypeOK
    <3> QED BY <1>15, <3>1 DEF Approve, Grant
  <2>2. \A s : Fits(s, grant, history.presented) => Fits(s, grant', history'.presented)
      BY <2>1 DEF Fits
  <2> QED BY <1>0, <2>1, <2>2 DEF SerialInv, Serial, In
<1>16. CASE LogOut
  <2>1. session'.row = Empty /\ ~session'.live /\ UNCHANGED <<request, grant, asked, history>>
      BY <1>16 DEF LogOut
  <2>2. Fits(session'.row, grant', history'.presented)
      BY <2>1, EmptyFits
  <2> QED BY <1>0, <2>1, <2>2 DEF SerialInv, Serial, In
<1>17. CASE UNCHANGED sessionVars
    BY <1>0, <1>17 DEF sessionVars, SerialInv, Serial, In
<1> QED BY <1>1, <1>2, <1>3, <1>4, <1>5, <1>6, <1>7, <1>8, <1>9, <1>10, <1>11,
           <1>12, <1>13, <1>14, <1>15, <1>16, <1>17 DEF SessionNext, RequestStep

\* While requests come one after the other and none breaks, the session holds
\* the last token that Stalwart issued, whatever answers were lost, and no
\* authorization code is presented twice (webmail_views._usable_token,
\* webmail_oauth_callback, webmail_auth.pop_oauth_flow).
THEOREM SerialSessionWorks == SessionSpec => []SerialSessionIsLive
<1>1. SessionInit => SerialInv
  <2> SUFFICES ASSUME SessionInit PROVE SerialInv
      OBVIOUS
  <2>1. \A r \in Requests : In(r, "idle") /\ ~In(r, "metadata") /\ ~In(r, "exchange")
      BY DEF SessionInit, NoRequest, In
  <2>2. session.row = Empty /\ session.live
        /\ \A f \in Flows : history.presented[f] = 0 /\ grant[f].code = "none"
      BY DEF SessionInit
  <2> QED BY <2>1, <2>2, SessionInitTypes, EmptyFits DEF SerialInv
<1>2. SerialInv /\ [SessionNext]_sessionVars => SerialInv'
    BY SerialStep
<1>3. SerialInv => SerialSessionIsLive
    BY DEF SerialInv, SerialSessionIsLive, Fits
<1> QED BY <1>1, <1>2, <1>3, PTL DEF SessionSpec
=============================================================================
