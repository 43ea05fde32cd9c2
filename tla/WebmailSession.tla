--------------------------- MODULE WebmailSession ---------------------------
(***************************************************************************)
(* One browser's sign-in to a mailbox (mailforge/webmail_auth.py, the      *)
(* sign-in views of mailforge/webmail_views.py, stalwart/oauth.py).        *)
(*                                                                         *)
(* The OAuth token and the flow that fetches it live in the Django         *)
(* session.  A request works on the copy of the session that it loaded     *)
(* when it began, and the middleware stores the whole copy when the        *)
(* request ends, if it was changed, over whatever was stored meanwhile;    *)
(* it stores nothing after an unhandled exception, nor when a logout has   *)
(* deleted the row.  In between the request waits for Stalwart.            *)
(*                                                                         *)
(* A token is known by the sign-in it comes from and the numbers of its    *)
(* access and refresh tokens; 0 stands for no refresh token.  A flow is    *)
(* known by its state, and its verifier is never another flow's.           *)
(***************************************************************************)
EXTENDS Naturals, FiniteSets

CONSTANTS
    Requests,      \* requests of the browser that may be under way at once
    MaxFlows,      \* BOUND: sign-ins that can be started
    NoFlow,
    NoToken,
    MaxRefreshes,  \* BOUND: refreshes of one sign-in
    MaxBreaks      \* BOUND: requests that end in an unhandled exception

Flows == 1 .. MaxFlows

ASSUME SessionAssumption ==
    /\ MaxFlows \in Nat
    /\ NoFlow \notin Flows
    /\ MaxRefreshes \in Nat
    /\ MaxBreaks \in Nat
    /\ \A f \in Flows, n, k \in 0 .. MaxRefreshes + 1 :
          NoToken # [flow |-> f, access |-> n, refresh |-> k]

VARIABLES
    session,   \* the row of django_session
    request,   \* per request: the view it is in and its copy of the session
    server,    \* how Stalwart issues refresh tokens
    grant,     \* per flow: what Stalwart issued for it
    asked,     \* flows whose authorization page the browser was sent to
    history    \* remembered for the properties

sessionVars ==
    <<session, request, server, grant, asked, history>>

---------------------------------------------------------------------------
(* State. *)

Numbers == 0 .. MaxRefreshes + 1

Token == [flow : Flows, access : Numbers, refresh : Numbers]

\* What a request or the row holds under FLOW_SESSION_KEY, TOKEN_SESSION_KEY.
Stored == [flow : Flows \cup {NoFlow}, token : Token \cup {NoToken}]

Empty == [flow |-> NoFlow, token |-> NoToken]

View == {"open", "connect", "callback", "disconnect"}

Request ==
    [ pc    : {"idle", "metadata", "exchange", "refresh", "account", "end"},
      view  : View,
      copy  : Stored,             \* request.session
      modified : BOOLEAN,         \* request.session.modified
      flow  : Flows \cup {NoFlow} ]  \* the state of connect, callback

NoRequest == [ pc |-> "idle", view |-> "open", copy |-> Empty,
               modified |-> FALSE, flow |-> NoFlow ]

\* What is presented for a refresh is a refresh token, and a request that has
\* ended is forgotten.
RequestOK(q) ==
    /\ q.pc = "refresh" => q.copy.token # NoToken /\ q.copy.token.refresh # 0
    /\ q.pc = "idle" => q = NoRequest
    /\ q.pc \in {"metadata", "exchange"} \/ q.view = "connect"
          => q.flow \in Flows

Grant == [ code : {"none", "given", "spent"}, access : Numbers,
           refresh : Numbers ]

SessionTypeOK ==
    /\ session \in [row : Stored, live : BOOLEAN]
    /\ request \in [Requests -> Request]
    /\ \A r \in Requests : RequestOK(request[r])
    /\ server \in [rotating : BOOLEAN, refreshing : BOOLEAN]
    /\ grant \in [Flows -> Grant]
    /\ \A f \in Flows : grant[f].refresh <= grant[f].access
    /\ asked \subseteq Flows
    /\ history \in [ overlapped : BOOLEAN,   \* two requests were under way
                     breaks : 0 .. MaxBreaks,
                     left : SUBSET Flows,    \* see SignedOutStaysOut
                     presented : [Flows -> 0 .. 2] ]

\* Somebody has just logged into the portal.
SessionInit ==
    /\ session = [row |-> Empty, live |-> TRUE]
    /\ request = [r \in Requests |-> NoRequest]
    /\ server \in [rotating : BOOLEAN, refreshing : BOOLEAN]
    /\ grant = [f \in Flows |->
                   [code |-> "none", access |-> 0, refresh |-> 0]]
    /\ asked = {}
    /\ history = [ overlapped |-> FALSE, breaks |-> 0, left |-> {},
                   presented |-> [f \in Flows |-> 0] ]

In(r, pc) == request[r].pc = pc

Others(r) == {q \in Requests \ {r} : ~In(q, "idle")}

\* clear_oauth_token
Clear(copy) == Empty

---------------------------------------------------------------------------
(* Requests begin and end. *)

\* A request loads the session and goes on at pc with its copy as it left it.
Load(r, view, pc, copy, f) ==
    /\ session.live
    /\ In(r, "idle")
    /\ request' = [request EXCEPT ![r] =
          [ pc |-> pc, view |-> view, copy |-> copy,
            modified |-> copy # session.row, flow |-> f ]]
    /\ history' = [history EXCEPT !.overlapped = @ \/ Others(r) # {}]
    /\ UNCHANGED <<session, server, grant, asked>>

\* The request goes on at pc with a changed copy.
Continue(r, pc, copy) ==
    request' = [request EXCEPT ![r].pc = pc, ![r].copy = copy,
                               ![r].modified = @ \/ copy # request[r].copy]

\* The user has no token any more, and no other request remembers it.
Left(r) ==
    IF request[r].view = "disconnect" /\ Others(r) = {}
    THEN {f \in Flows : grant[f].code = "spent"} ELSE {}

\* SessionMiddleware.process_response; where the row is gone it raises
\* SessionInterrupted.  The answer of webmail_connect sends the browser to
\* Stalwart.
Save(r) ==
    /\ In(r, "end")
    /\ session' = IF session.live /\ request[r].modified
                  THEN [session EXCEPT !.row = request[r].copy] ELSE session
    /\ asked' = IF session.live /\ request[r].view = "connect"
                THEN asked \cup {request[r].flow} ELSE asked
    /\ history' = [history EXCEPT !.left = @ \cup Left(r)]
    /\ request' = [request EXCEPT ![r] = NoRequest]
    /\ UNCHANGED <<server, grant>>

\* An exception that no view handles, or a worker that dies: nothing of the
\* session is stored.
Break(r) ==
    /\ ~In(r, "idle")
    /\ history.breaks < MaxBreaks
    /\ history' = [history EXCEPT !.breaks = @ + 1]
    /\ request' = [request EXCEPT ![r] = NoRequest]
    /\ UNCHANGED <<session, server, grant, asked>>

---------------------------------------------------------------------------
(* _usable_token, which every webmail view calls first.  A request that    *)
(* finds no token, or one that is not due, changes nothing and is no step. *)
(* Any token may be due when the user comes back, but for the last one     *)
(* that the bound allows.                                                  *)

\* Mutant: a token is refreshed although there is no refresh token.
AlwaysRefresh(t) == "refresh"

\* The token expires within the minute: it is refreshed, or dropped if there
\* is no way to.
AfterDue(t) == IF t.refresh = 0 THEN "end" ELSE "refresh"

OpenMail(r) ==
    LET t == session.row.token IN
    /\ t # NoToken
    /\ t.access <= MaxRefreshes
    /\ Load(r, "open", AfterDue(t),
            IF AfterDue(t) = "end" THEN Clear(session.row) ELSE session.row,
            NoFlow)

\* Stalwart accepts the refresh token that it issued last.
Acceptable(t) ==
    /\ t.refresh = grant[t.flow].refresh
    /\ grant[t.flow].access <= MaxRefreshes

NextNumber(f) == grant[f].access + 1

\* The refresh token to be presented from now on.
NextRefresh(f) ==
    IF server.rotating THEN grant[f].refresh + 1 ELSE grant[f].refresh

\* The token endpoint has refreshed t.
Refreshed(t) ==
    grant' = [grant EXCEPT ![t.flow].access = NextNumber(t.flow),
                           ![t.flow].refresh = NextRefresh(t.flow)]

\* Mutant: what the answer does not repeat is forgotten.
ForgetsRefresh(t) ==
    [flow |-> t.flow, access |-> NextNumber(t.flow),
     refresh |-> IF server.rotating THEN NextRefresh(t.flow) ELSE 0]

\* store_oauth_token of the answer, with the old refresh token where the
\* answer has none.
RefreshedToken(t) ==
    [flow |-> t.flow, access |-> NextNumber(t.flow),
     refresh |-> IF server.rotating THEN NextRefresh(t.flow) ELSE t.refresh]

\* The view goes on with the new token: it has only to end, or, in a
\* callback, to open the account.
Refresh(r) ==
    LET t == request[r].copy.token IN
    /\ In(r, "refresh")
    /\ Acceptable(t)
    /\ Refreshed(t)
    /\ Continue(r, IF request[r].view = "callback" THEN "account" ELSE "end",
                [request[r].copy EXCEPT !.token = RefreshedToken(t)])
    /\ UNCHANGED <<session, server, asked, history>>

\* Mutant: a token whose refresh Stalwart refused stays in the session.
KeepsRefused(copy) == copy

AfterRefusal(copy) == Clear(copy)

\* Stalwart refuses or does not answer; or it has done it, and the answer is
\* lost.
RefreshFails(r) ==
    LET copy == request[r].copy IN
    /\ In(r, "refresh")
    /\ \/ UNCHANGED grant /\ Continue(r, "end", AfterRefusal(copy))
       \/ /\ Acceptable(copy.token)
          /\ Refreshed(copy.token)
          /\ Continue(r, "end", Clear(copy))
    /\ UNCHANGED <<session, server, asked, history>>

---------------------------------------------------------------------------
(* webmail_connect *)

\* A state is never drawn twice.
Fresh(f) ==
    /\ f \notin asked
    /\ session.row.flow # f
    /\ \A r \in Requests : request[r].flow # f /\ request[r].copy.flow # f

\* The authorization endpoint is looked up first.
ConnectBegin(r, f) ==
    /\ Fresh(f)
    /\ \A g \in Flows : Fresh(g) => f <= g
    /\ Load(r, "connect", "metadata", session.row, f)

\* store_oauth_flow
ConnectStore(r) ==
    /\ In(r, "metadata")
    /\ Continue(r, "end", [request[r].copy EXCEPT !.flow = request[r].flow])
    /\ UNCHANGED <<session, server, grant, asked, history>>

\* Stalwart's OAuth is not configured or does not answer.
ConnectFails(r) ==
    /\ In(r, "metadata")
    /\ request' = [request EXCEPT ![r] = NoRequest]
    /\ UNCHANGED <<session, server, grant, asked, history>>

---------------------------------------------------------------------------
(* webmail_oauth_callback *)

\* The user denied the authorization, and Stalwart says so.
CallbackDenied(r, f) ==
    /\ f \in asked
    /\ Clear(session.row) # session.row
    /\ Load(r, "callback", "end", Clear(session.row), f)

\* Mutant: the flow is only looked at.
PeekFlow(copy) == copy

\* pop_oauth_flow
PopFlow(copy) == [copy EXCEPT !.flow = NoFlow]

\* The browser is sent back with the code of f, maybe not for the first
\* time.  A flow of more than ten minutes is dropped; another one's state
\* clears all.
CallbackBegin(r, f) ==
    LET row == session.row IN
    /\ grant[f].code # "none"
    /\ row.flow # NoFlow
    /\ \/ Load(r, "callback", "end", PopFlow(row), f)
       \/ row.flow # f /\ Load(r, "callback", "end", Clear(row), f)
       \/ row.flow = f /\ Load(r, "callback", "exchange", PopFlow(row), f)

FirstToken(f) ==
    [flow |-> f, access |-> 1, refresh |-> IF server.refreshing THEN 1 ELSE 0]

Presented(f) ==
    [history EXCEPT !.presented[f] = IF @ < 2 THEN @ + 1 ELSE 2]

\* The token endpoint has exchanged the code of f, which works once.
Exchanged(f) ==
    /\ grant[f].code = "given"
    /\ grant' = [grant EXCEPT ![f] =
          [code |-> "spent", access |-> 1, refresh |-> FirstToken(f).refresh]]

\* The token is stored, and used at once to open the account; one that
\* expires within the minute is refreshed before that.
Exchange(r) ==
    LET f == request[r].flow
        t == FirstToken(f) IN
    /\ In(r, "exchange")
    /\ Exchanged(f)
    /\ \/ Continue(r, "account", [request[r].copy EXCEPT !.token = t])
       \/ Continue(r, AfterDue(t),
                   IF AfterDue(t) = "end" THEN Clear(request[r].copy)
                   ELSE [request[r].copy EXCEPT !.token = t])
    /\ history' = Presented(f)
    /\ UNCHANGED <<session, server, asked>>

\* The code is refused, or its answer does not come.
ExchangeFails(r) ==
    /\ In(r, "exchange")
    /\ \/ UNCHANGED grant
       \/ Exchanged(request[r].flow)
    /\ Continue(r, "end", Clear(request[r].copy))
    /\ history' = Presented(request[r].flow)
    /\ UNCHANGED <<session, server, asked>>

\* _account_context
OpenAccount(r) ==
    /\ In(r, "account")
    /\ \/ Continue(r, "end", request[r].copy)
       \/ Continue(r, "end", Clear(request[r].copy))
    /\ UNCHANGED <<session, server, grant, asked, history>>

---------------------------------------------------------------------------
(* webmail_disconnect, logging out *)

\* Mutant: only a sign-in under way is given up.
KeepsToken(copy) == PopFlow(copy)

Disconnected(copy) == Clear(copy)

Disconnect(r) ==
    /\ session.row # Empty
    /\ Load(r, "disconnect", "end", Disconnected(session.row), NoFlow)

\* LogoutView flushes the session: its row is deleted.
LogOut ==
    /\ session.live
    /\ session' = [row |-> Empty, live |-> FALSE]
    /\ UNCHANGED <<request, server, grant, asked, history>>

---------------------------------------------------------------------------
(* The user at Stalwart. *)

Approve(f) ==
    /\ session.live
    /\ f \in asked
    /\ grant[f].code = "none"
    /\ grant' = [grant EXCEPT ![f].code = "given"]
    /\ UNCHANGED <<session, request, server, asked, history>>

RequestStep(r) ==
    \/ Refresh(r) \/ RefreshFails(r) \/ ConnectStore(r) \/ ConnectFails(r)
    \/ Exchange(r) \/ ExchangeFails(r) \/ OpenAccount(r) \/ Save(r)

SessionNext ==
    \/ \E r \in Requests :
          \/ RequestStep(r) \/ Break(r) \/ OpenMail(r) \/ Disconnect(r)
          \/ \E f \in Flows : \/ ConnectBegin(r, f)
                              \/ CallbackBegin(r, f) \/ CallbackDenied(r, f)
    \/ \E f \in Flows : Approve(f)
    \/ LogOut

SessionSpec == SessionInit /\ [][SessionNext]_sessionVars

---------------------------------------------------------------------------
(* Safety. *)

Holds(stored, f) == stored.token # NoToken /\ stored.token.flow = f

\* A mailbox that was disconnected while no other request was under way is
\* never connected again by that sign-in: no later request finds its token,
\* and its authorization code or its flow are of no more use
\* (webmail_views.webmail_disconnect, webmail_auth.clear_oauth_token).
SignedOutStaysOut ==
    \A f \in history.left :
        /\ ~Holds(session.row, f)
        /\ \A r \in Requests : ~Holds(request[r].copy, f)

Serial == ~history.overlapped /\ history.breaks = 0

\* As long as requests come one after the other and none breaks, what the
\* session holds between them is the last token that Stalwart issued, with
\* the refresh token that it accepts next, and no authorization code is
\* presented twice: lost answers, refused refreshes and several sign-ins
\* never leave a token behind that cannot be renewed
\* (webmail_views._usable_token, webmail_oauth_callback).
SerialSessionIsLive ==
    Serial =>
        /\ \A f \in Flows : history.presented[f] <= 1
        /\ \A f \in Flows :
              (/\ Holds(session.row, f)
               /\ \A r \in Requests : In(r, "idle"))
              => /\ session.row.token.access = grant[f].access
                 /\ session.row.token.refresh = grant[f].refresh

---------------------------------------------------------------------------
(* Progress. *)

\* A request that is under way goes on, and the user comes back to a mailbox
\* whose token is due.
SessionFairness ==
    /\ \A r \in Requests : WF_sessionVars(RequestStep(r))
    /\ SF_sessionVars(\E r \in Requests : OpenMail(r))

FairSessionSpec == SessionSpec /\ SessionFairness

\* The session holds a token that Stalwart will not renew.
Dead ==
    /\ session.row.token # NoToken
    /\ session.row.token.refresh # grant[session.row.token.flow].refresh

\* No session is stuck with a dead token, however it came to hold it (two
\* refreshes at once, a request that broke after its refresh, an older copy
\* stored over a newer one): a user who comes back gets rid of it and is
\* asked to sign in (webmail_views._usable_token).
SessionHeals == Dead ~> ~Dead
=============================================================================
