---------------------------- MODULE WebmailProofs ----------------------------
(***************************************************************************)
(* Proofs about Webmail, for any requests, folders, number of messages and *)
(* of texts, whatever the user asks for.                                   *)
(***************************************************************************)
EXTENDS Webmail, TLAPS

Where == {"idle", "destroy", "create", "write", "verify", "submit", "answer"}

---------------------------------------------------------------------------
(* Types. *)

LEMMA NoTaskTyped == NoTask \in Task /\ TaskOK(NoTask)
    BY AccountAssumption DEF NoTask, Task, TaskOK, Handler, Texts, NoMessage, Messages

LEMMA MessagesAreSome == NoMessage \notin Messages
    BY DEF NoMessage, Messages

LEMMA DraftTyped ==
    ASSUME NEW t \in Texts
    PROVE  DraftOf(t) \in Email
    BY AccountAssumption DEF DraftOf, Email, Keywords

\* The calls of mail_jmap.py, made for a message of the account.
LEMMA CallsTyped ==
    ASSUME AccountTypeOK, NEW m \in Messages
    PROVE  /\ \A t \in Texts : PutDraft(m, t) => email' \in [Messages -> Email]
           /\ \A k \in Keywords : SetKeyword(m, k) => email' \in [Messages -> Email]
           /\ \A folder \in Folders : MoveTo(m, folder) => email' \in [Messages -> Email]
           /\ Destroyed(m) => email' \in [Messages -> Email]
           /\ \A in \in SUBSET Folders : Submitted(m, in) =>
                 email' \in [Messages -> Email] /\ outbox' \in [Messages -> 0 .. 2]
<1>1. email[m] \in Email /\ email \in [Messages -> Email]
    BY DEF AccountTypeOK
<1>2. ASSUME NEW t \in Texts, PutDraft(m, t)
      PROVE  email' \in [Messages -> Email]
    BY <1>1, <1>2, DraftTyped DEF PutDraft
<1>3. ASSUME NEW k \in Keywords, SetKeyword(m, k)
      PROVE  email' \in [Messages -> Email]
  <2>1. [email[m] EXCEPT !.keywords = @ \cup {k}] \in Email
      BY <1>1 DEF Email
  <2> QED BY <1>1, <1>3, <2>1 DEF SetKeyword
<1>4. ASSUME NEW folder \in Folders, MoveTo(m, folder)
      PROVE  email' \in [Messages -> Email]
  <2>1. [email[m] EXCEPT !.in = {folder}] \in Email
      BY <1>1 DEF Email
  <2> QED BY <1>1, <1>4, <2>1 DEF MoveTo
<1>5. ASSUME Destroyed(m)
      PROVE  email' \in [Messages -> Email]
  <2>1. [Unused EXCEPT !.state = "destroyed"] \in Email
      BY AccountAssumption DEF Unused, Email, Texts
  <2> QED BY <1>1, <1>5, <2>1 DEF Destroyed
<1>6. ASSUME NEW in \in SUBSET Folders, Submitted(m, in)
      PROVE  email' \in [Messages -> Email] /\ outbox' \in [Messages -> 0 .. 2]
  <2>1. [email[m] EXCEPT !.in = in, !.keywords = @ \ {"$draft"}] \in Email
      BY <1>1 DEF Email
  <2>2. email' = [email EXCEPT ![m] = [email[m] EXCEPT !.in = in, !.keywords = @ \ {"$draft"}]]
      BY <1>6 DEF Submitted
  <2>3. outbox' \in [Messages -> 0 .. 2]
      BY <1>6 DEF Submitted, AccountTypeOK
  <2> QED BY <1>1, <2>1, <2>2, <2>3
<1> QED BY <1>2, <1>3, <1>4, <1>5, <1>6

\* What is remembered.
LEMMA HistoryTyped ==
    ASSUME AccountTypeOK, NEW r \in Requests
    PROVE  LET H == [ stale : SUBSET Requests, raced : SUBSET Messages,
                      replied : SUBSET Messages ]
           IN  /\ Looked(r) => history' \in H
               /\ \A m \in Messages : Changed(r, m) => history' \in H
               /\ \A m \in Messages : Replied(r, m) \in H
<1> DEFINE H == [ stale : SUBSET Requests, raced : SUBSET Messages,
                  replied : SUBSET Messages ]
<1>1. history \in H
    BY DEF AccountTypeOK
<1>2. Looked(r) => history' \in H
    BY <1>1 DEF Looked
<1>3. ASSUME NEW m \in Messages
      PROVE  Outdated(r, m) \subseteq Requests
    BY DEF Outdated
<1>4. ASSUME NEW m \in Messages, Changed(r, m)
      PROVE  history' \in H
    BY <1>1, <1>3, <1>4 DEF Changed
<1>5. ASSUME NEW m \in Messages
      PROVE  Replied(r, m) \in H
  <2>1. task[r].source \in Messages \cup {NoMessage}
      BY DEF AccountTypeOK, Task
  <2> QED BY <1>1, <1>3, <2>1 DEF Replied
<1> QED BY <1>2, <1>4, <1>5

TasksOK == task \in [Requests -> Task] /\ \A r \in Requests : TaskOK(task[r])

\* The steps of a request.
LEMMA TasksTyped ==
    ASSUME AccountTypeOK, NEW r \in Requests
    PROVE  /\ End(r) => TasksOK'
           /\ \A t \in Task : task' = [task EXCEPT ![r] = t] /\ TaskOK(t) => TasksOK'
    BY NoTaskTyped DEF AccountTypeOK, TasksOK, End

LEMMA GotoTyped ==
    ASSUME AccountTypeOK, NEW r \in Requests, NEW pc \in Where, NEW m \in Messages \cup {NoMessage},
           task' = [task EXCEPT ![r].pc = pc, ![r].msg = m],
           TaskOK([task[r] EXCEPT !.pc = pc, !.msg = m])
    PROVE  TasksOK'
<1>1. task[r] \in Task
    BY DEF AccountTypeOK
<1> DEFINE t == [task[r] EXCEPT !.pc = pc, !.msg = m]
<1>2. t \in Task
    BY <1>1 DEF Task, Where
<1>3. task' = [task EXCEPT ![r] = t]
    OBVIOUS
<1>4. TaskOK(t)
    OBVIOUS
<1> HIDE DEF t
<1> QED BY <1>2, <1>3, <1>4, TasksTyped

LEMMA BeginTyped ==
    ASSUME AccountTypeOK, NEW r \in Requests, NEW pc \in Where,
           NEW asked \in Handler, NEW m \in Messages \cup {NoMessage},
           NEW source \in Messages \cup {NoMessage}, NEW text \in Texts,
           Begin(r, pc, asked, m, source, text),
           pc # "idle",
           pc = "destroy" => m # NoMessage,
           pc \in {"destroy", "write"} \/ (asked = "compose" /\ pc = "create")
    PROVE  AccountTypeOK'
<1> DEFINE t == [ pc |-> pc, asked |-> asked, msg |-> m, source |-> source,
                  text |-> text ]
<1>1. t \in Task /\ TaskOK(t)
    BY DEF Task, TaskOK, Where
<1>2. TasksOK'
    BY <1>1, TasksTyped DEF Begin
<1> QED BY <1>2 DEF Begin, AccountTypeOK, TasksOK

LEMMA GiveUpTyped ==
    ASSUME AccountTypeOK, NEW r \in Requests, GiveUp(r)
    PROVE  AccountTypeOK'
    BY TasksTyped, HistoryTyped DEF GiveUp, AccountTypeOK, TasksOK

\* What follows a submission.
LEMMA MarkTyped ==
    ASSUME AccountTypeOK, NEW r \in Requests, At(r, "submit"),
           task[r].source # NoMessage, Goto(r, "answer")
    PROVE  TasksOK'
<1>1. task[r] \in Task /\ TaskOK(task[r])
    BY DEF AccountTypeOK
<1> DEFINE t == [task[r] EXCEPT !.pc = "answer"]
<1>2. t \in Task /\ TaskOK(t)
    BY <1>1 DEF Task, TaskOK, At
<1>3. task' = [task EXCEPT ![r] = t]
    BY DEF Goto
<1> HIDE DEF t
<1> QED BY <1>2, <1>3, TasksTyped

LEMMA MarkedTyped ==
    ASSUME AccountTypeOK, NEW r \in Requests, MarkAnswered(r)
    PROVE  AccountTypeOK'
<1> DEFINE s == task[r].source
<1>1. s \in Messages
    BY DEF AccountTypeOK, MarkAnswered, MayMark, At, TaskOK, Task
<1>2. SetKeyword(s, "$answered") /\ Changed(r, s) /\ End(r) /\ UNCHANGED <<outbox, ready>>
    BY DEF MarkAnswered
<1> HIDE DEF s
<1>3. email' \in [Messages -> Email] /\ TasksOK'
    BY <1>1, <1>2, CallsTyped, TasksTyped DEF Keywords
<1> QED BY <1>1, <1>2, <1>3, HistoryTyped DEF AccountTypeOK, TasksOK

\* Handlers of message_actions.py and webmail_compose.
LEMMA MessageTypes ==
    ASSUME AccountTypeOK, NEW r \in Requests, MessageNext(r)
    PROVE  AccountTypeOK'
<1>0. /\ task[r] \in Task /\ TaskOK(task[r])
      /\ email \in [Messages -> Email]
    BY DEF AccountTypeOK
<1>1. CASE DestroyMessage(r)
  <2> DEFINE m == task[r].msg
  <2>1. m \in Messages
      BY <1>0, <1>1 DEF DestroyMessage, At, TaskOK, Task
  <2>2. CASE GiveUp(r)
      BY <2>2, GiveUpTyped
  <2>3. CASE Destroyed(m) /\ Changed(r, m) /\ End(r) /\ UNCHANGED <<outbox, ready>>
    <3>1. email' \in [Messages -> Email] /\ TasksOK'
        BY <2>1, <2>3, CallsTyped, TasksTyped
    <3> QED BY <2>1, <2>3, <3>1, HistoryTyped DEF AccountTypeOK, TasksOK
  <2> QED BY <1>1, <2>2, <2>3 DEF DestroyMessage
<1>2. CASE ComposeFails(r)
    BY <1>2, GiveUpTyped DEF ComposeFails
<1>3. CASE ComposeCreate(r)
  <2>1. PICK m \in Messages :
           /\ PutDraft(m, 0)
           /\ \/ task' = [task EXCEPT ![r].pc = "submit", ![r].msg = m]
              \/ End(r)
      BY <1>3 DEF ComposeCreate
  <2>2. email' \in [Messages -> Email]
      BY <2>1, CallsTyped, AccountAssumption DEF Texts
  <2>3. TaskOK([task[r] EXCEPT !.pc = "submit", !.msg = m])
      BY <1>0, <1>3, MessagesAreSome DEF TaskOK, Task, ComposeCreate, At
  <2>4. TasksOK'
      BY <2>1, <2>3, TasksTyped, GotoTyped DEF Where
  <2> QED BY <1>3, <2>2, <2>4 DEF ComposeCreate, AccountTypeOK, TasksOK
<1>4. CASE ComposeSubmit(r)
  <2> DEFINE m == task[r].msg
             in == (email[m].in \ {"drafts"}) \cup {"sent"}
  <2>1. m \in Messages
      BY <1>0, <1>4 DEF ComposeSubmit, At, TaskOK, Task
  <2>2. in \in SUBSET Folders
      BY <1>0, <2>1, AccountAssumption DEF Email
  <2>3. Submitted(m, in) /\ history' = Replied(r, m) /\ ready' = ready
      BY <1>4 DEF ComposeSubmit
  <2>4. email' \in [Messages -> Email] /\ outbox' \in [Messages -> 0 .. 2]
      BY <2>1, <2>2, <2>3, CallsTyped
  <2>5. TasksOK'
      BY <1>4, <2>1, MarkTyped, TasksTyped DEF ComposeSubmit
  <2> QED BY <2>1, <2>3, <2>4, <2>5, HistoryTyped DEF AccountTypeOK, TasksOK
<1>5. CASE SetAnswered(r)
    BY <1>5, MarkedTyped DEF SetAnswered
<1>6. ASSUME NEW m \in Messages \cup {NoMessage}, ComposeBegin(r, m)
      PROVE  AccountTypeOK'
    BY <1>6, BeginTyped, AccountAssumption DEF ComposeBegin, Handler, Where, Texts
<1>7. ASSUME NEW m \in Messages, SpamMessage(r, m) \/ \E folder \in Folders : MoveMessage(r, m, folder)
      PROVE  AccountTypeOK'
  <2>1. PICK folder \in Folders : MoveTo(m, folder)
      BY <1>7 DEF SpamMessage, MoveMessage
  <2>2. Changed(r, m) /\ UNCHANGED <<outbox, ready, task>>
      BY <1>7 DEF SpamMessage, MoveMessage, AtOnce
  <2>3. email' \in [Messages -> Email]
      BY <2>1, CallsTyped
  <2> QED BY <2>2, <2>3, HistoryTyped DEF AccountTypeOK
<1>8. ASSUME NEW m \in Messages, DeleteBegin(r, m)
      PROVE  AccountTypeOK'
  <2>1. Begin(r, "destroy", "delete", m, NoMessage, 0) /\ m # NoMessage
      BY <1>8, MessagesAreSome DEF DeleteBegin
  <2>2. "destroy" \in Where /\ "delete" \in Handler /\ 0 \in Texts
      BY AccountAssumption DEF Where, Handler, Texts
  <2> QED BY <2>1, <2>2, BeginTyped
<1> QED BY <1>1, <1>2, <1>3, <1>4, <1>5, <1>6, <1>7, <1>8 DEF MessageNext

\* The page and the background save (drafts.js): only an open page waits for
\* a background save, and only a posted one for the answer to a post.
PageOK ==
    /\ editor \in Editor
    /\ fetch \in Fetch
    /\ editor.page = "open" => (editor.saving <=> fetch.live) /\ editor.waits = {}
    /\ editor.page # "open" => ~fetch.live

LEMMA PageTyped ==
    ASSUME NEW text \in Texts, NEW id \in Messages \cup {NoMessage}
    PROVE  Page(text, id) \in Editor
    BY DEF Page, Editor

LEMMA LeftPageTyped == LeftPage \in Editor
<1>1. Page(0, NoMessage) \in Editor
    BY PageTyped, AccountAssumption DEF Texts
<1> QED BY <1>1 DEF LeftPage, Editor

LEMMA NoFetchTyped == NoFetch \in Fetch
    BY AccountAssumption DEF Fetch, NoFetch, Texts

LEMMA AbandonedTyped ==
    ASSUME fetch \in Fetch
    PROVE  Abandoned \in Fetch /\ ~Abandoned.live
<1>1. CASE fetch.at \in {"sent", "handled"}
    BY <1>1 DEF Abandoned, Fetch
<1>2. CASE fetch.at \notin {"sent", "handled"}
    BY <1>2, NoFetchTyped DEF Abandoned, NoFetch
<1> QED BY <1>1, <1>2

\* The form is shown again, or the user has left.
LEMMA ShownTyped ==
    ASSUME PageOK, AccountTypeOK, NEW r \in Requests, fetch' = fetch,
           \/ \E id \in Messages \cup {NoMessage} : Again(r, id)
           \/ Again(r, editor.id)
           \/ Leave(r)
           \/ editor' = editor
    PROVE  PageOK'
<1>0. editor.id \in Messages \cup {NoMessage} /\ editor.text \in Texts
    BY DEF PageOK, Editor
<1>1. CASE editor' = editor
    BY <1>1 DEF PageOK
<1>2. CASE r \in editor.waits /\ \E id \in Messages \cup {NoMessage} : editor' = Page(editor.text, id)
  <2>1. editor' \in Editor /\ editor'.saving = FALSE /\ editor'.waits = {} /\ editor'.page = "open"
      BY <1>0, <1>2, PageTyped DEF Page
  <2>2. ~fetch.live
      BY <1>2 DEF PageOK, Editor
  <2> QED BY <2>1, <2>2 DEF PageOK
<1>3. CASE r \in editor.waits /\ editor' = LeftPage
  <2>1. editor' \in Editor /\ editor'.page = "left"
      BY <1>3, LeftPageTyped DEF LeftPage, Page
  <2>2. ~fetch.live
      BY <1>3 DEF PageOK, Editor
  <2> QED BY <2>1, <2>2 DEF PageOK
<1> QED BY <1>0, <1>1, <1>2, <1>3 DEF Again, Leave

\* The handlers of a background save change its state and nothing else.
LEMMA FetchTyped ==
    ASSUME PageOK, editor' = editor, fetch' \in Fetch, fetch'.live = fetch.live
    PROVE  PageOK'
    BY DEF PageOK

\* save_draft writes a message of the account.
LEMMA WritesTyped ==
    ASSUME AccountTypeOK, NEW r \in Requests, NEW m \in Messages, Writes(r, m), TasksOK'
    PROVE  AccountTypeOK'
<1>1. task[r].text \in Texts
    BY DEF AccountTypeOK, Task
<1>2. email' \in [Messages -> Email]
    BY <1>1, CallsTyped DEF Writes
<1> QED BY <1>2, HistoryTyped DEF Writes, AccountTypeOK, TasksOK

\* The page is posted.
LEMMA PostedTyped ==
    ASSUME AccountTypeOK, PageOK, NEW r \in Requests, NEW asked \in {"save", "send"},
           NEW source \in Messages \cup {NoMessage}, Posted(r, asked, source)
    PROVE  AccountTypeOK' /\ PageOK'
<1>1. editor.id \in Messages \cup {NoMessage} /\ editor.text \in Texts
    BY DEF PageOK, Editor
<1>2. Begin(r, "write", asked, editor.id, source, editor.text)
    BY DEF Posted
<1>3. AccountTypeOK'
    BY <1>1, <1>2, BeginTyped DEF Handler, Where
<1>4. fetch' \in Fetch /\ ~fetch'.live
    BY AbandonedTyped DEF Posted, PageOK
<1>5. editor' \in Editor /\ editor'.page = "posted"
    BY DEF Posted, PageOK, Editor
<1> QED BY <1>3, <1>4, <1>5 DEF PageOK

\* Every step of the page and of the handlers of drafts keeps the types.
LEMMA DraftTypes ==
    ASSUME AccountTypeOK, PageOK, DraftNext
    PROVE  AccountTypeOK' /\ PageOK'
<1>0. /\ editor \in Editor
      /\ fetch \in Fetch
      /\ \A r \in Requests : task[r] \in Task /\ TaskOK(task[r])
    BY DEF AccountTypeOK, PageOK
<1>1. ASSUME UNCHANGED mailVars
      PROVE  AccountTypeOK'
    BY <1>1 DEF mailVars, AccountTypeOK
<1>2. CASE Edit
  <2>1. editor' \in Editor /\ editor'.page = editor.page
        /\ editor'.saving = editor.saving /\ editor'.waits = editor.waits
    <3>1. PICK text \in Texts :
             editor' = [editor EXCEPT !.text = text, !.dirty = TRUE, !.timer = TRUE]
        BY <1>2 DEF Edit
    <3> QED BY <1>0, <3>1 DEF Editor
  <2> QED BY <1>1, <1>2, <2>1 DEF Edit, PageOK
<1>3. CASE TimerFires
  <2>1. CASE editor' = [editor EXCEPT !.timer = FALSE] /\ fetch' = fetch
      BY <1>0, <1>1, <1>3, <2>1 DEF TimerFires, PageOK, Editor
  <2>2. CASE /\ editor' = [editor EXCEPT !.timer = FALSE, !.saving = TRUE]
             /\ fetch' = [at |-> "sent", id |-> editor.id, text |-> editor.text,
                          live |-> TRUE]
    <3>1. fetch' \in Fetch /\ fetch'.live
        BY <1>0, <2>2 DEF Fetch, Editor
    <3>2. editor' \in Editor /\ editor'.page = "open" /\ editor'.saving /\ editor'.waits = {}
        BY <1>0, <1>3, <2>2 DEF Editor, TimerFires, PageOK
    <3> QED BY <1>1, <1>3, <3>1, <3>2 DEF TimerFires, PageOK
  <2> QED BY <1>3, <2>1, <2>2 DEF TimerFires
<1>4. CASE FetchReturns
  <2>1. fetch' = NoFetch /\ ~NoFetch.live
      BY <1>4 DEF FetchReturns, NoFetch
  <2>2. CASE fetch.live
    <3>1. editor' \in {AfterSave(editor), AfterFailure(editor)}
        BY <1>4, <2>2 DEF FetchReturns
    <3>2. editor' \in Editor /\ ~editor'.saving
          /\ editor'.page = editor.page /\ editor'.waits = editor.waits
        BY <1>0, <3>1 DEF AfterSave, AfterFailure, Editor, Fetch
    <3> QED BY <1>1, <1>4, <2>1, <3>2, NoFetchTyped DEF FetchReturns, PageOK
  <2>3. CASE ~fetch.live
      BY <1>1, <1>4, <2>1, <2>3, NoFetchTyped DEF FetchReturns, PageOK
  <2> QED BY <2>2, <2>3
<1>5. CASE AutosaveRefused
  <2>1. fetch' \in Fetch /\ fetch'.live = fetch.live
      BY <1>0, <1>5 DEF AutosaveRefused, Fetch
  <2> QED BY <1>1, <1>5, <2>1, FetchTyped DEF AutosaveRefused
<1>6. CASE PostRefused
  <2>1. fetch' \in Fetch /\ ~fetch'.live
      BY <1>0, <1>6, AbandonedTyped DEF PostRefused
  <2>2. editor' \in Editor /\ editor'.page = "left"
      BY <1>6, LeftPageTyped DEF PostRefused, LeftPage, Page
  <2> QED BY <1>1, <1>6, <2>1, <2>2 DEF PostRefused, PageOK
<1>7. ASSUME NEW m \in Messages, EditDraft(m)
      PROVE  AccountTypeOK' /\ PageOK'
  <2>1. fetch' \in Fetch /\ ~fetch'.live
      BY <1>0, <1>7, AbandonedTyped DEF EditDraft
  <2>2. email[m].text \in Texts
      BY DEF AccountTypeOK, Email
  <2>3. editor' \in Editor /\ ~editor'.saving /\ editor'.waits = {} /\ editor'.page = "open"
      BY <1>7, <2>2, PageTyped DEF EditDraft, Page
  <2> QED BY <1>1, <1>7, <2>1, <2>3 DEF EditDraft, PageOK
<1>8. ASSUME NEW r \in Requests, AutosaveBegin(r)
      PROVE  AccountTypeOK' /\ PageOK'
  <2>1. fetch' \in Fetch /\ fetch'.live = fetch.live /\ editor' = editor
      BY <1>0, <1>8 DEF AutosaveBegin, Fetch
  <2>2. fetch.id \in Messages \cup {NoMessage} /\ fetch.text \in Texts
      BY <1>0 DEF Fetch
  <2>3. AccountTypeOK'
      BY <1>8, <2>2, BeginTyped DEF AutosaveBegin, Handler, Where
  <2> QED BY <2>1, <2>3, FetchTyped
<1>9. ASSUME NEW r \in Requests, AutosaveFails(r)
      PROVE  AccountTypeOK' /\ PageOK'
  <2>1. fetch' \in Fetch /\ fetch'.live = fetch.live /\ editor' = editor
      BY <1>0, <1>9 DEF AutosaveFails, Fetch
  <2> QED BY <1>9, <2>1, FetchTyped, GiveUpTyped DEF AutosaveFails
<1>10. ASSUME NEW r \in Requests, PostSave(r)
       PROVE  AccountTypeOK' /\ PageOK'
    BY <1>10, PostedTyped DEF PostSave
<1>11. ASSUME NEW r \in Requests, PostFails(r)
       PROVE  AccountTypeOK' /\ PageOK'
    BY <1>11, ShownTyped, GiveUpTyped DEF PostFails
<1>12. ASSUME NEW r \in Requests, SendVerify(r)
       PROVE  AccountTypeOK' /\ PageOK'
  <2> DEFINE t == [task[r] EXCEPT !.pc = "submit"]
  <2>1. t \in Task /\ TaskOK(t) /\ task' = [task EXCEPT ![r] = t]
    <3>1. task[r].asked \in {"compose", "send"}
        BY <1>0, <1>12 DEF SendVerify, At, TaskOK
    <3> QED BY <1>0, <1>12, <3>1 DEF SendVerify, At, Task, TaskOK, Goto
  <2> HIDE DEF t
  <2>2. TasksOK' /\ history' \in [ stale : SUBSET Requests, raced : SUBSET Messages,
                                   replied : SUBSET Messages ]
      BY <1>12, <2>1, TasksTyped, HistoryTyped DEF SendVerify
  <2> QED BY <1>12, <2>2 DEF SendVerify, AccountTypeOK, PageOK, TasksOK
<1>13. ASSUME NEW r \in Requests, SendSubmit(r)
       PROVE  AccountTypeOK' /\ PageOK'
  <2> DEFINE m == task[r].msg
             in == email[m].in \cup {"sent"}
  <2>1. m \in Messages /\ At(r, "submit")
      BY <1>0, <1>13 DEF SendSubmit, At, TaskOK, Task
  <2>2. in \in SUBSET Folders
      BY <2>1, AccountAssumption DEF Email, AccountTypeOK
  <2>3. Submitted(m, in) /\ history' = Replied(r, m) /\ ready' = ready /\ fetch' = fetch
      BY <1>13 DEF SendSubmit
  <2>4. email' \in [Messages -> Email] /\ outbox' \in [Messages -> 0 .. 2]
      BY <2>1, <2>2, <2>3, CallsTyped
  <2>5. TasksOK'
      BY <1>13, <2>1, MarkTyped, TasksTyped DEF SendSubmit
  <2>6. AccountTypeOK'
      BY <2>1, <2>3, <2>4, <2>5, HistoryTyped DEF AccountTypeOK, TasksOK
  <2> QED BY <1>13, <2>3, <2>6, ShownTyped DEF SendSubmit
<1>14. ASSUME NEW r \in Requests, SendMarked(r)
       PROVE  AccountTypeOK' /\ PageOK'
    BY <1>14, MarkedTyped, ShownTyped DEF SendMarked
<1>15. ASSUME NEW r \in Requests, NEW m \in Messages, AutosaveWrite(r, m)
       PROVE  AccountTypeOK' /\ PageOK'
  <2>1. fetch' \in Fetch /\ fetch'.live = fetch.live /\ editor' = editor
      BY <1>0, <1>15 DEF AutosaveWrite, Fetch
  <2>2. TasksOK'
      BY <1>15, TasksTyped DEF AutosaveWrite
  <2> QED BY <1>15, <2>1, <2>2, FetchTyped, WritesTyped DEF AutosaveWrite
<1>16. ASSUME NEW r \in Requests, NEW m \in Messages, SaveWrite(r, m)
       PROVE  AccountTypeOK' /\ PageOK'
  <2>1. TasksOK'
      BY <1>16, TasksTyped DEF SaveWrite
  <2> QED BY <1>16, <2>1, ShownTyped, WritesTyped DEF SaveWrite
<1>17. ASSUME NEW r \in Requests, NEW m \in Messages, SendWrite(r, m)
       PROVE  AccountTypeOK' /\ PageOK'
  <2>1. TaskOK([task[r] EXCEPT !.pc = "verify", !.msg = m])
    <3>1. task[r].asked = "send" /\ m # NoMessage
        BY <1>17, MessagesAreSome DEF SendWrite
    <3> QED BY <1>0, <3>1 DEF TaskOK, Task
  <2>2. TasksOK'
      BY <1>17, <2>1, TasksTyped, GotoTyped DEF SendWrite, Where
  <2> QED BY <1>17, <2>2, ShownTyped, WritesTyped DEF SendWrite
<1>18. ASSUME NEW r \in Requests, NEW m \in Messages, DiscardBegin(r, m)
       PROVE  AccountTypeOK' /\ PageOK'
  <2>1. Begin(r, "destroy", "discard", m, NoMessage, 0) /\ m # NoMessage
      BY <1>18, MessagesAreSome DEF DiscardBegin
  <2>2. "destroy" \in Where /\ "discard" \in Handler /\ 0 \in Texts
      BY AccountAssumption DEF Where, Handler, Texts
  <2> QED BY <1>18, <2>1, <2>2, BeginTyped DEF DiscardBegin, PageOK
<1>19. ASSUME NEW r \in Requests, NEW source \in Messages \cup {NoMessage}, PostSend(r, source)
       PROVE  AccountTypeOK' /\ PageOK'
    BY <1>19, PostedTyped DEF PostSend
<1> QED BY <1>2, <1>3, <1>4, <1>5, <1>6, <1>7, <1>8, <1>9, <1>10, <1>11, <1>12, <1>13,
           <1>14, <1>15, <1>16, <1>17, <1>18, <1>19 DEF DraftNext

LEMMA WebmailTypes ==
    AccountTypeOK /\ PageOK /\ [WebmailNext]_draftVars => AccountTypeOK' /\ PageOK'
<1> SUFFICES ASSUME AccountTypeOK, PageOK, [WebmailNext]_draftVars
             PROVE  AccountTypeOK' /\ PageOK'
    OBVIOUS
<1>1. CASE DraftNext
    BY <1>1, DraftTypes
<1>2. CASE MailStep
  <2>1. PageOK'
      BY <1>2 DEF MailStep, PageOK
  <2>2. ASSUME PolicyChanges PROVE AccountTypeOK'
      BY <2>2 DEF PolicyChanges, AccountTypeOK
  <2> QED BY <1>2, <2>1, <2>2, MessageTypes DEF MailStep
<1>3. CASE UNCHANGED draftVars
    BY <1>3 DEF draftVars, AccountTypeOK, PageOK
<1> QED BY <1>1, <1>2, <1>3 DEF WebmailNext

LEMMA WebmailInitTypes == DraftInit => AccountTypeOK /\ PageOK
<1> SUFFICES ASSUME DraftInit PROVE AccountTypeOK /\ PageOK
    OBVIOUS
<1>1. Received \in Email /\ Unused \in Email
    BY AccountAssumption DEF Received, Unused, Email, Texts
<1>2. AccountTypeOK
    BY <1>1, NoTaskTyped DEF DraftInit, AccountInit, AccountTypeOK
<1>3. Page(0, NoMessage) \in Editor
    BY PageTyped, AccountAssumption DEF Texts
<1>4. PageOK
    BY <1>3, NoFetchTyped DEF DraftInit, PageOK, Page, NoFetch
<1> QED BY <1>2, <1>4

\* What the requests, the page and the mail account hold keeps its type, and
\* an open page is saving exactly while it waits for a background save
\* (drafts.js autosave, draft_views.py).
THEOREM WebmailTypeCorrect == WebmailSpec => []DraftTypeOK
<1>1. AccountTypeOK /\ PageOK => DraftTypeOK
    BY DEF DraftTypeOK, PageOK
<1> QED BY <1>1, WebmailTypes, WebmailInitTypes, PTL DEF WebmailSpec

---------------------------------------------------------------------------
(* What a request whose look is not out of date knows of its message.      *)

Looks(r) ==
    /\ r \notin history.stale
    /\ At(r, "write") \/ At(r, "submit")
    /\ task[r].msg # NoMessage
    => Has(task[r].msg, "$draft")

\* A message that nobody acted upon with a look out of date.
Delivered(m) ==
    m \in history.raced \/
        /\ outbox[m] <= 1
        /\ outbox[m] = 1 => ~Has(m, "$draft")

\* What makes the properties inductive.
MailInv ==
    /\ AccountTypeOK
    /\ PageOK
    /\ \A r \in Requests : Looks(r)
    /\ \A m \in Messages : Delivered(m)
    /\ \A m \in Messages : email[m].state = "unused" => outbox[m] = 0
    /\ \A m \in Messages : Has(m, "$answered") => m \in history.replied
    /\ \A r \in Requests : At(r, "answer") => task[r].source \in history.replied

\* What others know of a message that r changes is out of date, or still so.
LEMMA OthersLook ==
    ASSUME AccountTypeOK, NEW r \in Requests, NEW q \in Requests \ {r}, Looks(q),
           NEW m \in Messages, \A k \in Messages \ {m} : email'[k] = email[k],
           task'[q] = task[q],
           history'.stale = (history.stale \cup Outdated(r, m)) \ {r}
    PROVE  Looks(q)'
<1>1. CASE q \in history.stale
    BY <1>1 DEF Looks
<1>2. CASE task[q].msg = m /\ Standing(email'[m]) # Standing(email[m])
    BY <1>2 DEF Looks, Outdated
<1>3. CASE q \notin history.stale /\ ~(task[q].msg = m /\ Standing(email'[m]) # Standing(email[m]))
  <2> DEFINE k == task[q].msg
  <2>1. k \in Messages \cup {NoMessage}
      BY DEF AccountTypeOK, Task
  <2>2. k # NoMessage => Standing(email'[k]) = Standing(email[k])
      BY <1>3, <2>1
  <2>3. k # NoMessage => /\ email'[k].state = email[k].state
                         /\ email'[k].in = email[k].in
                         /\ "$draft" \in email'[k].keywords <=> "$draft" \in email[k].keywords
      BY <2>2 DEF Standing
  <2>4. task'[q].msg = k /\ task'[q].pc = task[q].pc
      OBVIOUS
  <2> HIDE DEF k
  <2>5. (At(q, "write") \/ At(q, "submit")) /\ k # NoMessage => Has(k, "$draft")
      BY <1>3 DEF Looks, k
  <2>6. (At(q, "write") \/ At(q, "submit"))' /\ k # NoMessage => "$draft" \in email'[k].keywords
      BY <2>3, <2>4, <2>5 DEF At, Has
  <2> QED BY <2>4, <2>6 DEF Looks, At, Has
<1> QED BY <1>1, <1>2, <1>3

\* Request r has changed m.
LEMMA MailChange ==
    ASSUME MailInv, AccountTypeOK', PageOK',
           NEW r \in Requests, NEW m \in Messages,
           \A k \in Messages \ {m} : email'[k] = email[k] /\ outbox'[k] = outbox[k],
           \A q \in Requests \ {r} : task'[q] = task[q],
           history'.stale = (history.stale \cup Outdated(r, m)) \ {r},
           history.raced \subseteq history'.raced,
           history.replied \subseteq history'.replied,
           Looks(r)', Delivered(m)', email'[m].state # "unused",
           Has(m, "$answered")' => m \in history'.replied,
           At(r, "answer")' => task'[r].source \in history'.replied
    PROVE  MailInv'
<1>1. \A q \in Requests \ {r} : Looks(q)'
    BY OthersLook DEF MailInv
<1>2. \A k \in Messages \ {m} : Delivered(k)'
    BY DEF MailInv, Delivered, Has
<1>3. \A k \in Messages : Has(k, "$answered")' => k \in history'.replied
    BY DEF MailInv, Has
<1>4. \A q \in Requests : At(q, "answer")' => task'[q].source \in history'.replied
    BY DEF MailInv, At
<1>5. \A k \in Messages : email'[k].state = "unused" => outbox'[k] = 0
    BY DEF MailInv
<1> QED BY <1>1, <1>2, <1>3, <1>4, <1>5 DEF MailInv

\* Request r has changed nothing, and has looked at its message or not.
LEMMA MailRests ==
    ASSUME MailInv, AccountTypeOK', PageOK',
           NEW r \in Requests,
           email' = email, outbox' = outbox,
           \A q \in Requests \ {r} : task'[q] = task[q],
           history.stale \subseteq history'.stale \cup {r},
           history'.raced = history.raced,
           history'.replied = history.replied,
           Looks(r)',
           At(r, "answer")' => task'[r].source \in history'.replied
    PROVE  MailInv'
<1>1. \A q \in Requests \ {r} : Looks(q)'
    BY DEF MailInv, Looks, At, Has
<1>2. \A k \in Messages : Delivered(k)'
    BY DEF MailInv, Delivered, Has
<1> QED BY <1>1, <1>2 DEF MailInv, At, Has

\* A request that has ended looks at nothing.
LEMMA NothingLooked ==
    ASSUME AccountTypeOK, NEW r \in Requests, End(r)
    PROVE  /\ Looks(r)'
           /\ At(r, "idle")' /\ ~At(r, "answer")'
           /\ \A q \in Requests \ {r} : task'[q] = task[q]
<1>1. task'[r] = NoTask /\ \A q \in Requests \ {r} : task'[q] = task[q]
    BY DEF AccountTypeOK, End
<1> QED BY <1>1 DEF NoTask, Looks, At

\* What is remembered of a change, and of a submission.
LEMMA Remembered ==
    ASSUME AccountTypeOK, NEW r \in Requests, NEW m \in Messages,
           Changed(r, m) \/ history' = Replied(r, m)
    PROVE  /\ history'.stale = (history.stale \cup Outdated(r, m)) \ {r}
           /\ history.raced \subseteq history'.raced
           /\ r \in history.stale => m \in history'.raced
           /\ history.replied \subseteq history'.replied
           /\ history' = Replied(r, m) /\ task[r].source # NoMessage
                 => task[r].source \in history'.replied
    BY DEF AccountTypeOK, Changed, Replied

\* The other calls leave the other messages alone.
LEMMA OthersKept ==
    ASSUME AccountTypeOK, NEW m \in Messages,
           \/ \E t : PutDraft(m, t)
           \/ \E k : SetKeyword(m, k)
           \/ \E folder : MoveTo(m, folder)
           \/ Destroyed(m)
           \/ \E in : Submitted(m, in)
    PROVE  \A k \in Messages \ {m} : email'[k] = email[k]
    BY DEF AccountTypeOK, PutDraft, SetKeyword, MoveTo, Destroyed, Submitted

\* What a call makes of its message.
LEMMA Made ==
    ASSUME AccountTypeOK, NEW m \in Messages
    PROVE  /\ \A t : PutDraft(m, t) =>
                 email'[m].state = "kept" /\ email'[m].keywords = {"$draft"}
           /\ \A k : SetKeyword(m, k) =>
                 /\ email'[m].state = email[m].state
                 /\ email'[m].keywords = email[m].keywords \cup {k}
           /\ \A folder : MoveTo(m, folder) =>
                 /\ email'[m].state = email[m].state
                 /\ email'[m].keywords = email[m].keywords
           /\ Destroyed(m) =>
                 email'[m].state = "destroyed" /\ email'[m].keywords = {}
           /\ \A in : Submitted(m, in) =>
                 /\ email'[m].state = email[m].state
                 /\ email'[m].keywords = email[m].keywords \ {"$draft"}
                 /\ outbox'[m] = IF outbox[m] < 2 THEN outbox[m] + 1 ELSE 2
                 /\ \A k \in Messages \ {m} : outbox'[k] = outbox[k]
<1>1. email \in [Messages -> Email] /\ email[m] \in Email
    BY DEF AccountTypeOK
<1>2. ASSUME NEW t, PutDraft(m, t)
      PROVE  email'[m].state = "kept" /\ email'[m].keywords = {"$draft"}
    BY <1>1, <1>2 DEF PutDraft, DraftOf
<1>3. ASSUME NEW k, SetKeyword(m, k)
      PROVE  /\ email'[m].state = email[m].state
             /\ email'[m].keywords = email[m].keywords \cup {k}
    BY <1>1, <1>3 DEF SetKeyword, Email
<1>4. ASSUME NEW folder, MoveTo(m, folder)
      PROVE  /\ email'[m].state = email[m].state
             /\ email'[m].keywords = email[m].keywords
    BY <1>1, <1>4 DEF MoveTo, Email
<1>5. ASSUME Destroyed(m)
      PROVE  email'[m].state = "destroyed" /\ email'[m].keywords = {}
    BY <1>1, <1>5 DEF Destroyed, Unused
<1>6. ASSUME NEW in, Submitted(m, in)
      PROVE  /\ email'[m].state = email[m].state
             /\ email'[m].keywords = email[m].keywords \ {"$draft"}
             /\ outbox'[m] = IF outbox[m] < 2 THEN outbox[m] + 1 ELSE 2
             /\ \A k \in Messages \ {m} : outbox'[k] = outbox[k]
  <2>1. email' = [email EXCEPT ![m] = [email[m] EXCEPT !.in = in, !.keywords = @ \ {"$draft"}]]
      BY <1>6 DEF Submitted
  <2>2. outbox \in [Messages -> 0 .. 2]
      BY DEF AccountTypeOK
  <2>3. email'[m].state = email[m].state /\ email'[m].keywords = email[m].keywords \ {"$draft"}
      BY <1>1, <2>1 DEF Email
  <2> QED BY <1>6, <2>2, <2>3 DEF Submitted
<1> QED BY <1>2, <1>3, <1>4, <1>5, <1>6

---------------------------------------------------------------------------
(* The steps that requests have in common. *)

LEMMA KeepsGivingUp ==
    ASSUME MailInv, AccountTypeOK', PageOK', NEW r \in Requests, GiveUp(r)
    PROVE  MailInv'
<1>1. history.stale \subseteq history'.stale \cup {r}
      /\ history'.raced = history.raced /\ history'.replied = history.replied
    BY DEF GiveUp, Looked, MailInv, AccountTypeOK
<1> QED BY <1>1, MailRests, NothingLooked DEF GiveUp, MailInv

LEMMA KeepsBeginning ==
    ASSUME MailInv, AccountTypeOK', PageOK', NEW r \in Requests,
           NEW pc \in {"destroy", "create", "write"},
           NEW asked, NEW m \in Messages \cup {NoMessage}, NEW source, NEW text,
           Begin(r, pc, asked, m, source, text),
           pc = "write" => m = NoMessage \/ IsDraft(m)
    PROVE  MailInv'
<1>1. /\ task'[r] = [ pc |-> pc, asked |-> asked, msg |-> m, source |-> source,
                      text |-> text ]
      /\ \A q \in Requests \ {r} : task'[q] = task[q]
      /\ UNCHANGED <<email, outbox, ready, history>>
    BY DEF Begin, MailInv, AccountTypeOK
<1>2. task'[r].pc = pc /\ task'[r].msg = m
    BY <1>1
<1>3. Looks(r)'
    BY <1>1, <1>2 DEF Looks, At, Has, IsDraft
<1> QED BY <1>1, <1>2, <1>3, MailRests DEF At

\* A message is submitted.
LEMMA KeepsSubmitting ==
    ASSUME MailInv, AccountTypeOK', PageOK', NEW r \in Requests,
           NEW m \in Messages, m = task[r].msg, NEW in,
           At(r, "submit"), Kept(m), Submitted(m, in), history' = Replied(r, m),
           \/ task[r].source # NoMessage /\ Goto(r, "answer")
           \/ End(r)
    PROVE  MailInv'
<1>0. AccountTypeOK /\ task[r] \in Task /\ TaskOK(task[r]) /\ m # NoMessage
    BY MessagesAreSome DEF MailInv, AccountTypeOK
<1>1. /\ email'[m].state = email[m].state
      /\ email'[m].keywords = email[m].keywords \ {"$draft"}
      /\ outbox'[m] = IF outbox[m] < 2 THEN outbox[m] + 1 ELSE 2
      /\ \A k \in Messages \ {m} : outbox'[k] = outbox[k] /\ email'[k] = email[k]
    BY <1>0, Made, OthersKept
<1>2. /\ history'.stale = (history.stale \cup Outdated(r, m)) \ {r}
      /\ history.raced \subseteq history'.raced
      /\ r \in history.stale => m \in history'.raced
      /\ history.replied \subseteq history'.replied
      /\ task[r].source # NoMessage => task[r].source \in history'.replied
    BY <1>0, Remembered
<1>3. Delivered(m)'
  <2>1. CASE r \in history.stale \/ m \in history.raced
      BY <1>2, <2>1 DEF Delivered
  <2>2. CASE r \notin history.stale /\ m \notin history.raced
    <3>1. Has(m, "$draft")
        BY <1>0, <2>2 DEF MailInv, Looks
    <3>2. outbox[m] \in 0 .. 2 /\ outbox[m] <= 1 /\ outbox[m] # 1
        BY <1>0, <2>2, <3>1 DEF MailInv, Delivered, AccountTypeOK
    <3> QED BY <1>1, <3>2 DEF Delivered, Has
  <2> QED BY <2>1, <2>2
<1>4. /\ Looks(r)'
      /\ At(r, "answer")' => task'[r].source \in history'.replied
      /\ \A q \in Requests \ {r} : task'[q] = task[q]
  <2>1. CASE End(r)
      BY <1>0, <2>1, NothingLooked
  <2>2. CASE task[r].source # NoMessage /\ Goto(r, "answer")
    <3>1. /\ task'[r].pc = "answer" /\ task'[r].source = task[r].source
          /\ \A q \in Requests \ {r} : task'[q] = task[q]
        BY <1>0, <2>2 DEF Goto, AccountTypeOK, Task
    <3> QED BY <1>2, <2>2, <3>1 DEF Looks, At, MailInv
  <2> QED BY <2>1, <2>2
<1>5. Has(m, "$answered")' => m \in history'.replied
    BY <1>1, <1>2 DEF MailInv, Has
<1>6. email'[m].state # "unused"
    BY <1>1 DEF Kept
<1> QED BY <1>1, <1>2, <1>3, <1>4, <1>5, <1>6, MailChange

\* A message is marked as answered.
LEMMA KeepsMarking ==
    ASSUME MailInv, AccountTypeOK', PageOK', NEW r \in Requests, MarkAnswered(r)
    PROVE  MailInv'
<1>0. PICK s \in Messages : s = task[r].source /\ AccountTypeOK /\ At(r, "answer")
    BY DEF MailInv, AccountTypeOK, MarkAnswered, MayMark, At, TaskOK, Task
<1>1. SetKeyword(s, "$answered") /\ Changed(r, s) /\ End(r) /\ Kept(s) /\ outbox' = outbox
      /\ s \in history.replied
    BY <1>0 DEF MarkAnswered, MailInv
<1>2. /\ email'[s].state = email[s].state
      /\ email'[s].keywords = email[s].keywords \cup {"$answered"}
      /\ \A k \in Messages \ {s} : email'[k] = email[k]
    BY <1>0, <1>1, Made, OthersKept
<1>3. /\ history'.stale = (history.stale \cup Outdated(r, s)) \ {r}
      /\ history.raced \subseteq history'.raced
      /\ history.replied \subseteq history'.replied
    BY <1>0, <1>1, Remembered
<1>4. Delivered(s)'
  <2>1. Delivered(s)
      BY <1>0 DEF MailInv
  <2>2. "$draft" \in email'[s].keywords => "$draft" \in email[s].keywords
      BY <1>2
  <2> QED BY <1>1, <1>3, <2>1, <2>2 DEF Delivered, Has
<1>5. email'[s].state # "unused" /\ s \in history'.replied
    BY <1>1, <1>2, <1>3 DEF Kept
<1>6. /\ Looks(r)' /\ At(r, "idle")' /\ ~At(r, "answer")'
      /\ \A q \in Requests \ {r} : task'[q] = task[q]
    BY <1>0, <1>1, NothingLooked
<1> QED BY <1>0, <1>1, <1>2, <1>3, <1>4, <1>5, <1>6, MailChange

\* A draft is written.
LEMMA KeepsWriting ==
    ASSUME MailInv, AccountTypeOK', PageOK', NEW r \in Requests, NEW m \in Messages,
           Writes(r, m),
           \/ End(r)
           \/ task' = [task EXCEPT ![r].pc = "verify", ![r].msg = m]
    PROVE  MailInv'
<1>0. AccountTypeOK /\ task[r] \in Task /\ m # NoMessage
    BY MessagesAreSome DEF MailInv, AccountTypeOK
<1>1. /\ email'[m].state = "kept" /\ email'[m].keywords = {"$draft"}
      /\ \A k \in Messages \ {m} : email'[k] = email[k]
      /\ outbox' = outbox
    BY <1>0, Made, OthersKept DEF Writes
<1>2. /\ history'.stale = (history.stale \cup Outdated(r, m)) \ {r}
      /\ history.raced \subseteq history'.raced
      /\ r \in history.stale => m \in history'.raced
      /\ history.replied \subseteq history'.replied
    BY <1>0, Remembered DEF Writes
<1>3. Delivered(m)'
  <2>1. CASE r \in history.stale \/ m \in history.raced
      BY <1>2, <2>1 DEF Delivered
  <2>2. CASE r \notin history.stale /\ m \notin history.raced
    <3>1. outbox[m] = 0
      <4>1. CASE task[r].msg = NoMessage
          BY <4>1 DEF Writes, Fresh, MailInv
      <4>2. CASE task[r].msg # NoMessage
        <5>1. m = task[r].msg /\ Has(m, "$draft")
            BY <2>2, <4>2 DEF Writes, MailInv, Looks
        <5> QED BY <1>0, <2>2, <5>1 DEF MailInv, Delivered, AccountTypeOK
      <4> QED BY <4>1, <4>2
    <3> QED BY <1>1, <3>1 DEF Delivered
  <2> QED BY <2>1, <2>2
<1>4. /\ Looks(r)'
      /\ ~At(r, "answer")'
      /\ \A q \in Requests \ {r} : task'[q] = task[q]
  <2>1. CASE End(r)
      BY <1>0, <2>1, NothingLooked
  <2>2. CASE task' = [task EXCEPT ![r].pc = "verify", ![r].msg = m]
    <3>1. /\ task'[r].pc = "verify"
          /\ \A q \in Requests \ {r} : task'[q] = task[q]
        BY <1>0, <2>2 DEF AccountTypeOK, Task
    <3> QED BY <2>2, <3>1 DEF Looks, At
  <2> QED BY <2>1, <2>2
<1>5. ~Has(m, "$answered")' /\ email'[m].state # "unused"
    BY <1>1 DEF Has
<1> QED BY <1>1, <1>2, <1>3, <1>4, <1>5, MailChange

---------------------------------------------------------------------------
(* Every step. *)

LEMMA KeepsMessages ==
    ASSUME MailInv, AccountTypeOK', PageOK', NEW r \in Requests, MessageNext(r)
    PROVE  MailInv'
<1>0. /\ AccountTypeOK
      /\ task[r] \in Task /\ TaskOK(task[r])
    BY DEF MailInv, AccountTypeOK
<1>1. CASE DestroyMessage(r)
  <2>1. CASE GiveUp(r)
      BY <2>1, KeepsGivingUp
  <2>2. CASE Destroyed(task[r].msg) /\ Changed(r, task[r].msg) /\ End(r) /\ outbox' = outbox
    <3>1. PICK m \in Messages : m = task[r].msg
        BY <1>0, <1>1 DEF DestroyMessage, At, TaskOK, Task
    <3>2. /\ email'[m].state = "destroyed" /\ email'[m].keywords = {}
          /\ \A k \in Messages \ {m} : email'[k] = email[k]
        BY <1>0, <2>2, <3>1, Made, OthersKept
    <3>3. /\ history'.stale = (history.stale \cup Outdated(r, m)) \ {r}
          /\ history.raced \subseteq history'.raced
          /\ history.replied \subseteq history'.replied
        BY <1>0, <2>2, <3>1, Remembered
    <3>4. Delivered(m)'
      <4>1. Delivered(m)
          BY DEF MailInv
      <4> QED BY <2>2, <3>2, <3>3, <4>1 DEF Delivered, Has
    <3>5. ~Has(m, "$answered")' /\ email'[m].state # "unused"
        BY <3>2 DEF Has
    <3>6. /\ Looks(r)' /\ At(r, "idle")' /\ ~At(r, "answer")'
          /\ \A q \in Requests \ {r} : task'[q] = task[q]
        BY <1>0, <2>2, NothingLooked
    <3> QED BY <2>2, <3>2, <3>3, <3>4, <3>5, <3>6, MailChange
  <2> QED BY <1>1, <2>1, <2>2 DEF DestroyMessage
<1>2. CASE ComposeFails(r)
    BY <1>2, KeepsGivingUp DEF ComposeFails
<1>3. CASE ComposeCreate(r)
  <2>1. PICK m \in Messages :
           /\ Fresh(m)
           /\ PutDraft(m, 0)
           /\ \/ task' = [task EXCEPT ![r].pc = "submit", ![r].msg = m]
              \/ End(r)
      BY <1>3 DEF ComposeCreate
  <2>2. /\ email'[m].state = "kept" /\ email'[m].keywords = {"$draft"}
        /\ \A k \in Messages \ {m} : email'[k] = email[k]
        /\ UNCHANGED <<outbox, history>>
      BY <1>0, <1>3, <2>1, Made, OthersKept DEF ComposeCreate
  <2>3. email[m].state = "unused" /\ outbox[m] = 0
      BY <2>1 DEF Fresh, MailInv
  <2>4. /\ Looks(r)' /\ ~At(r, "answer")'
          /\ \A q \in Requests \ {r} : task'[q] = task[q]
    <3>1. CASE End(r)
        BY <1>0, <3>1, NothingLooked
    <3>2. CASE task' = [task EXCEPT ![r].pc = "submit", ![r].msg = m]
      <4>1. /\ task'[r].pc = "submit" /\ task'[r].msg = m
            /\ \A q \in Requests \ {r} : task'[q] = task[q]
          BY <1>0, <3>2 DEF AccountTypeOK, Task
      <4> QED BY <2>2, <4>1 DEF Looks, At, Has
    <3> QED BY <2>1, <3>1, <3>2
  <2>5. ASSUME NEW q \in Requests \ {r}
        PROVE  Looks(q)'
    <3>1. Looks(q) /\ task'[q] = task[q]
        BY <2>4 DEF MailInv
    <3>2. task[q].msg \in Messages \cup {NoMessage}
        BY <1>0 DEF AccountTypeOK, Task
    <3>3. CASE task[q].msg = m
        BY <2>2, <3>1, <3>3 DEF Looks, At, Has
    <3>4. CASE task[q].msg # m
        BY <2>2, <3>1, <3>2, <3>4 DEF Looks, At, Has
    <3> QED BY <3>3, <3>4
  <2>6. \A k \in Messages : Delivered(k)' /\ (email'[k].state = "unused" => outbox'[k] = 0)
                            /\ (Has(k, "$answered")' => k \in history'.replied)
      BY <2>2, <2>3 DEF MailInv, Delivered, Has
  <2>7. \A q \in Requests : At(q, "answer")' => task'[q].source \in history'.replied
      BY <2>2, <2>4 DEF MailInv, At
  <2> QED BY <2>4, <2>5, <2>6, <2>7 DEF MailInv
<1>4. CASE ComposeSubmit(r)
  <2>1. PICK m \in Messages : m = task[r].msg
      BY <1>0, <1>4 DEF ComposeSubmit, At, TaskOK, Task
  <2>2. \E in : Submitted(m, in)
      BY <1>4, <2>1 DEF ComposeSubmit
  <2> QED BY <1>4, <2>1, <2>2, KeepsSubmitting DEF ComposeSubmit
<1>5. CASE SetAnswered(r)
    BY <1>5, KeepsMarking DEF SetAnswered
<1>6. ASSUME NEW m \in Messages \cup {NoMessage}, ComposeBegin(r, m)
      PROVE  MailInv'
  <2>1. Begin(r, "create", "compose", NoMessage, m, 0)
      BY <1>6 DEF ComposeBegin
  <2> QED BY <2>1, KeepsBeginning
<1>7. ASSUME NEW m \in Messages, SpamMessage(r, m) \/ \E folder \in Folders : MoveMessage(r, m, folder)
      PROVE  MailInv'
  <2>1. PICK folder \in Folders : MoveTo(m, folder)
      BY <1>7 DEF SpamMessage, MoveMessage
  <2>2. At(r, "idle") /\ Kept(m) /\ Changed(r, m) /\ UNCHANGED <<outbox, ready, task>>
      BY <1>7 DEF SpamMessage, MoveMessage, AtOnce
  <2>3. /\ email'[m].state = email[m].state /\ email'[m].keywords = email[m].keywords
        /\ \A k \in Messages \ {m} : email'[k] = email[k]
      BY <1>0, <2>1, Made, OthersKept
  <2>4. /\ history'.stale = (history.stale \cup Outdated(r, m)) \ {r}
        /\ history.raced \subseteq history'.raced
        /\ history.replied \subseteq history'.replied
      BY <1>0, <2>2, Remembered
  <2>5. Delivered(m)' /\ Looks(r)' /\ ~At(r, "answer")' /\ At(r, "idle")'
    <3>1. Delivered(m)
        BY DEF MailInv
    <3>2. Delivered(m)'
        BY <2>2, <2>3, <2>4, <3>1 DEF Delivered, Has
    <3> QED BY <2>2, <3>2 DEF Looks, At
  <2>6. Has(m, "$answered")' => m \in history'.replied
      BY <2>3, <2>4 DEF MailInv, Has
  <2>7. email'[m].state # "unused"
      BY <2>2, <2>3 DEF Kept
  <2> QED BY <2>2, <2>3, <2>4, <2>5, <2>6, <2>7, MailChange
<1>8. ASSUME NEW m \in Messages, DeleteBegin(r, m)
      PROVE  MailInv'
    BY <1>8, KeepsBeginning DEF DeleteBegin
<1> QED BY <1>1, <1>2, <1>3, <1>4, <1>5, <1>6, <1>7, <1>8 DEF MessageNext

LEMMA KeepsDrafts ==
    ASSUME MailInv, AccountTypeOK', PageOK', DraftNext
    PROVE  MailInv'
<1>0. /\ AccountTypeOK /\ PageOK
      /\ \A r \in Requests : task[r] \in Task /\ TaskOK(task[r])
    BY DEF MailInv, AccountTypeOK
<1>1. ASSUME UNCHANGED mailVars
      PROVE  MailInv'
    BY <1>1 DEF mailVars, MailInv, Looks, Delivered, At, Has
<1>2. CASE Edit \/ TimerFires \/ FetchReturns \/ AutosaveRefused \/ PostRefused
           \/ \E m \in Messages : EditDraft(m)
    BY <1>1, <1>2 DEF Edit, TimerFires, FetchReturns, AutosaveRefused, PostRefused, EditDraft
<1>3. ASSUME NEW r \in Requests, AutosaveFails(r) \/ PostFails(r)
      PROVE  MailInv'
    BY <1>3, KeepsGivingUp DEF AutosaveFails, PostFails
<1>4. ASSUME NEW r \in Requests, AutosaveBegin(r)
      PROVE  MailInv'
  <2>1. fetch.id \in Messages \cup {NoMessage}
      BY <1>0 DEF PageOK, Fetch
  <2> QED BY <1>4, <2>1, KeepsBeginning DEF AutosaveBegin, Editable
<1>5. ASSUME NEW r \in Requests, PostSave(r)
      PROVE  MailInv'
  <2>1. editor.id \in Messages \cup {NoMessage}
      BY <1>0 DEF PageOK, Editor
  <2> QED BY <1>5, <2>1, KeepsBeginning DEF PostSave, Posted, Editable
<1>6. ASSUME NEW r \in Requests, NEW source \in Messages \cup {NoMessage}, PostSend(r, source)
      PROVE  MailInv'
  <2>1. editor.id \in Messages \cup {NoMessage}
      BY <1>0 DEF PageOK, Editor
  <2> QED BY <1>6, <2>1, KeepsBeginning DEF PostSend, Posted, Editable
<1>7. ASSUME NEW r \in Requests, NEW m \in Messages, DiscardBegin(r, m)
      PROVE  MailInv'
    BY <1>7, KeepsBeginning DEF DiscardBegin
<1>8. ASSUME NEW r \in Requests, NEW m \in Messages, AutosaveWrite(r, m) \/ SaveWrite(r, m)
      PROVE  MailInv'
    BY <1>8, KeepsWriting DEF AutosaveWrite, SaveWrite
<1>9. ASSUME NEW r \in Requests, NEW m \in Messages, SendWrite(r, m)
      PROVE  MailInv'
    BY <1>9, KeepsWriting DEF SendWrite
<1>10. ASSUME NEW r \in Requests, SendVerify(r)
       PROVE  MailInv'
  <2>1. /\ task'[r].pc = "submit" /\ task'[r].msg = task[r].msg
        /\ \A q \in Requests \ {r} : task'[q] = task[q]
      BY <1>0, <1>10 DEF SendVerify, Goto, AccountTypeOK, Task
  <2>2. history.stale \subseteq history'.stale \cup {r}
        /\ history'.raced = history.raced /\ history'.replied = history.replied
      BY <1>0, <1>10 DEF SendVerify, Looked, AccountTypeOK
  <2>3. Looks(r)'
      BY <1>10, <2>1 DEF SendVerify, Submittable, IsDraft, Looks, At, Has
  <2>4. email' = email /\ outbox' = outbox
      BY <1>10 DEF SendVerify
  <2> QED BY <2>1, <2>2, <2>3, <2>4, MailRests DEF At
<1>11. ASSUME NEW r \in Requests, SendSubmit(r)
       PROVE  MailInv'
  <2>1. PICK m \in Messages : m = task[r].msg
      BY <1>0, <1>11 DEF SendSubmit, At, TaskOK, Task
  <2>2. \E in : Submitted(m, in)
      BY <1>11, <2>1 DEF SendSubmit
  <2> QED BY <1>11, <2>1, <2>2, KeepsSubmitting DEF SendSubmit
<1>12. ASSUME NEW r \in Requests, SendMarked(r)
       PROVE  MailInv'
    BY <1>12, KeepsMarking DEF SendMarked
<1> QED BY <1>2, <1>3, <1>4, <1>5, <1>6, <1>7, <1>8, <1>9, <1>10, <1>11, <1>12 DEF DraftNext

LEMMA KeepsMail ==
    MailInv /\ [WebmailNext]_draftVars => MailInv'
<1> SUFFICES ASSUME MailInv, [WebmailNext]_draftVars PROVE MailInv'
    OBVIOUS
<1>1. AccountTypeOK' /\ PageOK'
    BY WebmailTypes DEF MailInv
<1>2. CASE DraftNext
    BY <1>1, <1>2, KeepsDrafts
<1>3. ASSUME NEW r \in Requests, MessageNext(r)
      PROVE  MailInv'
    BY <1>1, <1>3, KeepsMessages
<1>4. CASE PolicyChanges
    BY <1>1, <1>4 DEF PolicyChanges, MailInv, Looks, Delivered, At, Has
<1>5. CASE UNCHANGED draftVars
    BY <1>1, <1>5 DEF draftVars, MailInv, Looks, Delivered, At, Has
<1> QED BY <1>2, <1>3, <1>4, <1>5 DEF WebmailNext, MailStep

LEMMA MailInitially == DraftInit => MailInv
<1> SUFFICES ASSUME DraftInit PROVE MailInv
    OBVIOUS
<1>1. \A r \in Requests : At(r, "idle") /\ ~At(r, "answer") /\ Looks(r)
    BY DEF DraftInit, AccountInit, At, NoTask, Looks
<1>2. \A m \in Messages : outbox[m] = 0 /\ email[m].keywords = {}
    BY DEF DraftInit, AccountInit, Received, Unused
<1> QED BY <1>1, <1>2, WebmailInitTypes DEF MailInv, Delivered, Has

---------------------------------------------------------------------------
(* What the page has to save.                                              *)

\* A save that the page waits for is under way.
Tended ==
    /\ fetch.live => fetch.at # "none"
    /\ EditIsNotForgotten

\* The page and its save are left alone, or the page has nothing to save.
LEMMA NothingToTend ==
    ASSUME Tended,
           \/ fetch' = fetch
           \/ ~fetch'.live,
           \/ editor' = editor /\ fetch' = fetch
           \/ editor'.page # "open"
           \/ ~editor'.dirty
    PROVE  Tended'
    BY DEF Tended, EditIsNotForgotten, Savable

\* The save goes on, and will come back.
LEMMA SaveGoesOn ==
    ASSUME Tended, editor' = editor, fetch'.live = fetch.live, fetch'.at # "none"
    PROVE  Tended'
    BY DEF Tended, EditIsNotForgotten, Savable

\* The form that is shown after a post has nothing to save.
LEMMA ShownIsClean ==
    ASSUME Tended, fetch' = fetch, NEW r \in Requests,
           \/ \E id : Again(r, id)
           \/ Leave(r)
           \/ editor' = editor
    PROVE  Tended'
    BY NothingToTend DEF Again, Leave, Page, LeftPage

LEMMA KeepsTended ==
    ASSUME AccountTypeOK, PageOK, Tended, [WebmailNext]_draftVars
    PROVE  Tended'
<1>0. editor \in Editor /\ fetch \in Fetch
    BY DEF PageOK
<1>1. CASE MailStep \/ UNCHANGED draftVars
    BY <1>1, NothingToTend DEF MailStep, draftVars
<1>2. CASE Edit
  <2>1. editor'.timer /\ fetch' = fetch
      BY <1>0, <1>2 DEF Edit, Editor
  <2> QED BY <2>1 DEF Tended, EditIsNotForgotten
<1>3. CASE TimerFires
  <2>1. CASE Idles(editor) /\ editor' = [editor EXCEPT !.timer = FALSE] /\ fetch' = fetch
    <3>1. /\ editor'.dirty = editor.dirty /\ editor'.text = editor.text
          /\ editor'.id = editor.id /\ editor.page = "open"
        BY <1>0, <1>3, <2>1 DEF Editor, TimerFires
    <3>2. CASE editor.saving
        BY <2>1, <3>1, <3>2 DEF Tended, EditIsNotForgotten, PageOK
    <3>3. CASE ~editor.dirty \/ ~Savable(editor)
        BY <2>1, <3>1, <3>3 DEF Tended, EditIsNotForgotten, Savable
    <3> QED BY <2>1, <3>2, <3>3 DEF Idles
  <2>2. CASE fetch' = [at |-> "sent", id |-> editor.id, text |-> editor.text, live |-> TRUE]
      BY <2>2 DEF Tended, EditIsNotForgotten
  <2> QED BY <1>3, <2>1, <2>2 DEF TimerFires
<1>4. CASE FetchReturns
  <2>1. ~fetch'.live
      BY <1>4 DEF FetchReturns, NoFetch
  <2>2. CASE ~fetch.live
      BY <1>4, <2>1, <2>2 DEF FetchReturns, Tended, EditIsNotForgotten, Savable
  <2>3. CASE editor' = AfterSave(editor)
      BY <1>0, <2>1, <2>3, NothingToTend DEF AfterSave, Editor
  <2>4. CASE editor' = AfterFailure(editor)
    <3>1. editor'.timer
        BY <1>0, <2>4 DEF AfterFailure, Editor
    <3> QED BY <2>1, <3>1 DEF Tended, EditIsNotForgotten
  <2> QED BY <1>4, <2>2, <2>3, <2>4 DEF FetchReturns
<1>5. CASE AutosaveRefused
  <2>1. fetch'.live = fetch.live /\ fetch'.at # "none" /\ editor' = editor
      BY <1>0, <1>5 DEF AutosaveRefused, Fetch
  <2> QED BY <2>1, SaveGoesOn
<1>6. CASE PostRefused
  <2>1. ~fetch'.live /\ editor'.page # "open"
      BY <1>0, <1>6, AbandonedTyped DEF PostRefused, LeftPage, Page
  <2> QED BY <2>1, NothingToTend
<1>7. ASSUME NEW m \in Messages, EditDraft(m)
      PROVE  Tended'
  <2>1. ~fetch'.live /\ ~editor'.dirty
      BY <1>0, <1>7, AbandonedTyped DEF EditDraft, Page
  <2> QED BY <2>1, NothingToTend
<1>8. ASSUME NEW r \in Requests,
             \/ AutosaveBegin(r) \/ AutosaveFails(r)
             \/ \E m \in Messages : AutosaveWrite(r, m)
      PROVE  Tended'
  <2>1. fetch'.live = fetch.live /\ fetch'.at # "none" /\ editor' = editor
      BY <1>0, <1>8 DEF AutosaveBegin, AutosaveFails, AutosaveWrite, Fetch
  <2> QED BY <2>1, SaveGoesOn
<1>9. ASSUME NEW r \in Requests, NEW asked, NEW source, Posted(r, asked, source)
      PROVE  Tended'
  <2>1. ~fetch'.live /\ editor'.page # "open"
      BY <1>0, <1>9, AbandonedTyped DEF Posted, Editor
  <2> QED BY <2>1, NothingToTend
<1>10. ASSUME NEW r \in Requests,
              \/ PostFails(r) \/ SendVerify(r) \/ SendSubmit(r) \/ SendMarked(r)
              \/ \E m \in Messages : SaveWrite(r, m) \/ SendWrite(r, m) \/ DiscardBegin(r, m)
       PROVE  Tended'
    BY <1>10, ShownIsClean
       DEF PostFails, SendVerify, SendSubmit, SendMarked, SaveWrite, SendWrite, DiscardBegin
<1> QED BY <1>1, <1>2, <1>3, <1>4, <1>5, <1>6, <1>7, <1>8, <1>9, <1>10
        DEF WebmailNext, DraftNext, PostSave, PostSend

---------------------------------------------------------------------------
(* Theorems. *)

LEMMA MailInvariant == WebmailSpec => []MailInv
    BY KeepsMail, MailInitially, PTL DEF WebmailSpec

\* No message is submitted twice or edited after it was submitted, unless
\* another request acted between a look at it and what followed: not by a lost
\* answer or a page sent again, and not by two sends of which the later one
\* reads the draft after the earlier one has submitted it
\* (drafts.submit_saved_draft, mail_jmap.send_plaintext).
THEOREM DeliveredOnce == WebmailSpec => []SentOnce
<1>1. MailInv => SentOnce
    BY DEF MailInv, Delivered, SentOnce
<1> QED BY <1>1, MailInvariant, PTL

\* Only what was replied to is marked as answered (webmail_compose,
\* webmail_send_draft).
THEOREM AnsweredCorrectly == WebmailSpec => []AnsweredWasReplied
<1>1. MailInv => AnsweredWasReplied
    BY DEF MailInv, AnsweredWasReplied
<1> QED BY <1>1, MailInvariant, PTL

\* As long as a page is open and has something to save, its timer runs or it
\* waits for a save that is under way, whatever its earlier saves came to, and
\* whenever its timer ran out (drafts.js autosave, schedule).
THEOREM NothingIsForgotten == WebmailSpec => []EditIsNotForgotten
<1> DEFINE Inv == AccountTypeOK /\ PageOK /\ Tended
<1>1. DraftInit => Inv
    BY WebmailInitTypes
       DEF DraftInit, Tended, EditIsNotForgotten, Page, NoFetch
<1>2. Inv /\ [WebmailNext]_draftVars => Inv'
    BY WebmailTypes, KeepsTended
<1>3. Inv => EditIsNotForgotten
    BY DEF Tended
<1> QED BY <1>1, <1>2, <1>3, PTL DEF WebmailSpec
=============================================================================
