---------------------------- MODULE DraftEditing ----------------------------
(***************************************************************************)
(* Drafts: the handlers that save, send and discard them                   *)
(* (mailforge/drafts.py, draft_views.py) and the script of the page that   *)
(* edits one and saves it in the background (static/mailforge/drafts.js).  *)
(*                                                                         *)
(* Like message_actions.py, drafts.py calls a client that takes an account *)
(* id, and the page is the one its tests expect: with the client and the   *)
(* template of this commit its handlers end in TypeError, and no page      *)
(* loads the script.                                                       *)
(*                                                                         *)
(* A handler asks whether the message is a draft when it reads the form    *)
(* and again in save_draft; the later of the two is the one that counts.   *)
(* The user has one page open.  Attachments and signatures are left out.   *)
(*                                                                         *)
(* The login to MailForge may have ended whenever a request arrives, and   *)
(* the user may have logged in again by the next one.  @login_required     *)
(* then sends the browser to the login page.  A posted page is lost by     *)
(* that; the script takes the login page for the answer of a save.         *)
(***************************************************************************)
EXTENDS WebmailMessages

VARIABLES
    editor,  \* the page: its form, and the variables of drafts.js
    fetch    \* the background save that is under way

draftVars == <<email, outbox, ready, task, history, editor, fetch>>

Editor ==
    [ page : {"open", "posted", "left"},
      text : Texts,                         \* what the user has written
      id   : Messages \cup {NoMessage},     \* the field draft-id
      timer : BOOLEAN, saving : BOOLEAN, dirty : BOOLEAN,
      waits : SUBSET Requests ]             \* the post whose answer it shows

Fetch ==
    [ at   : {"none", "sent", "handled", "saved", "login", "failed"},
      id   : Messages \cup {NoMessage},     \* as posted, then as read
      text : Texts,
      live : BOOLEAN ]                      \* the page still waits for it

NoFetch == [at |-> "none", id |-> NoMessage, text |-> 0, live |-> FALSE]

\* A page that is open has one background save under way, or none.
DraftTypeOK ==
    /\ AccountTypeOK
    /\ editor \in Editor
    /\ fetch \in Fetch
    /\ editor.page = "open" => (editor.saving <=> fetch.live)

Page(text, id) ==
    [ page |-> "open", text |-> text, id |-> id,
      timer |-> FALSE, saving |-> FALSE, dirty |-> FALSE, waits |-> {} ]

LeftPage == [Page(0, NoMessage) EXCEPT !.page = "left"]

DraftInit ==
    /\ AccountInit
    /\ editor = Page(0, NoMessage)
    /\ fetch = NoFetch

Editable(id) == id = NoMessage \/ IsDraft(id)

---------------------------------------------------------------------------
(* drafts.js *)

\* The user writes, or chooses another sender: schedule() starts the timer anew.
Edit ==
    /\ editor.page = "open"
    /\ "edit" \in Asked
    /\ \E text \in {editor.text, editor.text + 1} \cap Texts :
          editor' = [editor EXCEPT !.text = text, !.dirty = TRUE, !.timer = TRUE]
    /\ UNCHANGED <<mailVars, fetch>>

\* There is an address to post to, and something to save: hasDraftContent(), or
\* a draft to update.
Savable(page) ==
    /\ "autosave" \in Asked
    /\ page.text > 0 \/ page.id # NoMessage

Idles(page) == page.saving \/ ~page.dirty \/ ~Savable(page)

\* autosave() posts the form, unless a save is under way.  BOUND: a save that
\* an earlier page has left behind has come to an end.
TimerFires ==
    /\ editor.page = "open"
    /\ editor.timer
    /\ \/ /\ Idles(editor)
          /\ editor' = [editor EXCEPT !.timer = FALSE]
          /\ UNCHANGED fetch
       \/ /\ ~Idles(editor)
          /\ fetch = NoFetch
          /\ editor' = [editor EXCEPT !.timer = FALSE, !.saving = TRUE]
          /\ fetch' = [at |-> "sent", id |-> editor.id, text |-> editor.text,
                       live |-> TRUE]
    /\ UNCHANGED mailVars

\* Mutant: what was not saved is not tried again.
NoRetry(page) == [page EXCEPT !.saving = FALSE, !.dirty = FALSE]

\* Mutant: only the next edit tries again what was not saved.
NoTimer(page) == [page EXCEPT !.saving = FALSE]

\* A save that failed leaves the page dirty, and is tried again.
AfterFailure(page) == [page EXCEPT !.saving = FALSE, !.timer = TRUE]

\* Mutant: a save that has succeeded is still under way.
KeepsSaving(page) == [page EXCEPT !.dirty = FALSE]

\* An answer without an id leaves the one that the page has.  dirty is cleared,
\* also for what was written since, and also by the login page.
AfterSave(page) ==
    [page EXCEPT !.saving = FALSE, !.dirty = FALSE,
                 !.id = IF fetch.id = NoMessage THEN @ ELSE fetch.id]

\* response.ok
TakenForSaved == fetch.at \in {"saved", "login"}

FetchReturns ==
    /\ TakenForSaved \/ fetch.at = "failed"
    /\ fetch' = NoFetch
    /\ editor' = IF ~fetch.live THEN editor
                 ELSE IF TakenForSaved THEN AfterSave(editor)
                 ELSE AfterFailure(editor)
    /\ UNCHANGED mailVars

---------------------------------------------------------------------------
(* webmail_autosave_draft *)

AutosaveBegin(r) ==
    /\ fetch.at = "sent"
    /\ Editable(fetch.id)
    /\ Begin(r, "write", "autosave", fetch.id, NoMessage, fetch.text)
    /\ fetch' = [fetch EXCEPT !.at = "handled"]
    /\ UNCHANGED editor

\* It is answered with 401, 409 or 422, or not at all, or with the login page.
AutosaveRefused ==
    /\ fetch.at = "sent"
    /\ \E r \in Requests : At(r, "idle")
    /\ \/ fetch' = [fetch EXCEPT !.at = "failed"]
       \/ fetch' = [fetch EXCEPT !.at = "login", !.id = NoMessage]
    /\ UNCHANGED <<mailVars, editor>>

\* Email/set of save_draft: m is updated, or created.
Writes(r, m) ==
    /\ At(r, "write")
    /\ IF task[r].msg = NoMessage THEN Fresh(m)
       ELSE m = task[r].msg /\ Kept(m)
    /\ PutDraft(m, task[r].text)
    /\ Changed(r, m)
    /\ UNCHANGED <<outbox, ready>>

AutosaveWrite(r, m) ==
    /\ task[r].asked = "autosave"
    /\ Writes(r, m)
    /\ End(r)
    /\ \/ fetch' = [fetch EXCEPT !.at = "saved", !.id = m]
       \* the body of the answer cannot be read, or all of it is lost
       \/ fetch' = [fetch EXCEPT !.at = "saved", !.id = NoMessage]
       \/ fetch' = [fetch EXCEPT !.at = "failed"]
    /\ UNCHANGED editor

AutosaveFails(r) ==
    /\ task[r].asked = "autosave"
    /\ At(r, "write")
    /\ GiveUp(r)
    /\ fetch' = [fetch EXCEPT !.at = "failed"]
    /\ UNCHANGED editor

---------------------------------------------------------------------------
(* webmail_save_draft, webmail_send_draft: the page is posted, and comes   *)
(* back as it was posted, as the saved draft, or not at all.  The user may *)
(* open another one before that, which is then the page.                   *)

\* The page is gone; an answer that has come is of no use any more.
Abandoned ==
    IF fetch.at \in {"sent", "handled"} THEN [fetch EXCEPT !.live = FALSE]
    ELSE NoFetch

Posted(r, asked, source) ==
    /\ editor.page = "open"
    /\ editor.text > 0
    /\ Editable(editor.id)
    /\ Begin(r, "write", asked, editor.id, source, editor.text)
    /\ editor' = [editor EXCEPT !.page = "posted", !.timer = FALSE,
                               !.waits = {r}]
    /\ fetch' = Abandoned

PostSave(r) == Posted(r, "save", NoMessage)

\* A source that is given is the message that is replied to.
PostSend(r, source) ==
    /\ DomainReady
    /\ source = NoMessage \/ Kept(source)
    /\ Posted(r, "send", source)

\* The draft is none any more, or the account cannot be read: the user is sent
\* to the inbox.  Or the login has ended, or the mailbox is not connected.
PostRefused ==
    /\ editor.page = "open"
    /\ editor' = LeftPage
    /\ fetch' = Abandoned
    /\ UNCHANGED mailVars

\* The form is shown again with the draft-id that was posted, or with m's.
Again(r, id) ==
    editor' = IF r \in editor.waits THEN Page(editor.text, id) ELSE editor

Leave(r) == editor' = IF r \in editor.waits THEN LeftPage ELSE editor

SaveWrite(r, m) ==
    /\ task[r].asked = "save"
    /\ Writes(r, m)
    /\ End(r)
    /\ \/ Again(r, m)
       \/ Again(r, editor.id)                            \* the answer is lost
    /\ UNCHANGED fetch

SendWrite(r, m) ==
    /\ task[r].asked = "send"
    /\ Writes(r, m)
    /\ \/ /\ task' = [task EXCEPT ![r].pc = "verify", ![r].msg = m]
          /\ UNCHANGED editor
       \/ End(r) /\ Again(r, editor.id)                  \* the answer is lost
    /\ UNCHANGED fetch

\* Mutant: submit_saved_draft does not read the draft again.
AnyEmail(m) == Kept(m)

Submittable(m) == IsDraft(m)

\* submit_saved_draft reads the draft again ...
SendVerify(r) ==
    /\ At(r, "verify")
    /\ Submittable(task[r].msg)
    /\ Looked(r)
    /\ Goto(r, "submit")
    /\ UNCHANGED <<email, outbox, ready, editor, fetch>>

\* ... and submits it; it stays in Drafts as well.
SendSubmit(r) ==
    LET m == task[r].msg IN
    /\ task[r].asked = "send"
    /\ At(r, "submit")
    /\ Kept(m)
    /\ Submitted(m, email[m].in \cup {"sent"})
    /\ history' = Replied(r, m)
    /\ \/ task[r].source # NoMessage /\ Goto(r, "answer") /\ UNCHANGED editor
       \/ task[r].source = NoMessage /\ End(r) /\ Leave(r)
       \/ End(r) /\ Again(r, editor.id)                  \* the answer is lost
    /\ UNCHANGED <<ready, fetch>>

SendMarked(r) ==
    /\ task[r].asked = "send"
    /\ MarkAnswered(r)
    /\ Leave(r)
    /\ UNCHANGED fetch

\* The page is shown again, although by then the message may be on its way.
PostFails(r) ==
    /\ task[r].asked \in {"save", "send"}
    /\ ~At(r, "idle")
    /\ GiveUp(r)
    /\ Again(r, editor.id)
    /\ UNCHANGED fetch

---------------------------------------------------------------------------
(* webmail_edit_draft, webmail_discard_draft *)

\* The user does not wait for the answer to a post.
EditDraft(m) ==
    /\ editor.page # "open"
    /\ IsDraft(m)
    /\ "edit" \in Asked
    /\ editor' = Page(email[m].text, m)
    /\ fetch' = Abandoned
    /\ UNCHANGED mailVars

DiscardBegin(r, m) ==
    /\ IsDraft(m)
    /\ Begin(r, "destroy", "discard", m, NoMessage, 0)
    /\ UNCHANGED <<editor, fetch>>

DraftNext ==
    \/ Edit \/ TimerFires \/ FetchReturns \/ AutosaveRefused \/ PostRefused
    \/ \E m \in Messages : EditDraft(m)
    \/ \E r \in Requests :
          \/ AutosaveBegin(r) \/ AutosaveFails(r)
          \/ PostSave(r) \/ PostFails(r)
          \/ SendVerify(r) \/ SendSubmit(r) \/ SendMarked(r)
          \/ \E m \in Messages :
                \/ AutosaveWrite(r, m) \/ SaveWrite(r, m) \/ SendWrite(r, m)
                \/ DiscardBegin(r, m)
          \/ \E source \in Messages \cup {NoMessage} : PostSend(r, source)
=============================================================================
