------------------------------- MODULE Webmail -------------------------------
(***************************************************************************)
(* A user of the webmail who reads, files, writes and deletes the messages *)
(* of an account in several requests at once, and edits a draft in a page. *)
(***************************************************************************)
EXTENDS DraftEditing

MailStep ==
    /\ \/ \E r \in Requests : MessageNext(r)
       \/ PolicyChanges
    /\ UNCHANGED <<editor, fetch>>

WebmailNext == MailStep \/ DraftNext

WebmailSpec == DraftInit /\ [][WebmailNext]_draftVars

---------------------------------------------------------------------------
(* Safety. *)

\* Unless it is filed or submitted between the last look of another request and
\* what that request does, no message is ever submitted twice, and once it was
\* submitted it is no draft any more, so that no page edits it: neither a failed
\* or lost answer, nor a page that is sent again, nor two sends that save the
\* draft side by side deliver a saved draft a second time, as long as the later
\* one reads it after the earlier one has submitted it.  Two that both read it
\* before do (drafts.submit_saved_draft, mail_jmap.send_plaintext).
SentOnce ==
    \A m \in Messages \ history.raced :
        /\ outbox[m] <= 1
        /\ outbox[m] = 1 => ~Has(m, "$draft")

\* Only a message whose reply was submitted is marked as answered, also when
\* its reply had to be sent again from the page that came back
\* (webmail_views.webmail_compose, draft_views.webmail_send_draft).
AnsweredWasReplied ==
    \A m \in Messages : Has(m, "$answered") => m \in history.replied

\* What a page has to save is never forgotten: its timer runs, or a save whose
\* answer will come back is under way, also when the timer ran out during that
\* save, or after a save that failed.  Only an answer that counts as saved ends
\* this (drafts.js autosave, schedule).
EditIsNotForgotten ==
    editor.page = "open" /\ editor.dirty /\ Savable(editor)
    => editor.timer \/ (fetch.live /\ fetch.at # "none")

---------------------------------------------------------------------------
(* Progress of drafts.js. *)

AutosaveStep(r) ==
    AutosaveFails(r) \/ \E m \in Messages : AutosaveWrite(r, m)

PostStep(r) ==
    \/ PostFails(r) \/ SendVerify(r) \/ SendSubmit(r) \/ SendMarked(r)
    \/ \E m \in Messages : SaveWrite(r, m) \/ SendWrite(r, m)

MailEnds(r) ==
    /\ \/ DestroyMessage(r) \/ ComposeFails(r)
       \/ ComposeCreate(r) \/ ComposeSubmit(r) \/ SetAnswered(r)
    /\ UNCHANGED <<editor, fetch>>

AutosaveHandled == AutosaveRefused \/ \E r \in Requests : AutosaveBegin(r)

\* The timer fires, requests come to an end, a save finds a process that is
\* free, and an autosave that is tried again and again is accepted some day,
\* with the login alive.
DraftFairness ==
    /\ WF_draftVars(TimerFires)
    /\ WF_draftVars(FetchReturns)
    /\ SF_draftVars(AutosaveHandled)
    /\ \A r \in Requests :
          WF_draftVars(AutosaveStep(r) \/ PostStep(r) \/ MailEnds(r))
    /\ SF_draftVars(\E r \in Requests : AutosaveBegin(r))
    /\ SF_draftVars(\E r \in Requests, m \in Messages : AutosaveWrite(r, m))

FairWebmailSpec == WebmailSpec /\ DraftFairness

Quiet(t) ==
    /\ editor.page = "open"
    /\ editor.text = t
    /\ editor.dirty
    /\ ~editor.saving

\* The text is saved; or the login has ended, and the page takes the login page
\* for the answer; or the user wrote on or left the page, the draft of the page
\* is none any more, or the bound allows no new message.
Settled(t) ==
    \/ \E m \in Messages : Kept(m) /\ email[m].text = t
    \/ fetch.live /\ fetch.at = "login"
    \/ editor.page # "open"
    \/ editor.text # t
    \/ ~Editable(editor.id)
    \/ /\ editor.id = NoMessage
       /\ \A m \in Messages : email[m].state # "unused"

\* What the user writes while no save is under way is saved some day, however
\* many saves fail, get lost or meet an older page's, unless the user writes
\* on or leaves, or the draft is gone (drafts.js autosave, schedule).  It does
\* not hold of what is written during a save, whose answer clears dirty, nor
\* after the login has ended: the login page clears it as well, and nothing was
\* saved.
QuietEditIsSaved ==
    \A t \in Texts \ {0} : Quiet(t) ~> Settled(t)
=============================================================================
