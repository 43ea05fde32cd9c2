--------------------------- MODULE WebmailMessages ---------------------------
(***************************************************************************)
(* Filing, deleting and composing messages                                 *)
(* (mailforge/webmail_views.py, message_actions.py, send_plaintext).       *)
(*                                                                         *)
(* message_actions.py calls list_mailboxes and get_email with an account   *)
(* id, as the clients of its tests take them; those of mail_jmap.py do     *)
(* not, and with them its handlers end in TypeError before anything was    *)
(* changed.  Those actions are what they do with a client that does.       *)
(***************************************************************************)
EXTENDS MailAccount

---------------------------------------------------------------------------
(* message_actions.py *)

\* One call, and nothing is asked before.
AtOnce(r, m, asked) ==
    /\ At(r, "idle")
    /\ asked \in Asked
    /\ Kept(m)
    /\ Changed(r, m)
    /\ UNCHANGED <<outbox, ready, task>>

\* move_message, archive_message, trash_message, to a mailbox of the account.
MoveMessage(r, m, folder) ==
    /\ folder \in Folders
    /\ MoveTo(m, folder)
    /\ AtOnce(r, m, "move")

\* spam_message; without a Junk mailbox the message stays where it is.
SpamMessage(r, m) ==
    /\ "junk" \in Folders
    /\ MoveTo(m, "junk")
    /\ AtOnce(r, m, "spam")

InTrash(m) == Kept(m) /\ "trash" \in email[m].in

\* permanently_delete_message reads the message ...
DeleteBegin(r, m) ==
    /\ InTrash(m)
    /\ Begin(r, "destroy", "delete", m, NoMessage, 0)

\* ... and destroys it later; so does discard_draft.
DestroyMessage(r) ==
    LET m == task[r].msg IN
    /\ At(r, "destroy")
    /\ \/ /\ Kept(m)
          /\ Destroyed(m)
          /\ Changed(r, m)
          /\ End(r)
          /\ UNCHANGED <<outbox, ready>>
       \/ GiveUp(r)

---------------------------------------------------------------------------
(* webmail_compose *)

\* _identity_domain_ready
DomainReady == ready

\* The form is valid and sending is allowed; m is the message that is
\* replied to, if any.
ComposeBegin(r, m) ==
    /\ DomainReady
    /\ m = NoMessage \/ Kept(m)
    /\ Begin(r, "create", "compose", NoMessage, m, 0)

\* send_plaintext creates a draft ...
ComposeCreate(r) ==
    /\ At(r, "create")
    /\ task[r].asked = "compose"
    /\ \E m \in Messages :
          /\ Fresh(m)
          /\ PutDraft(m, 0)
          /\ \/ task' = [task EXCEPT ![r].pc = "submit", ![r].msg = m]
             \/ End(r)                        \* its answer is lost
    /\ UNCHANGED <<outbox, ready, history>>

Replied(r, m) ==
    [history EXCEPT
        !.stale = (@ \cup Outdated(r, m)) \ {r},
        !.raced = IF r \in history.stale THEN @ \cup {m} ELSE @,
        !.replied = @ \cup ({task[r].source} \ {NoMessage})]

\* ... and submits it; success moves it from Drafts to Sent.  The message
\* that was replied to is marked after that.
ComposeSubmit(r) ==
    LET m == task[r].msg IN
    /\ At(r, "submit")
    /\ task[r].asked = "compose"
    /\ Kept(m)
    /\ Submitted(m, (email[m].in \ {"drafts"}) \cup {"sent"})
    /\ history' = Replied(r, m)
    /\ \/ task[r].source # NoMessage /\ Goto(r, "answer")
       \/ End(r)                              \* no reply, or its answer lost
    /\ UNCHANGED ready

\* Mutant: a reply that could not be submitted marks its source, too.
MarkAnyway(r) == At(r, "answer") \/ At(r, "submit")

MayMark(r) == At(r, "answer")

\* set_answered; mark_answered in webmail_send_draft.
MarkAnswered(r) ==
    LET s == task[r].source IN
    /\ MayMark(r)
    /\ Kept(s)
    /\ SetKeyword(s, "$answered")
    /\ Changed(r, s)
    /\ End(r)
    /\ UNCHANGED <<outbox, ready>>

SetAnswered(r) == task[r].asked = "compose" /\ MarkAnswered(r)

\* Stalwart refuses the creation, the submission or the mark, or does not
\* answer; a worker that dies does no more than that.
ComposeFails(r) ==
    /\ task[r].asked = "compose"
    /\ ~At(r, "idle")
    /\ GiveUp(r)

MessageNext(r) ==
    \/ DestroyMessage(r) \/ ComposeFails(r)
    \/ ComposeCreate(r) \/ ComposeSubmit(r) \/ SetAnswered(r)
    \/ ComposeBegin(r, NoMessage)
    \/ \E m \in Messages :
          \/ SpamMessage(r, m) \/ DeleteBegin(r, m) \/ ComposeBegin(r, m)
          \/ \E folder \in Folders : MoveMessage(r, m, folder)
=============================================================================
