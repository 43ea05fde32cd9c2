----------------------------- MODULE MailAccount -----------------------------
(***************************************************************************)
(* The messages of one mail account in Stalwart, as the webmail reads and  *)
(* writes them over JMAP (stalwart/mail_jmap.py), and the requests of its  *)
(* user that are under way.                                                *)
(*                                                                         *)
(* A handler looks at a message in one call and changes it in a later one, *)
(* and no call says what state it expects (JMAP's ifInState): what another *)
(* request did in between is not noticed.  history remembers who acts on a *)
(* look that is out of date.                                               *)
(*                                                                         *)
(* A call is done, refused, or done with its answer lost; the last two     *)
(* raise MailJMAPError.  $seen and $junk are left out: nothing depends on  *)
(* them, and opening a message or marking it unread changes nothing else.  *)
(***************************************************************************)
EXTENDS Naturals, FiniteSets

CONSTANTS
    Requests,     \* requests of the user that may be under way at once
    Folders,      \* the roles of the account's mailboxes
    Asked,        \* what is asked for in an instance
    MaxMessages,  \* BOUND: messages that ever exist
    MaxText       \* BOUND: versions of the text that the user writes

ASSUME AccountAssumption ==
    /\ {"inbox", "drafts", "sent", "trash"} \subseteq Folders
    /\ MaxMessages \in Nat
    /\ MaxText \in Nat

VARIABLES
    email,    \* Stalwart's messages
    outbox,   \* how often each was submitted for delivery, twice or more is 2
    ready,    \* the row of the sender's domain is active and may send
    task,     \* per request: the handler it is in
    history   \* remembered for the properties

mailVars == <<email, outbox, ready, task, history>>

---------------------------------------------------------------------------
(* State. *)

Messages  == 1 .. MaxMessages
NoMessage == 0
Texts     == 0 .. MaxText
Keywords  == {"$draft", "$answered"}

Email == [ state : {"unused", "kept", "destroyed"}, in : SUBSET Folders,
           keywords : SUBSET Keywords, text : Texts ]

Handler == {"delete", "compose", "save", "autosave", "send", "discard"}

Task ==
    [ pc     : {"idle", "destroy", "create", "write", "verify", "submit",
                "answer"},
      asked  : Handler,
      msg    : Messages \cup {NoMessage},   \* the message it works on
      source : Messages \cup {NoMessage},   \* the one that it replies to
      text   : Texts ]

NoTask == [ pc |-> "idle", asked |-> "save", msg |-> NoMessage,
            source |-> NoMessage, text |-> 0 ]

\* The steps after the first change know their message.
TaskOK(t) ==
    /\ t.pc \in {"destroy", "verify", "submit", "answer"} => t.msg # NoMessage
    /\ t.pc = "answer" => t.source # NoMessage
    /\ t.pc \in {"create", "verify", "submit", "answer"}
          => t.asked \in {"compose", "send"}

AccountTypeOK ==
    /\ email \in [Messages -> Email]
    /\ outbox \in [Messages -> 0 .. 2]
    /\ ready \in BOOLEAN
    /\ task \in [Requests -> Task]
    /\ \A r \in Requests : TaskOK(task[r])
    /\ history \in
          [ stale   : SUBSET Requests,   \* what it looked at has changed
            raced   : SUBSET Messages,   \* a stale request has acted on it
            replied : SUBSET Messages ]  \* a reply to it was submitted

Unused == [state |-> "unused", in |-> {}, keywords |-> {}, text |-> 0]

\* One message has been received, and nothing was written yet.
Received == [state |-> "kept", in |-> {"inbox"}, keywords |-> {}, text |-> 0]

AccountInit ==
    /\ email = [m \in Messages |-> IF m = 1 THEN Received ELSE Unused]
    /\ outbox = [m \in Messages |-> 0]
    /\ ready \in BOOLEAN
    /\ task = [r \in Requests |-> NoTask]
    /\ history = [stale |-> {}, raced |-> {}, replied |-> {}]

At(r, pc) == task[r].pc = pc

Kept(m) == m # NoMessage /\ email[m].state = "kept"

Has(m, keyword) == keyword \in email[m].keywords

\* What get_saved_draft accepts.
IsDraft(m) == Kept(m) /\ "drafts" \in email[m].in /\ Has(m, "$draft")

\* The next id that Stalwart gives a message.
Fresh(m) ==
    /\ email[m].state = "unused"
    /\ \A k \in Messages : email[k].state = "unused" => m <= k

---------------------------------------------------------------------------
(* Steps of a request. *)

\* The request begins with a look at m and goes on at pc.
Begin(r, pc, asked, m, source, text) ==
    /\ At(r, "idle")
    /\ asked \in Asked
    /\ task' = [task EXCEPT ![r] =
          [ pc |-> pc, asked |-> asked, msg |-> m, source |-> source,
            text |-> text ]]
    /\ UNCHANGED <<email, outbox, ready, history>>

Goto(r, pc) == task' = [task EXCEPT ![r].pc = pc]

End(r) == task' = [task EXCEPT ![r] = NoTask]

\* The request has looked at its message once more.
Looked(r) == history' = [history EXCEPT !.stale = @ \ {r}]

\* What a look at a message is for.
Standing(e) == <<e.state, e.in, "$draft" \in e.keywords>>

\* Whoever else works on m has a look at it that is out of date.
Outdated(r, m) ==
    IF Standing(email'[m]) = Standing(email[m]) THEN {}
    ELSE {q \in Requests \ {r} : task[q].msg = m}

\* Request r has changed m; it knows what it wrote.
Changed(r, m) ==
    history' = [history EXCEPT
                   !.stale = (@ \cup Outdated(r, m)) \ {r},
                   !.raced = IF r \in history.stale THEN @ \cup {m} ELSE @]

\* The request ends, and nothing was changed.
GiveUp(r) ==
    /\ End(r)
    /\ Looked(r)
    /\ UNCHANGED <<email, outbox, ready>>

---------------------------------------------------------------------------
(* Calls of JMAP. *)

DraftOf(text) ==
    [state |-> "kept", in |-> {"drafts"}, keywords |-> {"$draft"}, text |-> text]

\* Email/set create and, in drafts.py, update of all that was posted.
PutDraft(m, text) == email' = [email EXCEPT ![m] = DraftOf(text)]

\* set_keyword
SetKeyword(m, keyword) ==
    email' = [email EXCEPT ![m].keywords = @ \cup {keyword}]

\* Email/set update of mailboxIds.
MoveTo(m, folder) == email' = [email EXCEPT ![m].in = {folder}]

\* Email/set destroy.
Destroyed(m) ==
    email' = [email EXCEPT ![m] = [Unused EXCEPT !.state = "destroyed"]]

\* EmailSubmission/set: delivered, and then updated as asked.
Submitted(m, in) ==
    /\ outbox' = [outbox EXCEPT ![m] = IF @ < 2 THEN @ + 1 ELSE 2]
    /\ email' = [email EXCEPT ![m].in = in, ![m].keywords = @ \ {"$draft"}]

\* A readiness check or a suspension writes the row of the domain.
PolicyChanges ==
    /\ "policy" \in Asked
    /\ ready' = ~ready
    /\ UNCHANGED <<email, outbox, task, history>>
=============================================================================
