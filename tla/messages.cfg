SPECIFICATION WebmailSpec
CONSTANTS
    r1 = r1
    r2 = r2
    Requests = {r1, r2}
    Folders = {"inbox", "drafts", "sent", "trash", "junk"}
    Asked = {"edit", "send", "compose", "spam", "move", "delete", "policy"}
    MaxMessages = 2
    MaxText = 1
SYMMETRY RequestSymmetry
INVARIANTS AnsweredWasReplied SentOnce
CHECK_DEADLOCK FALSE
