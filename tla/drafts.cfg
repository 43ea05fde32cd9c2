SPECIFICATION FairWebmailSpec
CONSTANTS
    r1 = r1
    r2 = r2
    Requests = {r1, r2}
    Folders = {"inbox", "drafts", "sent", "trash"}
    Asked = {"edit", "save", "autosave", "discard"}
    MaxMessages = 3
    MaxText = 2
INVARIANTS DraftTypeOK EditIsNotForgotten
PROPERTIES QuietEditIsSaved
CHECK_DEADLOCK FALSE
