SPECIFICATION ReplyFairSpec
CONSTANTS
    r1 = r1
    r2 = r2
    Replies <- MCReplies
    MaxLength = 3
    Enough = 2
    MaxCellEdits = 1
INVARIANTS
    ReadableIsReleased
PROPERTIES
    LongReplyIsSettled
CHECK_DEADLOCK FALSE
