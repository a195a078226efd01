\* A conversation of up to three acts of the user.
SPECIFICATION FairSpec
CONSTANTS
    MaxActs = 3
    MaxCalls = 2
    MaxPieces = 2
    Replies <- MCReplies
    Headings = {}
    MaxStored = 4
    MAX_STORED_MESSAGES_BYTES = 99
    MAX_LOADED_MESSAGES_CHARS = 99
    MAX_LOADED_MESSAGE_CHARS = 99
    MIN_PREFIX_COLLAPSE_LENGTH = 2
    MIN_REPEATED_SECTION_COUNT = 2
INVARIANTS
    TypeOK
    GeneratingIffLive
    NothingPendingAtRest
    ReplyInOrder
    ReplyIsPrefix
    FinishedReplyIsWhole
PROPERTIES
    StoppedReplyIsFrozen
    StoredCatchesUp
CHECK_DEADLOCK FALSE
