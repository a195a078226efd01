\* One reply, of words that repeat, and every limit of the storage within reach.
SPECIFICATION Spec
CONSTANTS
    MaxActs = 3
    MaxCalls = 1
    MaxPieces = 4
    Replies <- MCRepeatingReplies
    Headings = {1}
    MaxStored = 4
    MAX_STORED_MESSAGES_BYTES = 6
    MAX_LOADED_MESSAGES_CHARS = 3
    MAX_LOADED_MESSAGE_CHARS = 2
    MIN_PREFIX_COLLAPSE_LENGTH = 3
    MIN_REPEATED_SECTION_COUNT = 2
INVARIANTS
    ReplyInOrder
    ReplyIsPrefix
    FinishedReplyIsWhole
CHECK_DEADLOCK FALSE
