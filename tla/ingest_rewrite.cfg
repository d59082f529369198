SPECIFICATION RetrySpec
CONSTANTS
    Conversations = {"A", "B", "C"}
    Messages = {"a0", "a1", "a2", "a3", "b1", "b2", "c0", "c1", "c2"}
    Mode = "rewrite"
    Journaled = FALSE
    BatchSize = 2
    MaxAborts = 2
    Archive <- FullArchive
    Legacy <- LegacyC
    Unlabelled <- NoPoints
INVARIANTS RekeyPreservesMessages
PROPERTIES EventuallyRekeyed
