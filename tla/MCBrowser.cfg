SPECIFICATION FairSpec
CONSTANTS
    MaxUsers = 2
    Reps = 2
    Bids = 3
    Failures = 2
    AuthUrls = 1
    MaxParts = 1
    MaxReplies <- MCReplies
CHECK_DEADLOCK FALSE
INVARIANTS
    BrowserTypeOK
    CountedOnce
    ChallengesBounded
    RunsItsShare
PROPERTIES
    BrowsersEnd
