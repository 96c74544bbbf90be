SPECIFICATION FairSpec
CONSTANT MaxWait <- Rounds
CHECK_DEADLOCK FALSE
INVARIANT InsideLifetime
INVARIANT NothingLeft
PROPERTY UpAfterHandshake
PROPERTY ClosedForGood
PROPERTY ThreadEndsAfterClose
PROPERTY CallsReturn
