SPECIFICATION FairSpec
CONSTANT Used <- AllRequests
CHECK_DEADLOCK FALSE
INVARIANT TypeOK
INVARIANT TrueMeansDone
INVARIANT NothingLost
PROPERTY FreedOnce
PROPERTY RetrySucceeds
