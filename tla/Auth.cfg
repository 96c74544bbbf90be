SPECIFICATION FairSpec
CONSTANTS
  right = right
  wrong = wrong
  Passwords <- TwoPasswords
  Password <- right
  MaxSessions = 3
INVARIANT TrueIsReliable
INVARIANT NothingLost
INVARIANT OneReply
PROPERTY RetryAuthenticates
