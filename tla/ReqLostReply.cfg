SPECIFICATION Spec
CONSTANTS
  c1 = c1
  c2 = c2
  a1 = a1
  a2 = a2
  a3 = a3
  i1 = i1
  i2 = i2
  i3 = i3
  Poll = Poll
  NULL = NULL
  Callers <- OneCaller
  Addrs <- TwoAddrs
  Ids <- TwoIds
  Timeouts <- NoTimeouts
  DefaultTimeout <- ShortTimeout
  Collide = FALSE
CHECK_DEADLOCK FALSE
PROPERTY ReplyReachesCallback
