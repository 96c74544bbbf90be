SPECIFICATION Spec
CONSTANTS
  c1 = c1
  c2 = c2
  a1 = a1
  a2 = a2
  a3 = a3
  i1 = i1
  i2 = i2
  i3 = i3
  Poll = Poll
  NULL = NULL
  Callers <- TwoCallers
  Addrs <- TwoAddrs
  Ids <- ThreeIds
  Timeouts <- NoTimeouts
  DefaultTimeout <- ShortTimeout
  Collide = FALSE
CHECK_DEADLOCK FALSE
SYMMETRY SymThree
INVARIANT CountExact
INVARIANT OwnRequestKept
INVARIANT IdsKept
PROPERTY WalkSeesFrozenList
PROPERTY LateCallSendsNothing
PROPERTY ImplementsPromise
