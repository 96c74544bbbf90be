SPECIFICATION Spec
CONSTANTS
  a1 = a1
  c1 = c1
  c2 = c2
  c3 = c3
  NULL = NULL
  Callers <- OneCaller
  Conns <- ThreeConns
  Wrappers <- EveryWrapper
  Callbacks <- EveryCallback
CHECK_DEADLOCK FALSE
SYMMETRY SymConns
INVARIANT TypeOK
INVARIANT OrdinaryCodeIsSafe
INVARIANT InUseIsAlive
INVARIANT NothingLeaks
INVARIANT OwnReplyHandled
