\* disconnect(), which releases the reader before the token is gone.
CONSTANT MaxPending = 3
SPECIFICATION Spec
CHECK_DEADLOCK FALSE
INVARIANT NoFreeAfterContext
