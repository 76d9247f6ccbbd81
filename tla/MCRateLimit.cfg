SPECIFICATION Spec
CONSTANTS
  c1 = c1
  c2 = c2
  c3 = c3
  Clients <- MCClients
  Limit = 2
  Window = 2
  Second = 2
  MaxClients = 2
  MaxClock = 5
INVARIANTS
  TypeOK
  TrackedBounded
  RetryPromise
PROPERTY
  ImplementsWindowLimiter
