\* Two concurrent calls on one action, application clocks off by one tick, a challenge
\* and an authorization of one tick each, a tick and a change of the context; every call
\* returns.
SPECIFICATION MCFairSpec
CONSTANTS
  Action = {a1}
  owner = owner
  intruder = intruder
  User <- MCUser
  Owner <- MCOwner
  Call = {c1, c2}
  r1 = r1
  Relevant = {r1, r2}
  ConfirmationTtl = 1
  AuthorizationTtl = 1
  ClockSkew = 1
  MaxTime = 1
  MaxVersion = 2
  None = None
INVARIANTS
  TypeOK
  CheckedRowIsCurrent
  AuthorizationJustified
  SingleUse
  InterruptedFailsClosed
PROPERTIES
  ImplementsPendingAction
  EveryCallReturns
