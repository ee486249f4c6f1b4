SPECIFICATION RateFairSpec
CONSTANTS
  Callers = {c1, c2, c3}
  Period = 3
  Burst = 2
  MaxSpan = 9
INVARIANTS
  GrantBound
  RateInv
PROPERTIES
  EveryCallerServed
