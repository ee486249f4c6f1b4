SPECIFICATION RateSpec
CONSTANTS
  Callers = {c1, c2, c3}
  Period = 2
  Burst = 1
  MaxSpan = 6
INVARIANTS
  DocumentedRate
