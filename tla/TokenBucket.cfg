\* A burst of three at the default rate of ten a second, sixteen ticks a
\* second: a token takes more than one tick and less than two.
CONSTANTS
    ControlRateLimit = 0
    ControlBurst = 3
    PerSecond = 16
    MaxTime = 12
SPECIFICATION Spec
INVARIANTS WindowBound
PROPERTY RefusedOnlyOverBound
