SPECIFICATION Spec
CONSTANTS
    a = a
    b = b
    p = p
    q = q
    NoRef = NoRef
    Never = Never
    Unknown = Unknown
    Refs = {a, b}
    Listed <- MCListed
    Provider <- MCProvider
    Cost <- MCCost
    Settings <- MCSettings
    Signals <- MCSignals
    MaxTime = 3
    MaxCaps = 2
    MaxRefreshes = 1
PROPERTIES
  SwitchesWithinPolicy
  CappedRouteLeft
  PauseEnds
CHECK_DEADLOCK FALSE
