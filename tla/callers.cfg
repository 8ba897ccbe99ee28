SPECIFICATION MCSpec
CONSTANTS
  t = t
  u = u
  Thread = {t, u}
  Worker = {w1, w2}
  MayCall <- MCCalls
  Touches = TRUE
  MaxWarn = 2
  Nobody = Nobody
INVARIANTS SavesAreHeard NoGuardInUserCode
PROPERTY CallsReturn
