\* A load warns while a large add copies its input.
SPECIFICATION MCSpec
CONSTANTS
  t = t
  u = u
  Thread = {t, u}
  Worker = {w1, w2}
  MayCall <- MCCopies
  Touches = FALSE
  MaxWarn = 2
  Nobody = Nobody
PROPERTY CallsReturn
CHECK_DEADLOCK FALSE
