CONSTANTS
  Threads = {t1, t2}
  Dirs = {d1, d2}
  Names = {a, b}
  MaxIds = 2
  MaxOps = 2
  MaxMishaps = 1
  None = None
SPECIFICATION Spec
SYMMETRY Symmetry
INVARIANTS
  CachedListingsAreTrue
  ActsOnWhatWasNamed
CHECK_DEADLOCK FALSE
