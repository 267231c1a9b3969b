SPECIFICATION Spec
SYMMETRY Symmetry
CONSTANTS
  Files = {f1, f2}
  Clis = {c1, c2}
  Nobody = nobody
  Recapturing = {c1, c2}
  MaxReleases = 2
  MaxEdits = 1
  MaxFaults = 0
INVARIANT
  DigestIsTrue
CHECK_DEADLOCK FALSE
