SPECIFICATION Spec
SYMMETRY Symmetry
CONSTANTS
  Files = {f1, f2}
  Clis = {c1, c2}
  Nobody = nobody
  Recapturing = {c2}
  MaxReleases = 3
  MaxEdits = 1
  MaxFaults = 1
INVARIANT
  DigestIsOlderAtWorst
PROPERTIES
  AppliedAsShown
  ImplementsStack
CHECK_DEADLOCK FALSE
