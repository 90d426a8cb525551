\* One session, two egresses, two overlapping handlers, failures and crashes.
SPECIFICATION Spec
CONSTANTS
  NoOne = NoOne
  Sessions = {s1}
  Egresses = {e1, e2}
  Requests = {r1, r2}
  Failures = TRUE
  Crashes = TRUE
SYMMETRY Symmetry
CHECK_DEADLOCK FALSE
INVARIANTS TypeOK
PROPERTIES CheckSeesUnfinished 
