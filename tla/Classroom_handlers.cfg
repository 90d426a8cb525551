\* Two ids, two emails, a class, two teachers' rows, two overlapping handlers.  Once
\* everybody is banned and every email is taken, nothing goes on.
SPECIFICATION Spec
CONSTANTS
  Ids = {i1, i2}
  Emails = {m1, m2}
  Requests = {r1, r2}
  Classes = {c1}
  Rows = {x1, x2}
  Codes = {k1, k2}
  Calls = {q1, q2}
  NoOne = NoOne
SYMMETRY Symmetry
CONSTRAINT Bound
CHECK_DEADLOCK FALSE
INVARIANTS TypeOK AccountHasLogin
PROPERTIES AdminsGoneNeedsOverlap TwinTeacherNeedsOverlap 
