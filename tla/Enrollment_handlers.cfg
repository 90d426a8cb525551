\* Two students, a free class that is also joined by invite, and one for sale.
SPECIFICATION Spec
CONSTANTS
  ann = ann
  bob = bob
  course = course
  club = club
  Creator = Creator
  NoOne = NoOne
  Users = {ann, bob}
  Classes = {course, club}
  Rows = {m1, m2, m3}
  Requests = {r1, r2}
  Invites <- ClubInvites
  Buyers <- Sales
  Free = {club}
  Managed = {club}
  Unfinished = {club}
  Failures = TRUE
SYMMETRY Symmetry
CHECK_DEADLOCK FALSE
INVARIANTS TypeOK DuplicatesBounded  OvertakenJoinIsSeated
PROPERTIES GrantLostOnlyToOverlap
