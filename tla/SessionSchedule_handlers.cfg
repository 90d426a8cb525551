\* Two rows, two overlapping handlers; a host with two classes.
SPECIFICATION Spec
CONSTANTS
  course = course
  club = club
  teacher = teacher
  NoOne = NoOne
  Classes = {course, club}
  Hosts = {teacher}
  Ids = {i1, i2}
  Requests = {r1, r2}
  Bookings <- TwoBookings
  Starts = {0, 1}
  Ends = {1}
  Horizon = 2
  Week = 1
SYMMETRY Symmetry
INVARIANTS TypeOK
PROPERTIES ClashNeedsOverlap InvertedNeedsCause
