\* Two sessions, and sockets that join one after the other.
SPECIFICATION AccessSpec
CONSTANTS
  teacher = teacher
  assistant = assistant
  student = student
  s1 = s1
  s2 = s2
  k1 = k1
  k2 = k2
  k3 = k3
  NoOne = NoOne
  Users = {teacher, student}
  Sessions = {s1, s2}
  Sockets = {k1, k2}
  Requests = {r1, r2}
  Timers = {t1}
  JoinRequests <- RoomsJoins
  MayEnter <- RoomsEnter
  Teachers <- Nobody
  Recorders <- HostOnly
  Admins = {teacher}
  Students = {student}
  Failures = TRUE
SYMMETRY SlotTimerSymmetry
CHECK_DEADLOCK FALSE
INVARIANTS RegistryLive
PROPERTIES EntryNeedsAccess
