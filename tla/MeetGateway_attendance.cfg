\* The host of a session with two sockets, and two attendance timers.
SPECIFICATION FairSpec
CONSTANTS
  teacher = teacher
  assistant = assistant
  student = student
  s1 = s1
  s2 = s2
  k1 = k1
  k2 = k2
  k3 = k3
  NoOne = NoOne
  Users = {teacher}
  Sessions = {s1}
  Sockets = {k1, k2}
  Requests = {r1, r2}
  Timers = {t1, t2}
  JoinRequests <- HostJoins
  MayEnter <- HostOnly
  Teachers <- Nobody
  Recorders <- HostOnly
  Admins <- Nobody
  Students <- Nobody
  Failures = FALSE
CHECK_DEADLOCK FALSE
PROPERTIES StayedIsMarked OrphanNeedsOverlap
