\* One session, an admin and a teacher with two sockets, two overlapping handlers.
SPECIFICATION Spec
CONSTANTS
  teacher = teacher
  assistant = assistant
  student = student
  s1 = s1
  s2 = s2
  k1 = k1
  k2 = k2
  k3 = k3
  NoOne = NoOne
  Users = {teacher, assistant}
  Sessions = {s1}
  Sockets = {k1, k2, k3}
  Requests = {r1, r2}
  Timers = {t1}
  JoinRequests <- StageJoins
  MayEnter <- StageEnter
  Teachers <- StageTeachers
  Recorders <- Nobody
  Admins = {teacher}
  Students <- Nobody
  Failures = TRUE
SYMMETRY SlotSymmetry
CHECK_DEADLOCK FALSE
INVARIANTS StillConnectedIsFound
