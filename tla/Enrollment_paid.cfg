\* One student, who buys two classes and may join one of them by invite.
SPECIFICATION FairSpec
CONSTANTS
  ann = ann
  bob = bob
  course = course
  club = club
  Creator = Creator
  NoOne = NoOne
  Users = {ann}
  Classes = {course, club}
  Rows = {m1, m2, m3, m4}
  Requests = {r1, r2}
  Invites <- AnnInvites
  Buyers <- AnnBuys
  Free = {}
  Managed = {}
  Unfinished = {}
  Failures = TRUE
CHECK_DEADLOCK FALSE
PROPERTIES PaidIsGranted
