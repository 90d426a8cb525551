\* Two overlapping handlers, on one conversation of ann and bob, where bob's client
\* watches and bob joins the class and leaves it; or on two direct conversations.
SPECIFICATION Spec
CONSTANTS
  ann = ann
  bob = bob
  eve = eve
  NoOne = NoOne
  Users = {ann, bob, eve}
  Creator = ann
  Pupils = {bob}
  Watchers = {bob}
  Ids = {c1, c2}
  Msgs = {m1}
  Requests = {r1, r2}
  Calls <- AllCalls
  Failures = TRUE
SYMMETRY Symmetry
CONSTRAINT Bound
INVARIANTS TypeOK NobodysIsDeleted RemovedIsTold 
PROPERTIES StaleWriteNeedsOverlap 
