\* Two participants, two overlapping handlers, two elements, a stroke, a message.
SPECIFICATION Spec
CONSTANTS
  NoOne = NoOne
  Users = {ann, bob}
  Edits = {e1, e2}
  Strokes = {s1}
  Msgs = {m1}
  Requests = {r1, r2}
  Failures = TRUE
SYMMETRY Symmetry
CONSTRAINT Bound
INVARIANTS TypeOK InStep  
PROPERTIES ElementLostNeedsCrossing 
