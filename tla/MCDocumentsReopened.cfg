SPECIFICATION Spec
CONSTANTS
  Parts = {"kept"}
  w1 = w1
  w2 = w2
  q1 = q1
  q2 = q2
  Nil = Nil
INVARIANTS ResultIdsMonotonic
