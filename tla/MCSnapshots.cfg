SPECIFICATION MCSpec
CONSTANTS
  Parts = {"diag", "queries"}
  Doc = {d1}
  Query = {q1, q2}
  Diag = {w1}
  Snap = {s1, s2, s3}
  Ws = {x1, x2, x3}
  Buf = {b1, b2, b3}
  Coord = Coord
  Nil = Nil
SYMMETRY Symmetry
INVARIANTS ReferencesCounted BufferOwnedOnce MemoSafe
PROPERTIES PinnedViewStable
