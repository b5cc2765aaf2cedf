SPECIFICATION Spec
CONSTANTS
  Parts = {"sync", "encode", "diff", "session", "reopened", "kept", "outline", "nested", "cursor", "brackets", "dates", "lenses", "tree", "memo", "staging"}
  w1 = w1
  w2 = w2
  q1 = q1
  q2 = q2
  Nil = Nil
INVARIANTS
  TextAgrees EncodingFaithful DeltaSound ResultIdsHonoured
  CursorFindsInnermost ViewsFollowNesting StatementAtCursor CompletionFits
  LensesRight ReferencesAgree DependenciesResolve StagingSound
