SPECIFICATION MCSpec
CONSTANTS
  Parts = {"files"}
  Uri <- MCUri
  Text <- MCText
  Includes <- MCIncludes
  TextOf <- MCStable
  MaxDocs = 3
  CcFiles = {}
  Env = {"edit", "rename"}
  MaxEvents = 1
  Disk0 <- MCDiskStable
  Cc0 <- MCOneRoot
  Malformed = Malformed
  Nil = Nil
INVARIANTS EditorTextWins
