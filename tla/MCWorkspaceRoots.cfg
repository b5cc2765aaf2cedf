SPECIFICATION MCSpec
CONSTANTS
  Parts = {"graph"}
  Uri <- MCUri
  Text <- MCText
  Includes <- MCIncludes
  TextOf <- MCFiles
  MaxDocs = 3
  CcFiles = {}
  Env = {"edit", "write", "delete", "ccremove"}
  MaxEvents = 1
  Disk0 <- MCDiskGraph
  Cc0 <- MCOneRoot
  Malformed = Malformed
  Nil = Nil
INVARIANTS RootsFromFile
