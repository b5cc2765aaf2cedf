SPECIFICATION MCSpec
CONSTANTS
  Parts = {"files"}
  Uri <- MCUri
  Text <- MCText
  Includes <- MCIncludes
  TextOf <- MCDropped
  MaxDocs = 3
  CcFiles = {}
  Env = {"edit"}
  MaxEvents = 1
  Disk0 <- MCDiskStable
  Cc0 <- MCOneRoot
  Malformed = Malformed
  Nil = Nil
INVARIANTS OrphanUnprefixed
