SPECIFICATION Spec
CONSTANTS
  s1 = s1
  k1 = k1
  b1 = b1
  x = x
  y = y
  NoKey = NoKey
  NoBlock = NoBlock
  Writers = {t1, t2}
  Scopes = {s1}
  Keys = {k1}
  Blocks = {b1}
  Contents = {x, y}
  Commands <- MixedCommands
  Edits <- MixedEdits
  Operations = {"approve", "reject", "archive", "supersede", "tombstone", "update"}
  Freezable = {s1}
  Similar = TRUE
  MaxRecords = 3
SYMMETRY WriterSymmetry
INVARIANTS
  CurrentIffLive
  VersionsFormChain
PROPERTIES
  CreatesOfOneKeyTakeTurns
  ChangesAreAnnounced
