SPECIFICATION Spec
CONSTANTS
  s1 = s1
  k1 = k1
  b1 = b1
  x = x
  y = y
  NoKey = NoKey
  NoBlock = NoBlock
  Writers = {t1, t2}
  Scopes = {s1}
  Keys = {k1}
  Blocks = {b1}
  Contents = {x, y}
  Commands <- KeyedCommands
  Edits <- MixedEdits
  Operations = {"supersede"}
  Freezable = {}
  Similar = FALSE
  MaxRecords = 3
INVARIANT OneCurrentPerDedupeKey
