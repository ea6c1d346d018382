SPECIFICATION MCSpec
CONSTANTS
  s1 = s1
  k1 = k1
  b1 = b1
  x = x
  y = y
  NoKey = NoKey
  NoBlock = NoBlock
  Writers = {t1}
  Scopes = {s1}
  Keys = {k1}
  Blocks = {b1}
  Contents = {x, y}
  Commands <- AllCommands
  Edits <- Rewording
  Operations = {"approve", "update"}
  Freezable = {s1}
  Similar = FALSE
  Withholds = TRUE
  MaxRecords = 2
  MaxActions = 2
  Limit = 1
  MaxOpen = 2
INVARIANTS
  ToolsTypeOK
  OnlyLiveRowsAreCurrent
  ArchivesUndoAllButUpdates
PROPERTIES
  DecisionsStand
  OnlyUndoRevives
  DecidedTextStays
  LiveChangesAreAnnounced
  RowsAreAnnounced
