SPECIFICATION Spec
CONSTANTS
  AtThread = at
  Web = web
  Bits = {0, 1, 2}
  ArtNet = {2}
  SACN = {1, 2}
  Unis = {{0}, {0, 1}}
  Names = {{1}}
  Magic = {0, 2}
  Forced = {0, 2}
  MaxOps = 2
  MaxBoots = 1
INVARIANTS TypeOK RestartFindsSettings ReceiverFollows
PROPERTIES StartsWhole
CHECK_DEADLOCK FALSE
