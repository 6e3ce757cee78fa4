\* Every operation, without resets.  On a full disk every call may fail at once.
SPECIFICATION Spec
CONSTANTS
  BITS = 6
  SLOTS = 4
  ZONES = 6
  ROOT_ZONE = 3
  MetaZones <- MCMetaZones
  SuperZone = 1
  Super <- SmallSuper
  MagicField <- SmallMagicField
  Magics <- SmallMagics
  ZonesTaken <- Reserved
  Names <- MCNames
  Paths <- MCPaths
  Data = {"x"}
  Counts = {5}
  Operations <- AllOperations
  Resets = FALSE
CHECK_DEADLOCK FALSE
INVARIANTS
  TypeOK
  NamesUnique
  ZonesOwned
  DeletedIsGone
