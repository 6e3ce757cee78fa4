\* The disk image of the repository.
SPECIFICATION Spec
CONSTANTS
  BITS = 7
  SLOTS = 4
  ZONES = 6
  ROOT_ZONE = 3
  MetaZones <- MCMetaZones
  SuperZone = 1
  Super <- MCSuper
  MagicField <- MCMagicField
  Magics <- MCMagics
  ZonesTaken <- AsShipped
  Names <- MCNames
  Paths <- MCPaths
  Data = {"x"}
  Counts <- MCCounts
  Operations <- AllOperations
  Resets = TRUE
INVARIANTS
  Mountable
