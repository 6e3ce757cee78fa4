\* Every operation but the deletions, and resets.
SPECIFICATION Spec
CONSTANTS
  BITS = 7
  SLOTS = 4
  ZONES = 6
  ROOT_ZONE = 3
  MetaZones <- MCMetaZones
  SuperZone = 1
  Super <- MCSuper
  MagicField <- MCMagicField
  Magics <- MCMagics
  ZonesTaken <- Reserved
  Names <- MCNames
  Paths <- MCPaths
  Data = {"x"}
  Counts <- MCCounts
  Operations <- NoDeletion
  Resets = TRUE
INVARIANTS
  EntriesBacked
  ZonesOwned
  CallsDoTheirJob
PROPERTIES
  FrameKept
