\* One hart, two virtual pages that share a TLB entry, two PMP entries.
SPECIFICATION MmuSpec
CONSTANTS
  NPmp = 2
  MaxSector = 7
  PageSectors = 2
  AddrWrites <- MCAddrWrites
  CfgWrites <- MCCfgWrites
  SeccfgWrites <- MCSeccfgWrites
  NVpns = 2
  TLB_ENTRIES = 1
  RamPages = {0, 1}
  PteSector <- MCPteSector
  PteWrites <- MCPteWrites
  Adue = TRUE
  StatusWrites <- MCStatusWrites
  TriggerSets <- MCTriggerSets
INVARIANTS HitMatchesWalk DecodedMayRun TriggersNotSkipped
PROPERTIES LockedForever
