CONSTANTS
  Decode <- MCDecode
  MinLength = 2
  Slots <- MCSlots
  Workloads <- MCWorkloads
  Sites <- MCSites
  Addrs <- MCAddrs
  FsRoot <- MCFsRoot
  FsTree <- MCFsTree
  Disks <- MCDisks
  FsFile <- MCFsFile
  ChunkSize = 2
  MaxDisk = 3
  Rank <- MCRank
  Configs <- MCConfigs
  Requests <- MCRequests
  Oracles <- MCOracles
  MaxGroups = 4
  MaxReloads = 1
  MaxDepth = 4
SPECIFICATION Spec
INVARIANTS RightBytes RightRepresentation LookupsAgree RightAnswer MatchersSound
