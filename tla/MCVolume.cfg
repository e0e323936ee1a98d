SPECIFICATION VolumeSpec
CONSTANTS
  Name = {a, b}
  Direct = 2
  Indirect = 2
  BlockSize = 2
  PerBlock = 3
  BitsPerSector = 3
  MaxBlock = 6
  MaxINo = 2
  MaxDepth = 2
  Counts = {1, 3}
SYMMETRY Symmetry
INVARIANTS BlocksOwnedOnce RestartSafe EntriesLive ReadsBack CommandsResolve PanicExplained
