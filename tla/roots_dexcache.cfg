\* A copying collection after a dex file is registered.
CONSTANTS
  Mutators = {m1, m2}
  DexFiles = {"d1"}
  Classes = {C1, C2}
  DexOf <- MCDexOf
  None = None
  Collectors = {"SS"}
  MaxCycles = 1
SPECIFICATION Spec
INVARIANT DexCacheRootsValid
CHECK_DEADLOCK FALSE
