\* Two threads register a dex file (racing) and define two of its classes
\* while the collector runs two cycles: a concurrent mark-sweep or a
\* stop-the-world copying collector, chosen in Init.
CONSTANTS
  Mutators = {m1, m2}
  DexFiles = {"d1"}
  Classes = {C1, C2}
  DexOf <- MCDexOf
  None = None
  Collectors = {"CMS", "SS"}
  MaxCycles = 2
SPECIFICATION Spec
INVARIANT TypeOK
INVARIANT ClassTableRootsValid
INVARIANT DexCacheCoherent
INVARIANT LoggedDexCachesMarked
\* The model stops after MaxCycles collections and when a collection faults.
CHECK_DEADLOCK FALSE
