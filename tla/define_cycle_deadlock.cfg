\* A extends B and B extends A (a malformed dex file); two threads.
CONSTANTS
  Threads = {t1, t2}
  Descs = {"A", "B"}
  ArrayDescs = {}
  Component <- MCNoArrays
  SuperOf <- MCSuperCycle
  ObjectDesc = "O"
  MissingDescs = {}
  AllocFails = {}
  LinkFails = {}
  FailAfterResolve = {}
  MaxCalls = 1
  Image = {}
  MaxFailed = 0
  None = None
SPECIFICATION Spec
PROPERTY CallsReturn
CHECK_DEADLOCK FALSE
