\* A is resolved through C extends A, then becomes erroneous; B extends A.
CONSTANTS
  Threads = {t1, t2}
  Descs = {"A", "B", "C"}
  ArrayDescs = {}
  Component <- MCNoArrays
  SuperOf <- MCSuperShared
  ObjectDesc = "O"
  MissingDescs = {}
  AllocFails = {}
  LinkFails = {}
  FailAfterResolve = {"A"}
  MaxCalls = 2
  Image = {}
  MaxFailed = 0
  None = None
SPECIFICATION Spec
INVARIANT NoAbort
\* The model stops once every thread has made MaxCalls calls.
CHECK_DEADLOCK FALSE
