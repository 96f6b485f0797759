\* Two threads resolve classes concurrently, with the error paths: C extends
\* itself, D fails to be allocated, B (extends A) fails to link,
\* the array [A fails to be allocated, and A may become erroneous after it
\* was resolved.  The runtime starts from a boot image holding A; a second
\* failed image lookup moves the image classes into the class table.
CONSTANTS
  Threads = {t1, t2}
  Descs = {"A", "B", "C", "D"}
  ArrayDescs = {"[A"}
  Component <- MCComponent
  SuperOf <- MCSuperErrors
  ObjectDesc = "O"
  MissingDescs = {"M"}
  AllocFails = {"D", "[A"}
  LinkFails = {"B"}
  FailAfterResolve = {"A"}
  MaxCalls = 1
  Image = {"A"}
  MaxFailed = 1
  None = None
SPECIFICATION Spec
INVARIANT TypeOK
INVARIANT OneClassPerDescriptor
INVARIANT ImageClassesCanonical
PROPERTY LookupClassesSeesImage
INVARIANT HandedOutClassIsTableEntry
INVARIANT EnsureResolvedNeverWaits
PROPERTY CallsReturn
\* The model stops once every thread has made MaxCalls calls; a thread that
\* blocks for ever is caught by CallsReturn instead.
CHECK_DEADLOCK FALSE
