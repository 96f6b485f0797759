\* VerifyClass's second look at the superclass: B extends A, A's <clinit>
\* throws; one thread verifies B while another initializes A.
CONSTANTS
  Threads = {t1, t2}
  Classes = {"A", "B", "C"}
  Super <- MCSuperPair
  Uses <- MCUsesOther
  Verdict <- MCVerdictClean
  ClinitThrows = {"A"}
  MaxCalls = 1
  Modes <- MCModesStrict
  HasStatics = {"A", "B"}
  None = None
SPECIFICATION Spec
INVARIANT VerifyNeverAborts
\* The model stops once every thread has made MaxCalls calls.
CHECK_DEADLOCK FALSE
