\* Two threads initialize A, its subclass B and grandchild C concurrently.
\* A's <clinit> initializes B; A's and B's may throw.  A soft-fails the
\* verifier, B is preverified, D fails it hard and the oat file rejects E.
\* Outermost calls use any mode of the runtime or the compiler.
CONSTANTS
  Threads = {t1, t2}
  Classes = {"A", "B", "C", "D", "E"}
  Super <- MCSuper
  Uses <- MCUsesSub
  Verdict <- MCVerdictMixed
  ClinitThrows = {"A", "B"}
  MaxCalls = 1
  Modes <- MCModesAll
  HasStatics = {"A", "B"}
  None = None
SPECIFICATION Spec
INVARIANT TypeOK
INVARIANT ClinitAtMostOnce
INVARIANT SuperInitializedFirst
INVARIANT CompilerChecksHold
INVARIANT SuperFailureMeansErroneous
PROPERTY InitializedWhenEnsured
PROPERTY ImplementsAbstractInit
PROPERTY CallsReturnUnlessInitCycle
\* The model stops once every thread has made MaxCalls calls.
CHECK_DEADLOCK FALSE
