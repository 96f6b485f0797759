------------------------------ MODULE ClassInit ------------------------------
(***************************************************************************)
(* Class initialization in the ART class linker: EnsureInitialized,       *)
(* InitializeClass (the JLS 12.4.2 locking protocol), WaitForInitialize-  *)
(* Class and VerifyClass, for several mutator threads that share class    *)
(* objects, their status and their monitors.                              *)
(*                                                                         *)
(* Every class has been defined and linked (kStatusResolved) before the   *)
(* first call; ClassDefine models how it got there.  Each outermost call  *)
(* passes a mode <<can_init_statics, can_init_parents>> from Modes: the   *)
(* runtime passes <<TRUE, TRUE>>, the compiler also the others, which     *)
(* CanWeInitializeClass turns into a fast failure.  The compiler-only     *)
(* status kStatusRetryVerificationAtRuntime never occurs.  There is one   *)
(* class                                                                   *)
(* loader, so ValidateSuperClassDescriptors always succeeds.  A <clinit>  *)
(* is abstracted to the sequence of classes whose initialization it       *)
(* triggers (Uses) and whether it may throw (ClinitThrows); VerifyClass   *)
(* reads the class's status in the oat file and, unless that status says  *)
(* the class is verified, runs MethodVerifier, whose verdict is          *)
(* Verdict[c][2].                                                         *)
(***************************************************************************)
EXTENDS Naturals, Sequences, FiniteSets

Rel == INSTANCE Relation

CONSTANTS
  Threads,       \* mutator threads
  Classes,       \* class objects, all resolved
  Super,         \* Classes -> Classes \cup {None}; None is java.lang.Object
  Uses,          \* Classes -> Seq(Classes): classes <clinit> initializes
  Verdict,       \* Classes -> <<oat file class status, MethodVerifier failure>>
  ClinitThrows,  \* classes whose <clinit> may throw
  MaxCalls,      \* EnsureInitialized calls per thread
  Modes,         \* <<can_init_statics, can_init_parents>> of outermost calls
  HasStatics,    \* classes with a <clinit> or encoded static values
  None

(* Class statuses an oat file records, and MethodVerifier::FailureKind.   *)
OatStatus == {"kStatusNotReady", "kStatusRetryVerificationAtRuntime",
              "kStatusError", "kStatusVerified", "kStatusInitialized"}
Failure == {"kNoFailure", "kSoftFailure", "kHardFailure"}

ASSUME /\ Super \in [Classes -> Classes \cup {None}]
       /\ Uses \in [Classes -> Seq(Classes)]
       /\ Verdict \in [Classes -> OatStatus \X Failure]
       /\ ClinitThrows \subseteq Classes
       /\ MaxCalls \in Nat \ {0}
       /\ Modes \subseteq BOOLEAN \X BOOLEAN /\ HasStatics \subseteq Classes
       /\ \A c \in Classes \ HasStatics : Uses[c] = <<>> /\ c \notin ClinitThrows
       /\ None \notin Threads \cup Classes

(* mirror::Class::Status values a resolved class can reach at runtime.    *)
Status == {"Resolved", "Verifying", "Verified", "Initializing",
           "Initialized", "Error"}

VARIABLES
  status,      \* Classes -> Status: mirror::Class::status_
  clinitTid,   \* Classes -> Threads \cup {None}: clinit_thread_id_
  owner,       \* Classes -> Threads \cup {None}: owner of the class monitor
  depth,       \* Classes -> Nat: recursion count of the monitor
  waitSet,     \* Classes -> SUBSET Threads: threads in Wait() on the monitor
  stack,       \* Threads -> Seq(Frame): InitializeClass / VerifyClass frames
  ret,         \* Threads -> BOOLEAN: value returned by the last frame
  calls,       \* Threads -> Nat: EnsureInitialized calls made
  clinitRuns   \* Classes -> Nat: history, times <clinit> was invoked

vars == <<status, clinitTid, owner, depth, waitSet, stack, ret, calls,
          clinitRuns>>

Pcs == {"start", "lock", "check", "verifyRet", "waiting", "waitCheck",
        "super", "superRet", "clinit", "uses", "useRet", "finish",
        "vlock", "vcheck", "vsuperLock", "vsuper", "vsuperRet", "vown", "vabort"}

(* k indexes Uses[c] while <clinit> runs; exc is a pending exception;     *)
(* held is the recursion count Wait() gives back on wake-up; statics and  *)
(* parents are InitializeClass's can_init_statics and can_init_parents.   *)
Frame == [fn : {"Init", "Verify"}, c : Classes, pc : Pcs,
          k : Nat, exc : BOOLEAN, held : Nat,
          statics : BOOLEAN, parents : BOOLEAN]

TypeOK ==
  /\ status \in [Classes -> Status]
  /\ clinitTid \in [Classes -> Threads \cup {None}]
  /\ owner \in [Classes -> Threads \cup {None}]
  /\ depth \in [Classes -> Nat]
  /\ waitSet \in [Classes -> SUBSET Threads]
  /\ stack \in [Threads -> Seq(Frame)]
  /\ ret \in [Threads -> BOOLEAN]
  /\ calls \in [Threads -> 0..MaxCalls]
  /\ clinitRuns \in [Classes -> Nat]

-----------------------------------------------------------------------------
(* Helpers                                                                 *)

IsInitialized(c) == status[c] = "Initialized"
IsErroneous(c) == status[c] = "Error"
(* IsVerified, and IsCompileTimeVerified at runtime: status >= Verified.  *)
IsVerified(c) == status[c] \in {"Verified", "Initializing", "Initialized"}
Uninitialized == {c \in Classes : ~IsInitialized(c)}

Top(t) == stack[t][Len(stack[t])]
SetTop(t, f) == stack' = [stack EXCEPT ![t][Len(stack[t])] = f]
Call(t, pc, callee) ==
  stack' = [stack EXCEPT ![t] = Append([@ EXCEPT ![Len(@)].pc = pc], callee)]
Return(t, r) ==
  /\ stack' = [stack EXCEPT ![t] = SubSeq(@, 1, Len(@) - 1)]
  /\ ret' = [ret EXCEPT ![t] = r]

InitFrame(c, s, p) == [fn |-> "Init", c |-> c, pc |-> "start", k |-> 0,
                       exc |-> FALSE, held |-> 0, statics |-> s, parents |-> p]
VerifyFrame(c) == [fn |-> "Verify", c |-> c, pc |-> "vlock", k |-> 0,
                   exc |-> FALSE, held |-> 0, statics |-> TRUE,
                   parents |-> TRUE]

(* Class::SetStatus: a status change under the monitor is broadcast to    *)
(* the threads waiting on it (NotifyAll).                                  *)
SetStatus(c, s) ==
  /\ status' = [status EXCEPT ![c] = s]
  /\ waitSet' = [waitSet EXCEPT ![c] = {}]

(* ObjectLock constructor: monitor enter, reentrant.                      *)
CanLock(t, c) == owner[c] \in {None, t}
Lock(t, c) ==
  /\ owner' = [owner EXCEPT ![c] = t]
  /\ depth' = [depth EXCEPT ![c] = @ + 1]

(* ObjectLock destructors of the monitors in cs: monitor exit.             *)
UnlockAll(cs) ==
  /\ owner' = [c \in Classes |-> IF c \in cs /\ depth[c] = 1 THEN None
                                                             ELSE owner[c]]
  /\ depth' = [c \in Classes |-> IF c \in cs THEN depth[c] - 1 ELSE depth[c]]
Unlock(c) == UnlockAll({c})

(* Monitor::Wait: give the monitor up entirely and join its wait set.     *)
WaitOn(t, f) ==
  /\ owner' = [owner EXCEPT ![f.c] = None]
  /\ depth' = [depth EXCEPT ![f.c] = 0]
  /\ waitSet' = [waitSet EXCEPT ![f.c] = @ \cup {t}]
  /\ SetTop(t, [f EXCEPT !.pc = "waiting", !.held = depth[f.c]])

-----------------------------------------------------------------------------
(* EnsureInitialized(c, can_init_fields, can_init_parents): returns at    *)
(* once if c is initialized, otherwise calls InitializeClass with the     *)
(* same flags.                                                             *)
EnsureInitialized(t, c) ==
  /\ stack[t] = <<>>
  /\ calls[t] < MaxCalls
  /\ calls' = [calls EXCEPT ![t] = @ + 1]
  /\ IF IsInitialized(c)
       THEN ret' = [ret EXCEPT ![t] = TRUE] /\ UNCHANGED stack
       ELSE \E m \in Modes :
              /\ stack' = [stack EXCEPT ![t] = <<InitFrame(c, m[1], m[2])>>]
              /\ UNCHANGED ret
  /\ UNCHANGED <<status, clinitTid, owner, depth, waitSet, clinitRuns>>

(* InitializeClass: the unlocked IsInitialized test.                      *)
InitializeClassFast(t) ==
  LET f == Top(t) IN
  /\ f.pc = "start"
  /\ IsInitialized(f.c)
  /\ Return(t, TRUE)
  /\ UNCHANGED <<status, clinitTid, owner, depth, waitSet, calls, clinitRuns>>

(* CanWeInitializeClass: without can_init_statics the class and its      *)
(* superclasses must need no static initialization; without              *)
(* can_init_parents every superclass must already be initialized.  It     *)
(* reads the statuses without any lock.                                    *)
RECURSIVE CanWeInitializeClassNoParentTest(_, _, _)
(* Mutation: the superclass's IsInitialized test is dropped.              *)
CanWeInitializeClassNoParentTest(c, s, p) ==
  IF s /\ p THEN TRUE
  ELSE /\ s \/ c \notin HasStatics
       /\ Super[c] # None => CanWeInitializeClassNoParentTest(Super[c], s, p)

RECURSIVE CanWeInitializeClass(_, _, _)
CanWeInitializeClass(c, s, p) ==
  IF s /\ p THEN TRUE
  ELSE /\ s \/ c \notin HasStatics
       /\ Super[c] # None =>
            /\ p \/ IsInitialized(Super[c])
            /\ CanWeInitializeClass(Super[c], s, p)

(* Not initialized, and initialization needs a full runtime: fast fail,   *)
(* with no exception.                                                      *)
InitializeClassCannotInit(t) ==
  LET f == Top(t) IN
  /\ f.pc = "start"
  /\ ~IsInitialized(f.c)
  /\ ~CanWeInitializeClass(f.c, f.statics, f.parents)
  /\ Return(t, FALSE)
  /\ UNCHANGED <<status, clinitTid, owner, depth, waitSet, calls, clinitRuns>>

(* Not initialized, and CanWeInitializeClass holds: take the lock.        *)
InitializeClassSlow(t) ==
  LET f == Top(t) IN
  /\ f.pc = "start"
  /\ ~IsInitialized(f.c)
  /\ CanWeInitializeClass(f.c, f.statics, f.parents)
  /\ SetTop(t, [f EXCEPT !.pc = "lock"])
  /\ UNCHANGED <<status, clinitTid, owner, depth, waitSet, ret, calls,
                 clinitRuns>>

InitializeClassLock(t) ==
  LET f == Top(t) IN
  /\ f.pc = "lock"
  /\ CanLock(t, f.c)
  /\ Lock(t, f.c)
  /\ SetTop(t, [f EXCEPT !.pc = "check"])
  /\ UNCHANGED <<status, clinitTid, waitSet, ret, calls, clinitRuns>>

(* Under the lock: initialized by another thread meanwhile.               *)
InitializeClassDone(t) ==
  LET f == Top(t) IN
  /\ f.pc = "check"
  /\ IsInitialized(f.c)
  /\ Unlock(f.c)
  /\ Return(t, TRUE)
  /\ UNCHANGED <<status, clinitTid, waitSet, calls, clinitRuns>>

(* Under the lock: an earlier failure (ThrowEarlierClassFailure).         *)
InitializeClassErroneous(t) ==
  LET f == Top(t) IN
  /\ f.pc = "check"
  /\ IsErroneous(f.c)
  /\ Unlock(f.c)
  /\ Return(t, FALSE)
  /\ UNCHANGED <<status, clinitTid, waitSet, calls, clinitRuns>>

(* Not yet verified: VerifyClass(klass), still holding the lock.          *)
InitializeClassVerify(t) ==
  LET f == Top(t) IN
  /\ f.pc = "check"
  /\ ~IsVerified(f.c) /\ ~IsErroneous(f.c)
  /\ Call(t, "verifyRet", VerifyFrame(f.c))
  /\ UNCHANGED <<status, clinitTid, owner, depth, waitSet, ret, calls,
                 clinitRuns>>

(* Verification failed: the class is erroneous; return false.             *)
InitializeClassVerifyFailed(t) ==
  LET f == Top(t) IN
  /\ f.pc = "verifyRet"
  /\ ~IsVerified(f.c)
  /\ Unlock(f.c)
  /\ Return(t, FALSE)
  /\ UNCHANGED <<status, clinitTid, waitSet, calls, clinitRuns>>

(* Verified: continue with the kStatusInitializing test, still locked.    *)
InitializeClassVerified(t) ==
  LET f == Top(t) IN
  /\ f.pc = "verifyRet"
  /\ IsVerified(f.c)
  /\ SetTop(t, [f EXCEPT !.pc = "check"])
  /\ UNCHANGED <<status, clinitTid, owner, depth, waitSet, ret, calls,
                 clinitRuns>>

(* Mutation: the recursive-request test forgets to compare the thread.   *)
InitializeClassRecursiveAnyThread(t) ==
  LET f == Top(t) IN
  /\ f.pc = "check"
  /\ status[f.c] = "Initializing"
  /\ Unlock(f.c)
  /\ Return(t, TRUE)
  /\ UNCHANGED <<status, clinitTid, waitSet, calls, clinitRuns>>

(* kStatusInitializing by this thread, higher up its stack: return true.  *)
InitializeClassRecursive(t) ==
  LET f == Top(t) IN
  /\ f.pc = "check"
  /\ status[f.c] = "Initializing"
  /\ clinitTid[f.c] = t
  /\ Unlock(f.c)
  /\ Return(t, TRUE)
  /\ UNCHANGED <<status, clinitTid, waitSet, calls, clinitRuns>>

(* Mutation: the thread-id comparison is dropped, so a recursive request *)
(* may wait for the class its own thread is initializing.                  *)
InitializeClassWaitOnSelf(t) ==
  LET f == Top(t) IN
  /\ f.pc = "check"
  /\ status[f.c] = "Initializing"
  /\ WaitOn(t, f)
  /\ UNCHANGED <<status, clinitTid, ret, calls, clinitRuns>>

(* Mutation: Wait() does not hand the recursion count back on wake-up.    *)
InitializeClassWaitLosesCount(t) ==
  LET f == Top(t) IN
  /\ f.pc = "check"
  /\ status[f.c] = "Initializing"
  /\ clinitTid[f.c] # t
  /\ owner' = [owner EXCEPT ![f.c] = None]
  /\ depth' = [depth EXCEPT ![f.c] = 0]
  /\ waitSet' = [waitSet EXCEPT ![f.c] = @ \cup {t}]
  /\ SetTop(t, [f EXCEPT !.pc = "waiting", !.held = 0])
  /\ UNCHANGED <<status, clinitTid, ret, calls, clinitRuns>>

(* kStatusInitializing by another thread: WaitForInitializeClass.         *)
InitializeClassWait(t) ==
  LET f == Top(t) IN
  /\ f.pc = "check"
  /\ status[f.c] = "Initializing"
  /\ clinitTid[f.c] # t
  /\ WaitOn(t, f)
  /\ UNCHANGED <<status, clinitTid, ret, calls, clinitRuns>>

(* Mutation: the "verified" test (status >= kStatusVerified) is made     *)
(* before the kStatusInitializing test instead of after it.               *)
InitializeClassBeginWhenVerified(t) ==
  LET f == Top(t) IN
  /\ f.pc = "check"
  /\ IsVerified(f.c)
  /\ clinitTid' = [clinitTid EXCEPT ![f.c] = t]
  /\ SetStatus(f.c, "Initializing")
  /\ Unlock(f.c)
  /\ SetTop(t, [f EXCEPT !.pc = "super"])
  /\ UNCHANGED <<ret, calls, clinitRuns>>

(* Mutation: the frame goes straight to <clinit>, skipping the           *)
(* superclass initialization.                                              *)
InitializeClassBeginSkipsSuper(t) ==
  LET f == Top(t) IN
  /\ f.pc = "check"
  /\ status[f.c] = "Verified"
  /\ clinitTid' = [clinitTid EXCEPT ![f.c] = t]
  /\ SetStatus(f.c, "Initializing")
  /\ Unlock(f.c)
  /\ SetTop(t, [f EXCEPT !.pc = "clinit"])
  /\ UNCHANGED <<ret, calls, clinitRuns>>

(* Verified: this thread initializes.  It records itself as clinit       *)
(* thread, sets kStatusInitializing and releases the lock.                 *)
InitializeClassBegin(t) ==
  LET f == Top(t) IN
  /\ f.pc = "check"
  /\ status[f.c] = "Verified"
  /\ clinitTid' = [clinitTid EXCEPT ![f.c] = t]
  /\ SetStatus(f.c, "Initializing")
  /\ Unlock(f.c)
  /\ SetTop(t, [f EXCEPT !.pc = "super"])
  /\ UNCHANGED <<ret, calls, clinitRuns>>

-----------------------------------------------------------------------------
(* WaitForInitializeClass.  Notified by SetStatus, or woken spuriously    *)
(* (WaitSpurious, in Next), the thread re-acquires the monitor with its   *)
(* recursion count and re-tests the status.                               *)
WaitReacquire(t) ==
  LET f == Top(t) IN
  /\ f.pc = "waiting"
  /\ t \notin waitSet[f.c]
  /\ owner[f.c] = None
  /\ owner' = [owner EXCEPT ![f.c] = t]
  /\ depth' = [depth EXCEPT ![f.c] = f.held]
  /\ SetTop(t, [f EXCEPT !.pc = "waitCheck"])
  /\ UNCHANGED <<status, clinitTid, waitSet, ret, calls, clinitRuns>>

WaitSpurious(t) ==
  LET f == Top(t) IN
  /\ stack[t] # <<>>
  /\ f.pc = "waiting"
  /\ t \in waitSet[f.c]
  /\ waitSet' = [waitSet EXCEPT ![f.c] = @ \ {t}]
  /\ UNCHANGED <<status, clinitTid, owner, depth, stack, ret, calls,
                 clinitRuns>>

(* Still kStatusInitializing (a spurious wakeup): wait again.             *)
WaitAgain(t) ==
  LET f == Top(t) IN
  /\ f.pc = "waitCheck"
  /\ status[f.c] = "Initializing"
  /\ WaitOn(t, f)
  /\ UNCHANGED <<status, clinitTid, ret, calls, clinitRuns>>

(* Mutation: any wake-up that does not find the class initialized is      *)
(* taken as a failure (no loop for spurious wake-ups).                    *)
WaitFailedOnAnyWake(t) ==
  LET f == Top(t) IN
  /\ f.pc = "waitCheck"
  /\ ~IsInitialized(f.c)
  /\ Unlock(f.c)
  /\ Return(t, FALSE)
  /\ UNCHANGED <<status, clinitTid, waitSet, calls, clinitRuns>>

(* <clinit> failed in the other thread: NoClassDefFoundError.             *)
WaitFailed(t) ==
  LET f == Top(t) IN
  /\ f.pc = "waitCheck"
  /\ IsErroneous(f.c)
  /\ Unlock(f.c)
  /\ Return(t, FALSE)
  /\ UNCHANGED <<status, clinitTid, waitSet, calls, clinitRuns>>

WaitDone(t) ==
  LET f == Top(t) IN
  /\ f.pc = "waitCheck"
  /\ IsInitialized(f.c)
  /\ Unlock(f.c)
  /\ Return(t, TRUE)
  /\ UNCHANGED <<status, clinitTid, waitSet, calls, clinitRuns>>

(* Mutation: the superclass is skipped once it is merely verified.        *)
InitializeSuperReadyWhenVerified(t) ==
  LET f == Top(t) IN
  /\ f.pc = "super"
  /\ Super[f.c] \in {None} \cup {s \in Classes : IsVerified(s)}
  /\ SetTop(t, [f EXCEPT !.pc = "clinit"])
  /\ UNCHANGED <<status, clinitTid, owner, depth, waitSet, ret, calls,
                 clinitRuns>>

-----------------------------------------------------------------------------
(* Superclass first, with the class's lock released.                       *)
InitializeSuper(t) ==
  LET f == Top(t) IN
  /\ f.pc = "super"
  /\ Super[f.c] \in Uninitialized
  /\ Call(t, "superRet", InitFrame(Super[f.c], f.statics, TRUE))
  /\ UNCHANGED <<status, clinitTid, owner, depth, waitSet, ret, calls,
                 clinitRuns>>

InitializeSuperReady(t) ==
  LET f == Top(t) IN
  /\ f.pc = "super"
  /\ Super[f.c] \notin Uninitialized
  /\ SetTop(t, [f EXCEPT !.pc = "clinit"])
  /\ UNCHANGED <<status, clinitTid, owner, depth, waitSet, ret, calls,
                 clinitRuns>>

(* The superclass failed: under the class's lock, kStatusError.           *)
InitializeSuperFailed(t) ==
  LET f == Top(t) IN
  /\ f.pc = "superRet"
  /\ ~ret[t]
  /\ CanLock(t, f.c)
  /\ SetStatus(f.c, "Error")
  /\ Return(t, FALSE)
  /\ UNCHANGED <<clinitTid, owner, depth, calls, clinitRuns>>

InitializeSuperDone(t) ==
  LET f == Top(t) IN
  /\ f.pc = "superRet"
  /\ ret[t]
  /\ SetTop(t, [f EXCEPT !.pc = "clinit"])
  /\ UNCHANGED <<status, clinitTid, owner, depth, waitSet, ret, calls,
                 clinitRuns>>

(* The encoded static values are stored and clinit->Invoke starts, with  *)
(* no class lock held; for a class outside HasStatics both are no-ops.    *)
InvokeClinit(t) ==
  LET f == Top(t) IN
  /\ f.pc = "clinit"
  /\ clinitRuns' = [clinitRuns EXCEPT ![f.c] = @ + 1]
  /\ SetTop(t, [f EXCEPT !.pc = "uses", !.k = 1])
  /\ UNCHANGED <<status, clinitTid, owner, depth, waitSet, ret, calls>>

(* <clinit> touches the next class it uses: EnsureInitialized(u).         *)
ClinitUse(t) ==
  LET f == Top(t) IN
  /\ f.pc = "uses"
  /\ ~f.exc /\ f.k <= Len(Uses[f.c])
  /\ IF IsInitialized(Uses[f.c][f.k])
       THEN SetTop(t, [f EXCEPT !.k = @ + 1])
       ELSE Call(t, "useRet", InitFrame(Uses[f.c][f.k], TRUE, TRUE))
  /\ UNCHANGED <<status, clinitTid, owner, depth, waitSet, ret, calls,
                 clinitRuns>>

(* A failed initialization of a used class throws inside <clinit>.        *)
ClinitUseReturned(t) ==
  LET f == Top(t) IN
  /\ f.pc = "useRet"
  /\ SetTop(t, [f EXCEPT !.pc = "uses", !.k = @ + 1, !.exc = ~ret[t]])
  /\ UNCHANGED <<status, clinitTid, owner, depth, waitSet, ret, calls,
                 clinitRuns>>

(* <clinit> returns, propagates an exception, or throws one itself.       *)
ClinitReturns(t) ==
  LET f == Top(t) IN
  /\ f.pc = "uses"
  /\ f.exc \/ f.k > Len(Uses[f.c])
  /\ \E throws \in IF f.c \in ClinitThrows THEN BOOLEAN ELSE {FALSE} :
       SetTop(t, [f EXCEPT !.pc = "finish", !.exc = @ \/ throws])
  /\ UNCHANGED <<status, clinitTid, owner, depth, waitSet, ret, calls,
                 clinitRuns>>

(* Under the class's lock: an exception is pending, so it is wrapped in   *)
(* ExceptionInInitializerError and the class becomes erroneous.            *)
InitializeClassFailed(t) ==
  LET f == Top(t) IN
  /\ f.pc = "finish"
  /\ f.exc
  /\ CanLock(t, f.c)
  /\ SetStatus(f.c, "Error")
  /\ Return(t, FALSE)
  /\ UNCHANGED <<clinitTid, owner, depth, calls, clinitRuns>>

(* Under the class's lock: kStatusInitialized, then FixupStaticTrampolines *)
(* (3526), whose writes touch only entry points, which are not modelled.  *)
InitializeClassSucceeded(t) ==
  LET f == Top(t) IN
  /\ f.pc = "finish"
  /\ ~f.exc
  /\ CanLock(t, f.c)
  /\ SetStatus(f.c, "Initialized")
  /\ Return(t, TRUE)
  /\ UNCHANGED <<clinitTid, owner, depth, calls, clinitRuns>>

-----------------------------------------------------------------------------
(* VerifyClass(klass), called with klass's lock held; it locks it again.  *)
VerifyClassLock(t) ==
  LET f == Top(t) IN
  /\ f.pc = "vlock"
  /\ CanLock(t, f.c)
  /\ Lock(t, f.c)
  /\ SetTop(t, [f EXCEPT !.pc = "vcheck"])
  /\ UNCHANGED <<status, clinitTid, waitSet, ret, calls, clinitRuns>>

(* kStatusResolved -> kStatusVerifying; then the superclass, if any.      *)
(* The early returns for a verified or erroneous class are not steps: both *)
(* callers test the same condition under the same monitor, so a frame that *)
(* reached them would have no step, and CallsReturnUnlessInitCycle would  *)
(* fail.                                                                   *)
VerifyClassStart(t) ==
  LET f == Top(t) IN
  /\ f.pc = "vcheck"
  /\ status[f.c] = "Resolved"
  /\ SetStatus(f.c, "Verifying")
  /\ SetTop(t, [f EXCEPT !.pc = IF Super[f.c] = None THEN "vown"
                                                    ELSE "vsuperLock"])
  /\ UNCHANGED <<clinitTid, owner, depth, ret, calls, clinitRuns>>

(* "Acquire lock to prevent races on verifying the super class."          *)
VerifySuperLock(t) ==
  LET f == Top(t) IN
  /\ f.pc = "vsuperLock"
  /\ CanLock(t, Super[f.c])
  /\ Lock(t, Super[f.c])
  /\ SetTop(t, [f EXCEPT !.pc = "vsuper"])
  /\ UNCHANGED <<status, clinitTid, waitSet, ret, calls, clinitRuns>>

VerifySuper(t) ==
  LET f == Top(t) IN
  /\ f.pc = "vsuper"
  /\ ~IsVerified(Super[f.c]) /\ ~IsErroneous(Super[f.c])
  /\ Call(t, "vsuperRet", VerifyFrame(Super[f.c]))
  /\ UNCHANGED <<status, clinitTid, owner, depth, waitSet, ret, calls,
                 clinitRuns>>

VerifySuperSettled(t) ==
  LET f == Top(t) IN
  /\ f.pc = "vsuper"
  /\ IsVerified(Super[f.c]) \/ IsErroneous(Super[f.c])
  /\ SetTop(t, [f EXCEPT !.pc = "vsuperRet"])
  /\ UNCHANGED <<status, clinitTid, owner, depth, waitSet, ret, calls,
                 clinitRuns>>

(* "Rejecting class ... that attempts to sub-class erroneous class":      *)
(* kStatusError; both ObjectLocks go out of scope.                          *)
VerifySuperRejected(t) ==
  LET f == Top(t) IN
  /\ f.pc = "vsuperRet"
  /\ ~IsVerified(Super[f.c])
  /\ SetStatus(f.c, "Error")
  /\ UnlockAll({f.c, Super[f.c]})
  /\ Return(t, ret[t])
  /\ UNCHANGED <<clinitTid, calls, clinitRuns>>

VerifySuperAccepted(t) ==
  LET f == Top(t) IN
  /\ f.pc = "vsuperRet"
  /\ IsVerified(Super[f.c])
  /\ Unlock(Super[f.c])
  /\ SetTop(t, [f EXCEPT !.pc = "vown"])
  /\ UNCHANGED <<status, clinitTid, waitSet, ret, calls, clinitRuns>>

(* VerifyClassUsingOatFile at runtime (the compiler-only early returns    *)
(* not taken): the class is preverified when the oat file recorded it as  *)
(* verified or initialized; its status in the oat file is returned too.  *)
VerifyClassUsingOatFile(c) == Verdict[c][1] \in {"kStatusVerified", "kStatusInitialized"}

(* verifier_failure: kNoFailure when preverified, else MethodVerifier's.  *)
VerifierFailure(c) ==
  IF VerifyClassUsingOatFile(c) THEN "kNoFailure" ELSE Verdict[c][2]

(* The oat file says kStatusError: rejected without running the verifier. *)
VerifyClassOatError(t) ==
  LET f == Top(t) IN
  /\ f.pc = "vown"
  /\ Verdict[f.c][1] = "kStatusError"
  /\ SetStatus(f.c, "Error")
  /\ Unlock(f.c)
  /\ Return(t, ret[t])
  /\ UNCHANGED <<clinitTid, calls, clinitRuns>>

(* MethodVerifier reports a hard failure: kStatusError.                    *)
VerifyClassFailed(t) ==
  LET f == Top(t) IN
  /\ f.pc = "vown"
  /\ Verdict[f.c][1] # "kStatusError"
  /\ VerifierFailure(f.c) = "kHardFailure"
  /\ SetStatus(f.c, "Error")
  /\ Unlock(f.c)
  /\ Return(t, ret[t])
  /\ UNCHANGED <<clinitTid, calls, clinitRuns>>

(* A soft failure at runtime: kStatusVerified, with no second look at the *)
(* superclass (the slow paths of the generated code handle the rest).    *)
VerifyClassSoftFailure(t) ==
  LET f == Top(t) IN
  /\ f.pc = "vown"
  /\ Verdict[f.c][1] # "kStatusError"
  /\ VerifierFailure(f.c) = "kSoftFailure"
  /\ SetStatus(f.c, "Verified")
  /\ Unlock(f.c)
  /\ Return(t, ret[t])
  /\ UNCHANGED <<clinitTid, calls, clinitRuns>>

(* No failure, or preverified: kStatusVerified after a second look at the *)
(* superclass, whose lock was released after the superclass step.        *)
NoFailure(c) ==
  Verdict[c][1] # "kStatusError" /\ VerifierFailure(c) = "kNoFailure"

(* VerifyClass's unlocked second look: super->IsVerified().             *)
SuperStillVerified(c) == IF Super[c] = None THEN TRUE ELSE IsVerified(Super[c])

VerifyClassPassed(t) ==
  LET f == Top(t) IN
  /\ f.pc = "vown"
  /\ NoFailure(f.c)
  /\ SuperStillVerified(f.c)
  /\ SetStatus(f.c, "Verified")
  /\ Unlock(f.c)
  /\ Return(t, ret[t])
  /\ UNCHANGED <<clinitTid, calls, clinitRuns>>

(* The superclass is no longer verified: CHECK_EQ(super->GetStatus(),     *)
(* kStatusRetryVerificationAtRuntime), a compiler-only status, fails and  *)
(* the runtime aborts.                                                     *)
VerifyClassSuperNotVerified(t) ==
  LET f == Top(t) IN
  /\ f.pc = "vown"
  /\ NoFailure(f.c)
  /\ ~SuperStillVerified(f.c)
  /\ SetTop(t, [f EXCEPT !.pc = "vabort"])
  /\ UNCHANGED <<status, clinitTid, owner, depth, waitSet, ret, calls,
                 clinitRuns>>

-----------------------------------------------------------------------------
(* A failed CHECK has aborted the runtime: no thread takes another step.  *)
Aborted == \E t \in Threads : stack[t] # <<>> /\ Top(t).pc = "vabort"

Running(t) == stack[t] # <<>> /\ ~Aborted

Step(t) ==
  \/ Running(t) /\ InitializeClassFast(t)
  \/ Running(t) /\ InitializeClassSlow(t)
  \/ Running(t) /\ InitializeClassLock(t)
  \/ Running(t) /\ InitializeClassDone(t)
  \/ Running(t) /\ InitializeClassErroneous(t)
  \/ Running(t) /\ InitializeClassVerify(t)
  \/ Running(t) /\ InitializeClassVerifyFailed(t)
  \/ Running(t) /\ InitializeClassVerified(t)
  \/ Running(t) /\ InitializeClassRecursive(t)
  \/ Running(t) /\ InitializeClassWait(t)
  \/ Running(t) /\ InitializeClassBegin(t)
  \/ Running(t) /\ WaitReacquire(t)
  \/ Running(t) /\ WaitAgain(t)
  \/ Running(t) /\ WaitFailed(t)
  \/ Running(t) /\ WaitDone(t)
  \/ Running(t) /\ InitializeSuper(t)
  \/ Running(t) /\ InitializeSuperReady(t)
  \/ Running(t) /\ InitializeSuperFailed(t)
  \/ Running(t) /\ InitializeSuperDone(t)
  \/ Running(t) /\ InitializeClassCannotInit(t)
  \/ Running(t) /\ InvokeClinit(t)
  \/ Running(t) /\ ClinitUse(t)
  \/ Running(t) /\ ClinitUseReturned(t)
  \/ Running(t) /\ ClinitReturns(t)
  \/ Running(t) /\ InitializeClassFailed(t)
  \/ Running(t) /\ InitializeClassSucceeded(t)
  \/ Running(t) /\ VerifyClassLock(t)
  \/ Running(t) /\ VerifyClassStart(t)
  \/ Running(t) /\ VerifySuperLock(t)
  \/ Running(t) /\ VerifySuper(t)
  \/ Running(t) /\ VerifySuperSettled(t)
  \/ Running(t) /\ VerifySuperRejected(t)
  \/ Running(t) /\ VerifySuperAccepted(t)
  \/ Running(t) /\ VerifyClassOatError(t)
  \/ Running(t) /\ VerifyClassFailed(t)
  \/ Running(t) /\ VerifyClassSoftFailure(t)
  \/ Running(t) /\ VerifyClassPassed(t)
  \/ Running(t) /\ VerifyClassSuperNotVerified(t)

Init ==
  /\ status = [c \in Classes |-> "Resolved"]
  /\ clinitTid = [c \in Classes |-> None]
  /\ owner = [c \in Classes |-> None]
  /\ depth = [c \in Classes |-> 0]
  /\ waitSet = [c \in Classes |-> {}]
  /\ stack = [t \in Threads |-> <<>>]
  /\ ret = [t \in Threads |-> FALSE]
  /\ calls = [t \in Threads |-> 0]
  /\ clinitRuns = [c \in Classes |-> 0]

Next ==
  \/ \E t \in Threads, c \in Classes : EnsureInitialized(t, c)
  \/ \E t \in Threads : Step(t)
  \/ \E t \in Threads : ~Aborted /\ WaitSpurious(t)

(* A runnable thread eventually runs, and a thread that finds a monitor   *)
(* free again and again eventually gets it (strong fairness).  Spurious   *)
(* wakeups may happen but are never forced.                                *)
Fairness == \A t \in Threads : SF_vars(Step(t))

Spec == Init /\ [][Next]_vars /\ Fairness

-----------------------------------------------------------------------------
(* Properties                                                              *)

(* <clinit> of a class is invoked at most once, however many threads race *)
(* in InitializeClass: the re-test under the lock, the kStatusInitializing *)
(* hand-off to WaitForInitializeClass and the recursive-request shortcut   *)
(* together keep a second thread or a second frame out.                     *)
ClinitAtMostOnce == \A c \in Classes : clinitRuns[c] <= 1

(* While the <clinit> of a class runs, its superclass is initialized, or  *)
(* it is being initialized by the same thread further up the stack (the   *)
(* JLS recursive request): InitializeClass initializes superclasses first. *)
SuperInitializedFirst ==
  \A t \in Threads : \A i \in 1..Len(stack[t]) :
    LET f == stack[t][i] IN
    f.fn = "Init" /\ f.pc \in {"uses", "useRet", "finish"} /\ Super[f.c] # None
      => \/ IsInitialized(Super[f.c])
         \/ status[Super[f.c]] = "Initializing" /\ clinitTid[Super[f.c]] = t

(* When InitializeClass of the superclass returns false, the superclass   *)
(* is erroneous: the CHECK at that point in InitializeClass holds even    *)
(* with waiters woken spuriously or by another thread's failure.           *)
SuperFailureMeansErroneous ==
  \A t \in Threads :
    Running(t) /\ Top(t).pc = "superRet" /\ ~ret[t]
      => IsErroneous(Super[Top(t).c])

(* An EnsureInitialized call that returns true to its caller (the outer-  *)
(* most frame) leaves the class initialized: no thread proceeds to use a  *)
(* class another thread is still initializing.                             *)
InitializedWhenEnsured ==
  [][\A t \in Threads :
       (Len(stack[t]) = 1 /\ stack'[t] = <<>> /\ ret'[t])
         => status'[stack[t][1].c] = "Initialized"]_vars

(* The CHECKs of InitializeClass on its flags never fail: a superclass   *)
(* still uninitialized when the frame reaches it was allowed by           *)
(* can_init_parents (3452), and static values and <clinit> run only with  *)
(* can_init_statics (3481, 3497).  CanWeInitializeClass decides this      *)
(* before the lock, from statuses other threads keep changing.             *)
CompilerChecksHold ==
  \A t \in Threads : \A i \in 1..Len(stack[t]) :
    LET f == stack[t][i] IN
    f.fn = "Init" =>
      /\ f.pc = "super" /\ Super[f.c] \in Uninitialized => f.parents
      /\ f.pc = "clinit" /\ f.c \in HasStatics => f.statics

(* The monitor a thread's next step must enter: InitializeClass's         *)
(* ObjectLock, the re-entry after Wait(), the lock taken to record the     *)
(* outcome, and VerifyClass's locks on the class and its superclass.       *)
LockWanted(t) ==
  LET f == Top(t) IN
  CASE f.pc \in {"lock", "vlock", "finish"} -> f.c
    [] f.pc = "superRet" /\ ~ret[t] -> f.c
    [] f.pc = "waiting" /\ t \notin waitSet[f.c] -> f.c
    [] f.pc = "vsuperLock" -> Super[f.c]
    [] OTHER -> None

(* t cannot step until u does: u holds the monitor t must enter, or t is  *)
(* in WaitForInitializeClass on a class u is initializing.                 *)
WaitsFor ==
  [p \in Threads \X Threads |->
     LET t == p[1]  u == p[2] IN
     /\ t # u /\ Running(t)
     /\ \/ LockWanted(t) # None /\ owner[LockWanted(t)] = u
        \/ /\ Top(t).pc \in {"waiting", "waitCheck"}
           /\ status[Top(t).c] = "Initializing"
           /\ clinitTid[Top(t).c] = u]

(* t waits, directly or through other threads, on a cycle of threads each *)
(* waiting for the next: the JLS class-initialization deadlock.            *)
BlockedOnCycle(t) ==
  LET tc == Rel!TransitiveClosure(WaitsFor, Threads) IN
  \E u \in Threads : (t = u \/ tc[t, u]) /\ tc[u, u]

(* Every EnsureInitialized call returns unless its thread is caught in a  *)
(* cycle of initializations of different threads waiting for each other   *)
(* (A's <clinit> needs B in one thread while B, or its superclass chain,  *)
(* needs A in another), which JLS 12.4.2 permits.  Without a cycle, every *)
(* wait ends: the initializing thread's final SetStatus notifies the      *)
(* waiters, each monitor is released, and a recursive request of the     *)
(* same thread never waits on itself.                                      *)
CallsReturnUnlessInitCycle ==
  \A t \in Threads : Running(t) ~> (~Running(t) \/ BlockedOnCycle(t))

-----------------------------------------------------------------------------
(* VerifyClass never fails its CHECK on the superclass: a class whose own *)
(* verification passed finds its superclass still verified (or, in the    *)
(* compiler, awaiting runtime verification).  The superclass's lock was   *)
(* released before the class's own verification, so the superclass's     *)
(* <clinit> can meanwhile throw in another thread and make it erroneous.   *)
VerifyNeverAborts == ~Aborted

-----------------------------------------------------------------------------
(* Refinement.  Verification states are "not yet initialized" to the      *)
(* abstract specification; kStatusInitializing stands for the thread in   *)
(* clinit_thread_id_; a class's <clinit> has run once it was invoked.      *)
AbsState(c) ==
  CASE status[c] \in {"Resolved", "Verifying", "Verified"} -> "Uninit"
    [] status[c] = "Initializing" -> clinitTid[c]
    [] status[c] = "Initialized" -> "Done"
    [] status[c] = "Error" -> "Error"

Abs == INSTANCE ClassInitAbstract
         WITH state <- [c \in Classes |-> AbsState(c)],
              ran <- [c \in Classes |-> clinitRuns[c] > 0]

(* InitializeClass, with its locks, waits, recursive requests and         *)
(* verification, implements atomic JLS initialization: each class is      *)
(* claimed by one thread, runs <clinit> once after its superclass is      *)
(* initialized, and only then ends initialized; it ends erroneous only    *)
(* from being initialized or from failed verification.                     *)
ImplementsAbstractInit == Abs!Spec

=============================================================================
