---------------------------- MODULE ClassDefine ----------------------------
(***************************************************************************)
(* Concurrent class definition in ClassLinker (class_linker.cc, bundled in *)
(* src/runtime/mem_map.h): ResolveType -> FindClass -> DefineClass ->      *)
(* LoadSuperAndInterfaces -> LinkClass, the race on the class table       *)
(* (InsertClass), the per-class monitor and EnsureResolved, and           *)
(* CreateArrayClass.  Every mutator thread runs one resolution call at a  *)
(* time; the call stack of a thread is a sequence of frames so that the   *)
(* recursion FindClass(sub) -> ResolveType(super) -> FindClass(super) is  *)
(* interleaved step by step with the other threads.                       *)
(*                                                                         *)
(* Abstractions: a single (boot) class loader, so a class table key is    *)
(* the descriptor alone; one dex file, so one dex cache; interfaces are   *)
(* resolved like the superclass and are left out; every exception a      *)
(* linking step can throw (IllegalAccessError, IncompatibleClassChange-   *)
(* Error, LinkageError, ClassFormatError, OOME) follows the same control  *)
(* path, so one branch per step stands for all of them.                   *)
(***************************************************************************)
EXTENDS Naturals, Sequences, FiniteSets

CONSTANTS
  Threads,          \* mutator threads calling into the linker
  Descs,            \* descriptors of classes defined in the boot class path
  ArrayDescs,       \* array descriptors ("[...")
  Component,        \* ArrayDescs -> descriptors: descriptor + 1
  SuperOf,          \* Descs -> descriptors: class_def.superclass_idx_
  ObjectDesc,       \* Ljava/lang/Object;, a class root present before any call
  MissingDescs,     \* descriptors found in no dex file of the class path
  AllocFails,       \* classes whose AllocClass / LoadClass may fail (OOME, ...)
  LinkFails,        \* classes whose LoadSuperAndInterfaces / LinkClass throws
  FailAfterResolve, \* resolved classes that may later become erroneous
                    \* (hard verify failure or a throwing <clinit>)
  MaxCalls,         \* resolution calls issued per thread
  Image,            \* boot classes the boot image's dex caches hold resolved
  MaxFailed,        \* kMaxFailedDexCacheLookups
  None              \* model value: null thread id, null class

AllDescs == Descs \cup ArrayDescs \cup MissingDescs \cup {ObjectDesc}

ASSUME /\ Component \in [ArrayDescs -> Descs \cup {ObjectDesc}]
       /\ SuperOf \in [Descs -> Descs \cup MissingDescs \cup {ObjectDesc}]
       /\ MaxCalls \in Nat \ {0}
       /\ Image \subseteq Descs /\ MaxFailed \in Nat
       /\ \A d \in Image : SuperOf[d] \in Image \cup {ObjectDesc}
       /\ None \notin Threads

(* A class object is named by the thread that allocated it, its           *)
(* descriptor and the number of the call during which it was allocated:   *)
(* two threads racing in DefineClass allocate two distinct objects.       *)
(* The classes of the boot image exist before any call, like Object.      *)
ObjectClass == <<None, ObjectDesc, 0>>
ImageClass(d) == <<None, d, 0>>
ImageClasses == {ImageClass(d) : d \in Image}
Obj == (Threads \X (Descs \cup ArrayDescs) \X (1..MaxCalls))
         \cup {ObjectClass} \cup ImageClasses
DescOf(o) == o[2]

(* mirror::Class::Status values used here; "Absent" is a not yet          *)
(* allocated object.  "Resolved" stands for every status from             *)
(* kStatusResolved up to kStatusInitializing: verification and           *)
(* initialization are the ClassInit module's business.                   *)
Status == {"Absent", "Error", "Idx", "Loaded", "Resolved", "Initialized"}

VARIABLES
  status,        \* Obj -> Status: mirror::Class::status_
  clinitTid,     \* Obj -> Threads \cup {None}: clinit_thread_id_
  owner,         \* Obj -> Threads \cup {None}: owner of the class monitor
  depth,         \* Obj -> Nat: recursion count of the monitor
  superOf,       \* Obj -> Obj \cup {None}: super_class_
  table,         \* SUBSET Obj: class_table_ (a multimap keyed by descriptor)
  resolvedTypes, \* AllDescs -> Obj \cup {None}: DexCache resolved types
  stack,         \* Threads -> Seq(Frame): the thread's linker call stack
  ret,           \* Threads -> Obj \cup {None}: value returned by last frame
  calls,         \* Threads -> Nat: resolution calls started
  results,       \* set of <<descriptor, class>>: what callers received
  aborted,       \* a CHECK failed: the runtime aborted
  imageRequired, \* dex_cache_image_class_lookup_required_
  failed,        \* failed_dex_cache_class_lookups_
  failedRead,    \* Threads -> Nat: the counter value a thread read before ++
  dbg            \* the debugger's LookupClasses call: descriptor and pc

lookupVars == <<imageRequired, failed, failedRead, dbg>>
vars == <<status, clinitTid, owner, depth, superOf, table,
          resolvedTypes, stack, ret, calls, results, aborted, lookupVars>>

Pcs == {"resolve", "resolveRet", "lookup", "fallback", "countFailure",
        "move", "notLoaded", "insert", "super", "superRet",
        "link", "ensure", "ensureLock", "ensureCheck",
        "ensureResult", "ensureAssert", "arrayCreate"}
Frame == [fn : {"ResolveType", "FindClass"}, d : AllDescs,
          o : Obj \cup {None}, pc : Pcs]

TypeOK ==
  /\ status \in [Obj -> Status]
  /\ clinitTid \in [Obj -> Threads \cup {None}]
  /\ owner \in [Obj -> Threads \cup {None}]
  /\ depth \in [Obj -> Nat]
  /\ superOf \in [Obj -> Obj \cup {None}]
  /\ table \subseteq Obj
  /\ resolvedTypes \in [AllDescs -> Obj \cup {None}]
  /\ stack \in [Threads -> Seq(Frame)]
  /\ ret \in [Threads -> Obj \cup {None}]
  /\ calls \in [Threads -> 0..MaxCalls]
  /\ results \subseteq (AllDescs \X (Obj \cup {None}))
  /\ aborted \in BOOLEAN
  /\ imageRequired \in BOOLEAN
  /\ failed \in 0..(MaxFailed + Cardinality(Threads))
  /\ failedRead \in [Threads -> 0..(MaxFailed + Cardinality(Threads))]
  /\ dbg \in [d : Descs \cup {None}, pc : {"idle", "move", "read"}]

-----------------------------------------------------------------------------
(* Helpers                                                                 *)

IsResolved(o) == status[o] \in {"Resolved", "Initialized"}
IsErroneous(o) == status[o] = "Error"

Top(t) == stack[t][Len(stack[t])]

(* Replace the top frame of t.                                             *)
SetTop(t, f) == stack' = [stack EXCEPT ![t][Len(stack[t])] = f]

(* Call: the caller's frame continues at pc when the callee returns.       *)
Call(t, pc, callee) ==
  stack' = [stack EXCEPT ![t] = Append([@ EXCEPT ![Len(@)].pc = pc], callee)]

ResolveTypeFrame(d) == [fn |-> "ResolveType", d |-> d, o |-> None, pc |-> "resolve"]
FindClassFrame(d) == [fn |-> "FindClass", d |-> d, o |-> None, pc |-> "lookup"]

(* Return r to the caller; a return from the outermost frame is what the  *)
(* interpreter or compiler receives.                                       *)
Return(t, r) ==
  /\ stack' = [stack EXCEPT ![t] = SubSeq(@, 1, Len(@) - 1)]
  /\ ret' = [ret EXCEPT ![t] = r]
  /\ results' = IF Len(stack[t]) = 1 THEN results \cup {<<Top(t).d, r>>}
                                      ELSE results

(* Class::SetStatus.  Its notifyAll wakes no one here: see               *)
(* EnsureResolvedNeverWaits.                                               *)
SetStatus(o, s) == status' = [status EXCEPT ![o] = s]

(* ObjectLock destructor: monitor exit.                                    *)
Unlock(o) ==
  /\ owner' = [owner EXCEPT ![o] = IF depth[o] = 1 THEN None ELSE @]
  /\ depth' = [depth EXCEPT ![o] = @ - 1]

(* The class table entry for a descriptor (LookupClassFromTableLocked).   *)
InTable(d) == {o \in table : DescOf(o) = d}

-----------------------------------------------------------------------------
(* A thread starts resolving a type (the interpreter/compiler entry).     *)
StartCall(t, d) ==
  /\ stack[t] = <<>>
  /\ calls[t] < MaxCalls
  /\ stack' = [stack EXCEPT ![t] = <<ResolveTypeFrame(d)>>]
  /\ calls' = [calls EXCEPT ![t] = @ + 1]
  /\ UNCHANGED <<status, clinitTid, owner, depth, superOf, table,
                 resolvedTypes, ret, results, aborted, lookupVars>>

(* ResolveType: a dex cache hit is returned as is, without EnsureResolved. *)
ResolveTypeCached(t) ==
  LET f == Top(t) IN
  /\ f.pc = "resolve"
  /\ resolvedTypes[f.d] # None
  /\ Return(t, resolvedTypes[f.d])
  /\ UNCHANGED <<status, clinitTid, owner, depth, superOf, table,
                 resolvedTypes, calls, aborted, lookupVars>>

ResolveTypeMiss(t) ==
  LET f == Top(t) IN
  /\ f.pc = "resolve"
  /\ resolvedTypes[f.d] = None
  /\ Call(t, "resolveRet", FindClassFrame(f.d))
  /\ UNCHANGED <<status, clinitTid, owner, depth, superOf, table,
                 resolvedTypes, ret, calls, results, aborted, lookupVars>>

(* dex_cache->SetResolvedType only for a non-null result.                  *)
ResolveTypeDone(t) ==
  LET f == Top(t) IN
  /\ f.pc = "resolveRet"
  /\ resolvedTypes' = IF ret[t] # None
                        THEN [resolvedTypes EXCEPT ![f.d] = ret[t]]
                        ELSE resolvedTypes
  /\ Return(t, ret[t])
  /\ UNCHANGED <<status, clinitTid, owner, depth, superOf, table,
                 calls, aborted, lookupVars>>

-----------------------------------------------------------------------------
(* FindClass: LookupClass, then on a hit EnsureResolved; on a miss an    *)
(* array goes to CreateArrayClass, a class of the boot class path to      *)
(* DefineClass, anything else to NoClassDefFoundError.                    *)
(*                                                                         *)
(* LookupClass reads the table under the reader lock, then, after         *)
(* releasing it, reads dex_cache_image_class_lookup_required_ with no     *)
(* lock and searches the image, or counts the failure with an unlocked    *)
(* ++.  Each critical section or unlocked access is one step.             *)
FindClassHit(t) ==
  LET f == Top(t) IN
  /\ f.pc = "lookup"
  /\ \E o \in InTable(f.d) : SetTop(t, [f EXCEPT !.o = o, !.pc = "ensure"])
  /\ UNCHANGED <<status, clinitTid, owner, depth, superOf, table,
                 resolvedTypes, ret, calls, results, aborted, lookupVars>>

LookupClassMiss(t) ==
  LET f == Top(t) IN
  /\ f.pc = "lookup"
  /\ InTable(f.d) = {}
  /\ SetTop(t, [f EXCEPT !.pc = "fallback"])
  /\ UNCHANGED <<status, clinitTid, owner, depth, superOf, table,
                 resolvedTypes, ret, calls, results, aborted, lookupVars>>

(* The flag is false: LookupClass returns null, whatever the table holds  *)
(* by now.                                                                 *)
LookupClassNoImage(t) ==
  LET f == Top(t) IN
  /\ f.pc = "fallback"
  /\ ~imageRequired
  /\ SetTop(t, [f EXCEPT !.pc = "notLoaded"])
  /\ UNCHANGED <<status, clinitTid, owner, depth, superOf, table,
                 resolvedTypes, ret, calls, results, aborted, lookupVars>>

(* LookupClassFromImage finds the class in an image dex cache (the image  *)
(* is immutable, so the search is a function of the descriptor), then     *)
(* InsertClass adds it unless a racing thread already did; LookupClass     *)
(* returns the image class either way.                                    *)
LookupClassFromImageHit(t) ==
  LET f == Top(t) IN
  /\ f.pc = "fallback"
  /\ imageRequired /\ f.d \in Image
  /\ table' = IF InTable(f.d) = {} THEN table \cup {ImageClass(f.d)} ELSE table
  /\ SetTop(t, [f EXCEPT !.o = ImageClass(f.d), !.pc = "ensure"])
  /\ UNCHANGED <<status, clinitTid, owner, depth, superOf,
                 resolvedTypes, ret, calls, results, aborted, lookupVars>>

(* The image search fails: the first half of ++failed_dex_cache_class_   *)
(* lookups_, the load.                                                     *)
LookupClassFromImageMiss(t) ==
  LET f == Top(t) IN
  /\ f.pc = "fallback"
  /\ imageRequired /\ f.d \notin Image
  /\ failedRead' = [failedRead EXCEPT ![t] = failed]
  /\ SetTop(t, [f EXCEPT !.pc = "countFailure"])
  /\ UNCHANGED <<status, clinitTid, owner, depth, superOf, table,
                 resolvedTypes, ret, calls, results, aborted,
                 imageRequired, failed, dbg>>

(* The store of the ++, from the value loaded before; past the limit the  *)
(* thread moves the image classes into the table.                         *)
LookupClassCountFailure(t) ==
  LET f == Top(t)
      n == failedRead[t] + 1
  IN
  /\ f.pc = "countFailure"
  /\ failed' = n
  /\ SetTop(t, [f EXCEPT !.pc = IF n > MaxFailed THEN "move" ELSE "notLoaded"])
  /\ UNCHANGED <<status, clinitTid, owner, depth, superOf, table,
                 resolvedTypes, ret, calls, results, aborted,
                 imageRequired, failedRead, dbg>>

(* Mutation: the flag is cleared without the image classes being moved   *)
(* (the copy loop walks the wrong dex caches).                            *)
MoveImageFlagOnly ==
  /\ imageRequired
  /\ imageRequired' = FALSE
  /\ UNCHANGED <<table, aborted>>

(* MoveImageClassesToClassTable under the writer lock: nothing if the     *)
(* flag is already clear; otherwise every image class not yet in the      *)
(* table is inserted (an entry already there must be that very class, a   *)
(* CHECK), and the flag is cleared.                                        *)
MoveImage ==
  /\ imageRequired
  /\ table' = table \cup {ImageClass(d) : d \in {e \in Image : InTable(e) = {}}}
  /\ aborted' = \E d \in Image : InTable(d) \notin {{}, {ImageClass(d)}}
  /\ imageRequired' = FALSE

MoveImageClassesToClassTable(t) ==
  LET f == Top(t) IN
  /\ f.pc = "move"
  /\ IF imageRequired THEN MoveImage
                      ELSE UNCHANGED <<table, aborted, imageRequired>>
  /\ SetTop(t, [f EXCEPT !.pc = "notLoaded"])
  /\ UNCHANGED <<status, clinitTid, owner, depth, superOf,
                 resolvedTypes, ret, calls, results, failed, failedRead, dbg>>

(* VisitClasses, DumpAllClasses, DumpForSigQuit and NumLoadedClasses, run *)
(* by other runtime threads, move the image classes first when the flag,  *)
(* read without the lock, is set.                                          *)
VisitClassesMove ==
  /\ MoveImage
  /\ UNCHANGED <<status, clinitTid, owner, depth, superOf, resolvedTypes,
                 stack, ret, calls, results, failed, failedRead, dbg>>

(* Mutation: LookupClasses goes straight to the table, without moving the *)
(* image classes in first.                                                 *)
LookupClassesStartNoMove(d) ==
  /\ dbg.pc = "idle"
  /\ dbg' = [d |-> d, pc |-> "read"]
  /\ UNCHANGED <<status, clinitTid, owner, depth, superOf, table, resolvedTypes,
                 stack, ret, calls, results, aborted, imageRequired, failed,
                 failedRead>>

(* LookupClasses, called by the debugger for a descriptor: it clears the  *)
(* result and reads the flag without the lock; if it is set, it calls     *)
(* MoveImageClassesToClassTable, which reads the flag again under the      *)
(* writer lock.  Then, under the reader lock, it collects every class of   *)
(* the descriptor in the table, of any class loader, and returns them.     *)
LookupClassesStart(d) ==
  /\ dbg.pc = "idle"
  /\ dbg' = [d |-> d, pc |-> IF imageRequired THEN "move" ELSE "read"]
  /\ UNCHANGED <<status, clinitTid, owner, depth, superOf, table, resolvedTypes,
                 stack, ret, calls, results, aborted, imageRequired, failed,
                 failedRead>>

LookupClassesMove ==
  /\ dbg.pc = "move"
  /\ IF imageRequired THEN MoveImage
                      ELSE UNCHANGED <<table, aborted, imageRequired>>
  /\ dbg' = [dbg EXCEPT !.pc = "read"]
  /\ UNCHANGED <<status, clinitTid, owner, depth, superOf, resolvedTypes,
                 stack, ret, calls, results, failed, failedRead>>

LookupClassesRead ==
  /\ dbg.pc = "read"
  /\ dbg' = [d |-> None, pc |-> "idle"]
  /\ UNCHANGED <<status, clinitTid, owner, depth, superOf, table, resolvedTypes,
                 stack, ret, calls, results, aborted, imageRequired, failed,
                 failedRead>>

FindClassArray(t) ==
  LET f == Top(t) IN
  /\ f.pc = "notLoaded"
  /\ f.d \in ArrayDescs
  /\ Call(t, "arrayCreate", FindClassFrame(Component[f.d]))
  /\ UNCHANGED <<status, clinitTid, owner, depth, superOf, table,
                 resolvedTypes, ret, calls, results, aborted, lookupVars>>

FindClassNotFound(t) ==
  LET f == Top(t) IN
  /\ f.pc = "notLoaded"
  /\ f.d \in MissingDescs
  /\ Return(t, None)
  /\ UNCHANGED <<status, clinitTid, owner, depth, superOf, table,
                 resolvedTypes, calls, aborted, lookupVars>>

-----------------------------------------------------------------------------
(* DefineClass.  Until InsertClass publishes it, the new class object is  *)
(* private to the thread, so allocation, LoadClass, taking its monitor    *)
(* and SetClinitThreadId are one step.                                     *)
DefineClassAllocFails(t) ==
  LET f == Top(t) IN
  /\ f.pc = "notLoaded"
  /\ f.d \in Descs \cap AllocFails
  /\ Return(t, None)
  /\ UNCHANGED <<status, clinitTid, owner, depth, superOf, table,
                 resolvedTypes, calls, aborted, lookupVars>>

(* Mutation: the new class is published without its ObjectLock held.      *)
DefineClassLoadUnlocked(t) ==
  LET f == Top(t)
      o == <<t, f.d, calls[t]>>
  IN
  /\ f.pc = "notLoaded"
  /\ f.d \in Descs
  /\ status' = [status EXCEPT ![o] = "Idx"]
  /\ clinitTid' = [clinitTid EXCEPT ![o] = t]
  /\ SetTop(t, [f EXCEPT !.o = o, !.pc = "insert"])
  /\ UNCHANGED <<owner, depth, superOf, table, resolvedTypes, ret, calls,
                 results, aborted, lookupVars>>

DefineClassLoad(t) ==
  LET f == Top(t)
      o == <<t, f.d, calls[t]>>
  IN
  /\ f.pc = "notLoaded"
  /\ f.d \in Descs
  /\ status' = [status EXCEPT ![o] = "Idx"]
  /\ owner' = [owner EXCEPT ![o] = t]
  /\ depth' = [depth EXCEPT ![o] = 1]
  /\ clinitTid' = [clinitTid EXCEPT ![o] = t]
  /\ SetTop(t, [f EXCEPT !.o = o, !.pc = "insert"])
  /\ UNCHANGED <<superOf, table, resolvedTypes, ret, calls,
                 results, aborted, lookupVars>>

(* Mutation: InsertClass without the re-check under the writer lock.      *)
DefineClassInsertNoRecheck(t) ==
  LET f == Top(t) IN
  /\ f.pc = "insert"
  /\ table' = table \cup {f.o}
  /\ SetTop(t, [f EXCEPT !.pc = "super"])
  /\ UNCHANGED <<status, clinitTid, owner, depth, superOf,
                 resolvedTypes, ret, calls, results, aborted, lookupVars>>

(* Mutation: the race loser releases the winner's monitor, not its own.    *)
DefineClassRaceUnlocksWinner(t) ==
  LET f == Top(t) IN
  /\ f.pc = "insert"
  /\ \E e \in InTable(f.d) : SetTop(t, [f EXCEPT !.o = e, !.pc = "ensure"])
                             /\ Unlock(e)
  /\ UNCHANGED <<status, clinitTid, superOf, table, resolvedTypes,
                 ret, calls, results, aborted, lookupVars>>

(* InsertClass under the writer lock: re-check, then insert.  The loser   *)
(* of the race drops its own object (its monitor is no longer observable) *)
(* and calls EnsureResolved on the winner.                                 *)
DefineClassRace(t) ==
  LET f == Top(t) IN
  /\ f.pc = "insert"
  /\ \E e \in InTable(f.d) : SetTop(t, [f EXCEPT !.o = e, !.pc = "ensure"])
  /\ Unlock(f.o)
  /\ UNCHANGED <<status, clinitTid, superOf, table, resolvedTypes,
                 ret, calls, results, aborted, lookupVars>>

DefineClassInsert(t) ==
  LET f == Top(t) IN
  /\ f.pc = "insert"
  /\ InTable(f.d) = {}
  /\ table' = table \cup {f.o}
  /\ SetTop(t, [f EXCEPT !.pc = "super"])
  /\ UNCHANGED <<status, clinitTid, owner, depth, superOf,
                 resolvedTypes, ret, calls, results, aborted, lookupVars>>

(* LoadSuperAndInterfaces: ResolveType(superclass_idx_), holding the lock. *)
LoadSuperAndInterfaces(t) ==
  LET f == Top(t) IN
  /\ f.pc = "super"
  /\ Call(t, "superRet", ResolveTypeFrame(SuperOf[f.d]))
  /\ UNCHANGED <<status, clinitTid, owner, depth, superOf, table,
                 resolvedTypes, ret, calls, results, aborted, lookupVars>>

LoadSuperFailed(t) ==
  LET f == Top(t) IN
  /\ f.pc = "superRet"
  /\ ret[t] = None
  /\ SetStatus(f.o, "Error")
  /\ Unlock(f.o)
  /\ Return(t, None)
  /\ UNCHANGED <<clinitTid, superOf, table, resolvedTypes, calls, aborted, lookupVars>>

LoadSuperDone(t) ==
  LET f == Top(t) IN
  /\ f.pc = "superRet"
  /\ ret[t] # None
  /\ superOf' = [superOf EXCEPT ![f.o] = ret[t]]
  /\ SetStatus(f.o, "Loaded")
  /\ SetTop(t, [f EXCEPT !.pc = "link"])
  /\ UNCHANGED <<clinitTid, owner, depth, table, resolvedTypes, ret, calls,
                 results, aborted, lookupVars>>

(* Mutation: a failed LinkClass returns without kStatusError.            *)
LinkClassFailsNoError(t) ==
  LET f == Top(t) IN
  /\ f.pc = "link"
  /\ f.d \in LinkFails
  /\ Unlock(f.o)
  /\ Return(t, None)
  /\ UNCHANGED <<status, clinitTid, superOf, table, resolvedTypes,
                 calls, aborted, lookupVars>>

(* LinkClass.  LinkSuperClass (debug) and LinkFields CHECK that the super *)
(* class IsResolved(); a failed CHECK aborts the runtime.                  *)
LinkClassAbort(t) ==
  LET f == Top(t) IN
  /\ f.pc = "link"
  /\ ~IsResolved(superOf[f.o])
  /\ aborted' = TRUE
  /\ UNCHANGED <<status, clinitTid, owner, depth, superOf, table,
                 resolvedTypes, stack, ret, calls, results, lookupVars>>

(* A linkage error is thrown.  LinkSuperClass's own checks (3724-3737)   *)
(* throw before its debug CHECK on the superclass, so a class of LinkFails *)
(* may throw whatever its superclass's status; LinkClassAbort is the other *)
(* outcome when the error would come later.                                *)
LinkClassFails(t) ==
  LET f == Top(t) IN
  /\ f.pc = "link"
  /\ f.d \in LinkFails
  /\ SetStatus(f.o, "Error")
  /\ Unlock(f.o)
  /\ Return(t, None)
  /\ UNCHANGED <<clinitTid, superOf, table, resolvedTypes, calls, aborted, lookupVars>>

LinkClassDone(t) ==
  LET f == Top(t) IN
  /\ f.pc = "link"
  /\ IsResolved(superOf[f.o])
  /\ f.d \notin LinkFails
  /\ SetStatus(f.o, "Resolved")
  /\ Unlock(f.o)
  /\ Return(t, f.o)
  /\ UNCHANGED <<clinitTid, superOf, table, resolvedTypes, calls, aborted, lookupVars>>

-----------------------------------------------------------------------------
(* EnsureResolved(klass).                                                  *)
EnsureResolvedSlow(t) ==
  LET f == Top(t) IN
  /\ f.pc = "ensure"
  /\ ~IsResolved(f.o) /\ ~IsErroneous(f.o)
  /\ SetTop(t, [f EXCEPT !.pc = "ensureLock"])
  /\ UNCHANGED <<status, clinitTid, owner, depth, superOf, table,
                 resolvedTypes, ret, calls, results, aborted, lookupVars>>

EnsureResolvedFast(t) ==
  LET f == Top(t) IN
  /\ f.pc = "ensure"
  /\ IsResolved(f.o) \/ IsErroneous(f.o)
  /\ SetTop(t, [f EXCEPT !.pc = "ensureResult"])
  /\ UNCHANGED <<status, clinitTid, owner, depth, superOf, table,
                 resolvedTypes, ret, calls, results, aborted, lookupVars>>

(* ObjectLock: blocks while another thread holds the monitor; reentrant.  *)
EnsureResolvedLock(t) ==
  LET f == Top(t) IN
  /\ f.pc = "ensureLock"
  /\ owner[f.o] \in {None, t}
  /\ owner' = [owner EXCEPT ![f.o] = t]
  /\ depth' = [depth EXCEPT ![f.o] = @ + 1]
  /\ SetTop(t, [f EXCEPT !.pc = "ensureCheck"])
  /\ UNCHANGED <<status, clinitTid, superOf, table, resolvedTypes,
                 ret, calls, results, aborted, lookupVars>>

(* Mutation: on a circular request the thread releases the monitor and    *)
(* retries EnsureResolved instead of throwing ClassCircularityError.       *)
EnsureResolvedCircularRetry(t) ==
  LET f == Top(t) IN
  /\ f.pc = "ensureCheck"
  /\ ~IsResolved(f.o)
  /\ clinitTid[f.o] = t
  /\ Unlock(f.o)
  /\ SetTop(t, [f EXCEPT !.pc = "ensure"])
  /\ UNCHANGED <<status, clinitTid, superOf, table, resolvedTypes,
                 ret, calls, results, aborted, lookupVars>>

(* The thread defining the class asks for it again: ClassCircularityError. *)
EnsureResolvedCircular(t) ==
  LET f == Top(t) IN
  /\ f.pc = "ensureCheck"
  /\ ~IsResolved(f.o)
  /\ clinitTid[f.o] = t
  /\ SetStatus(f.o, "Error")
  /\ Unlock(f.o)
  /\ Return(t, None)
  /\ UNCHANGED <<clinitTid, superOf, table, resolvedTypes, calls, aborted, lookupVars>>

(* The wait loop: it only exits, and the ObjectLock is released, once the *)
(* class is resolved or erroneous.  Its body, WaitIgnoringInterrupts, is  *)
(* never entered (EnsureResolvedNeverWaits), so no step models it; were   *)
(* it entered, the thread would have no step and CallsReturn would fail.  *)
EnsureResolvedUnlock(t) ==
  LET f == Top(t) IN
  /\ f.pc = "ensureCheck"
  /\ IsResolved(f.o) \/ (IsErroneous(f.o) /\ clinitTid[f.o] # t)
  /\ Unlock(f.o)
  /\ SetTop(t, [f EXCEPT !.pc = "ensureResult"])
  /\ UNCHANGED <<status, clinitTid, superOf, table, resolvedTypes,
                 ret, calls, results, aborted, lookupVars>>

(* if (klass->IsErroneous()) { ThrowEarlierClassFailure; return nullptr; } *)
EnsureResolvedFailed(t) ==
  LET f == Top(t) IN
  /\ f.pc = "ensureResult"
  /\ IsErroneous(f.o)
  /\ Return(t, None)
  /\ UNCHANGED <<status, clinitTid, owner, depth, superOf, table,
                 resolvedTypes, calls, aborted, lookupVars>>

(* CHECK(klass->IsResolved()) re-reads the status after the erroneous test. *)
EnsureResolvedAssert(t) ==
  LET f == Top(t) IN
  /\ f.pc = "ensureResult"
  /\ ~IsErroneous(f.o)
  /\ SetTop(t, [f EXCEPT !.pc = "ensureAssert"])
  /\ UNCHANGED <<status, clinitTid, owner, depth, superOf, table,
                 resolvedTypes, ret, calls, results, aborted, lookupVars>>

EnsureResolvedReturn(t) ==
  LET f == Top(t) IN
  /\ f.pc = "ensureAssert"
  /\ \/ IsResolved(f.o) /\ Return(t, f.o) /\ UNCHANGED aborted
     \/ ~IsResolved(f.o) /\ aborted' = TRUE
                         /\ UNCHANGED <<stack, ret, results>>
  /\ UNCHANGED <<status, clinitTid, owner, depth, superOf, table,
                 resolvedTypes, calls, lookupVars>>

(* Mutation: the new array class is returned even when InsertClass found  *)
(* an existing one.                                                        *)
CreateArrayClassReturnsNew(t) ==
  LET f == Top(t)
      o == <<t, f.d, calls[t]>>
  IN
  /\ f.pc = "arrayCreate"
  /\ ret[t] # None
  /\ status' = [status EXCEPT ![o] = "Initialized"]
  /\ superOf' = [superOf EXCEPT ![o] = ObjectClass]
  /\ table' = IF InTable(f.d) = {} THEN table \cup {o} ELSE table
  /\ Return(t, o)
  /\ UNCHANGED <<clinitTid, owner, depth, resolvedTypes, calls, aborted, lookupVars>>

-----------------------------------------------------------------------------
(* CreateArrayClass, after FindClass(component) returned.  The new array  *)
(* class is private until InsertClass; it is created Initialized with     *)
(* java.lang.Object as its superclass.  On a lost race the existing entry *)
(* is returned.                                                            *)
CreateArrayClassFails(t) ==
  LET f == Top(t) IN
  /\ f.pc = "arrayCreate"
  /\ ret[t] = None \/ f.d \in AllocFails
  /\ Return(t, None)
  /\ UNCHANGED <<status, clinitTid, owner, depth, superOf, table,
                 resolvedTypes, calls, aborted, lookupVars>>

CreateArrayClass(t) ==
  LET f == Top(t)
      o == <<t, f.d, calls[t]>>
  IN
  /\ f.pc = "arrayCreate"
  /\ ret[t] # None
  /\ status' = [status EXCEPT ![o] = "Initialized"]
  /\ superOf' = [superOf EXCEPT ![o] = ObjectClass]
  /\ IF InTable(f.d) = {}
       THEN table' = table \cup {o} /\ Return(t, o)
       ELSE \E e \in InTable(f.d) : Return(t, e) /\ UNCHANGED table
  /\ UNCHANGED <<clinitTid, owner, depth, resolvedTypes, calls,
                 aborted, lookupVars>>

-----------------------------------------------------------------------------
(* Another thread's VerifyClass (hard failure) or InitializeClass (a       *)
(* throwing <clinit>) makes a resolved class erroneous, under its monitor. *)
ClassBecomesErroneous(o) ==
  /\ o \in table
  /\ DescOf(o) \in FailAfterResolve
  /\ status[o] = "Resolved"
  /\ owner[o] = None
  /\ SetStatus(o, "Error")
  /\ UNCHANGED <<clinitTid, owner, depth, superOf, table, resolvedTypes,
                 stack, ret, calls, results, aborted, lookupVars>>

(* A thread that is inside a resolution call takes one step of it.        *)
Running(t) == ~aborted /\ stack[t] # <<>>

Step(t) ==
  \/ Running(t) /\ ResolveTypeCached(t)
  \/ Running(t) /\ ResolveTypeMiss(t)
  \/ Running(t) /\ ResolveTypeDone(t)
  \/ Running(t) /\ FindClassHit(t)
  \/ Running(t) /\ LookupClassMiss(t)
  \/ Running(t) /\ LookupClassNoImage(t)
  \/ Running(t) /\ LookupClassFromImageHit(t)
  \/ Running(t) /\ LookupClassFromImageMiss(t)
  \/ Running(t) /\ LookupClassCountFailure(t)
  \/ Running(t) /\ MoveImageClassesToClassTable(t)
  \/ Running(t) /\ FindClassArray(t)
  \/ Running(t) /\ FindClassNotFound(t)
  \/ Running(t) /\ DefineClassAllocFails(t)
  \/ Running(t) /\ DefineClassLoad(t)
  \/ Running(t) /\ DefineClassRace(t)
  \/ Running(t) /\ DefineClassInsert(t)
  \/ Running(t) /\ LoadSuperAndInterfaces(t)
  \/ Running(t) /\ LoadSuperFailed(t)
  \/ Running(t) /\ LoadSuperDone(t)
  \/ Running(t) /\ LinkClassAbort(t)
  \/ Running(t) /\ LinkClassFails(t)
  \/ Running(t) /\ LinkClassDone(t)
  \/ Running(t) /\ EnsureResolvedSlow(t)
  \/ Running(t) /\ EnsureResolvedFast(t)
  \/ Running(t) /\ EnsureResolvedLock(t)
  \/ Running(t) /\ EnsureResolvedCircular(t)
  \/ Running(t) /\ EnsureResolvedUnlock(t)
  \/ Running(t) /\ EnsureResolvedFailed(t)
  \/ Running(t) /\ EnsureResolvedAssert(t)
  \/ Running(t) /\ EnsureResolvedReturn(t)
  \/ Running(t) /\ CreateArrayClassFails(t)
  \/ Running(t) /\ CreateArrayClass(t)

Init ==
  /\ status = [o \in Obj |-> CASE o = ObjectClass -> "Initialized"
                               [] o \in ImageClasses -> "Resolved"
                               [] OTHER -> "Absent"]
  /\ clinitTid = [o \in Obj |-> None]
  /\ owner = [o \in Obj |-> None]
  /\ depth = [o \in Obj |-> 0]
  /\ superOf = [o \in Obj |->
                 CASE o \in ImageClasses /\ SuperOf[DescOf(o)] \in Image ->
                        ImageClass(SuperOf[DescOf(o)])
                   [] o \in ImageClasses -> ObjectClass
                   [] OTHER -> None]
  /\ table = {ObjectClass}
  /\ resolvedTypes = [d \in AllDescs |-> None]
  /\ stack = [t \in Threads |-> <<>>]
  /\ ret = [t \in Threads |-> None]
  /\ calls = [t \in Threads |-> 0]
  /\ results = {}
  /\ aborted = FALSE
  \* The constructor clears the flag (418); InitFromImage sets it (1258)
  \* when the runtime starts from an image.
  /\ imageRequired = (Image # {})
  /\ failed = 0
  /\ failedRead = [t \in Threads |-> 0]
  /\ dbg = [d |-> None, pc |-> "idle"]

Next ==
  \/ \E t \in Threads, d \in AllDescs \ {ObjectDesc} : ~aborted /\ StartCall(t, d)
  \/ \E t \in Threads : Step(t)
  \/ \E o \in Obj : ~aborted /\ ClassBecomesErroneous(o)
  \/ ~aborted /\ VisitClassesMove
  \* The debugger asks for a class of the boot image.
  \/ \E d \in Image : ~aborted /\ LookupClassesStart(d)
  \/ ~aborted /\ LookupClassesMove
  \/ ~aborted /\ LookupClassesRead

(* Threads are scheduled by the OS: a thread that can run eventually runs. *)
Fairness == \A t \in Threads : WF_vars(Step(t))

Spec == Init /\ [][Next]_vars /\ Fairness

-----------------------------------------------------------------------------
(* Properties                                                              *)

(* Two threads that race in DefineClass for one descriptor never both get *)
(* their class object into class_table_: InsertClass re-checks for the    *)
(* descriptor under the writer lock and the loser keeps out.               *)
OneClassPerDescriptor ==
  \A o1, o2 \in table : DescOf(o1) = DescOf(o2) => o1 = o2

(* The boot image's class is the one class of its descriptor: the table  *)
(* never holds another object for it, and every class handed out for it   *)
(* is the image's.  The image classes reach the table two ways, one at a  *)
(* time from LookupClass or all at once from MoveImageClassesToClassTable *)
(* (whose CHECK(existing == klass) aborts otherwise), and LookupClass     *)
(* reads the flag after releasing the table lock: a thread whose table    *)
(* read missed can find the flag already cleared and define the class     *)
(* from the boot class path again, then lose the InsertClass race.        *)
ImageClassesCanonical ==
  \A d \in Image :
    /\ InTable(d) \subseteq {ImageClass(d)}
    /\ resolvedTypes[d] \in {None, ImageClass(d)}
    /\ \A r \in results : r[1] = d /\ r[2] # None => r[2] = ImageClass(d)

(* Every class handed out -- returned to the caller of ResolveType or     *)
(* stored in the dex cache's resolved types -- is the class_table_ entry  *)
(* for its descriptor: the loser of a DefineClass or CreateArrayClass race *)
(* hands out the winner's object, never its own.                           *)
HandedOutClassIsTableEntry ==
  /\ \A r \in results : r[2] # None => r[2] \in InTable(r[1])
  /\ \A d \in AllDescs : resolvedTypes[d] # None => resolvedTypes[d] \in InTable(d)

(* The wait loop of EnsureResolved is dead code: a thread that holds the  *)
(* monitor of a class it is not defining always finds it resolved or     *)
(* erroneous.  DefineClass keeps the ObjectLock from InsertClass until it *)
(* has set kStatusResolved or kStatusError, and every failure path sets   *)
(* kStatusError before the lock is released; otherwise the waiter would   *)
(* wait for a notify nobody sends.                                         *)
EnsureResolvedNeverWaits ==
  \A t \in Threads :
     stack[t] # <<>> /\ Top(t).pc = "ensureCheck" =>
        LET o == Top(t).o IN
        IsResolved(o) \/ IsErroneous(o) \/ clinitTid[o] = t

(* LookupClasses sees the boot image's classes: a debugger asking for an  *)
(* image class's descriptor gets that class, whether or not a FindClass    *)
(* has put it into class_table_ yet.  Its unlocked read of the flag may be *)
(* stale, but the flag is only ever cleared after the move, and the move  *)
(* runs under the writer lock, racing LookupClass's one-class insert and   *)
(* the other callers of MoveImageClassesToClassTable.                     *)
LookupClassesSeesImage ==
  [][dbg.pc = "read" /\ dbg'.pc = "idle" /\ dbg.d \in Image
       => ImageClass(dbg.d) \in InTable(dbg.d)]_vars

(* Every resolution call returns (or the runtime has aborted): no thread  *)
(* blocks forever on a class monitor or in EnsureResolved's wait loop.     *)
CallsReturn ==
  \A t \in Threads : (stack[t] # <<>>) ~> (stack[t] = <<>> \/ aborted)

(* Linking never fails a CHECK: errors are thrown as exceptions and the   *)
(* runtime does not abort.                                                 *)
NoAbort == ~aborted

=============================================================================
