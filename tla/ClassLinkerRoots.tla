--------------------------- MODULE ClassLinkerRoots ---------------------------
(***************************************************************************)
(* The class linker as a source of garbage-collector roots: dex_caches_    *)
(* and class_table_, filled by RegisterDexFile and InsertClass while the   *)
(* collector runs, and reported by ClassLinker::VisitRoots.                *)
(*                                                                         *)
(* A pointer is a record [o, g]: object o at the address it had after g    *)
(* moves.  It is valid while o is live and has not moved since.  The       *)
(* collector is spec-modelled (it is an external collaborator): either a   *)
(* concurrent mark-sweep (CMS) that reports all roots while mutators run,  *)
(* logs roots added meanwhile and reports the log in a pause, or a stop-   *)
(* the-world semi-space copier (SS) that moves every object it reaches and *)
(* rewrites the root slots it is handed.  A class object refers to its     *)
(* DexCache (dex_cache_), which the collector traces.                      *)
(***************************************************************************)
EXTENDS Naturals, FiniteSets

CONSTANTS
  Mutators,    \* threads calling RegisterDexFile and DefineClass
  DexFiles,    \* dex files, one location each
  Classes,     \* class objects, one per descriptor
  DexOf,       \* Classes -> DexFiles: the dex file a class is defined from
  Collectors,  \* the collectors the runtime may be built with: "CMS", "SS"
  MaxCycles,   \* garbage-collection cycles
  None

ASSUME /\ DexOf \in [Classes -> DexFiles]
       /\ Collectors \subseteq {"CMS", "SS"}
       /\ MaxCycles \in Nat

(* A DexCache object is named after the dex file and the allocating       *)
(* thread: two threads that race in RegisterDexFile allocate two.          *)
Caches == DexFiles \X Mutators
Objs == Caches \cup Classes
MaxGen == MaxCycles
Ptr == [o : Objs, g : 0..MaxGen]

VARIABLES
  heap,        \* Objs -> {"none", "live", "freed"}
  gen,         \* Objs -> 0..MaxGen: times the object was moved
  dexCaches,   \* DexFiles -> Ptr \cup {None}: dex_caches_
  classTable,  \* Classes -> Ptr \cup {None}: class_table_
  dexCacheOf,  \* Classes -> Ptr \cup {None}: the class's dex_cache_ field
  newDexRoots, \* SUBSET DexFiles: new_dex_cache_roots_
  newClassRoots, \* SUBSET [c : Classes, p : Ptr]: new_class_roots_
  logDex,      \* log_new_dex_caches_roots_
  logClasses,  \* log_new_class_table_roots_
  pc,          \* Mutators -> pc of RegisterDexFile / DefineClass
  job,         \* Mutators -> the dex file or class being handled
  local,       \* Mutators -> Ptr \cup {None}: the SirtRef held meanwhile
  gcPc,        \* phase of the collector
  marked,      \* SUBSET Objs: marked (or allocated black) this cycle
  cycles,      \* cycles started
  regLogged,   \* history: dex files registered while logging, this cycle
  aborted,     \* the collector faulted on a non-object root
  collector    \* the heap's collector, fixed for the run

vars == <<heap, gen, dexCaches, classTable, dexCacheOf, newDexRoots,
          newClassRoots, logDex, logClasses, pc, job, local, gcPc, marked,
          cycles, regLogged, aborted, collector>>

MutatorPcs == {"idle", "regAlloc", "regInsert", "defInsert"}
GcPcs == {"idle", "dexRoots", "classRoots", "marking", "remarkDex",
          "remarkClasses", "sweep"}

TypeOK ==
  /\ heap \in [Objs -> {"none", "live", "freed"}]
  /\ gen \in [Objs -> 0..MaxGen]
  /\ dexCaches \in [DexFiles -> Ptr \cup {None}]
  /\ classTable \in [Classes -> Ptr \cup {None}]
  /\ dexCacheOf \in [Classes -> Ptr \cup {None}]
  /\ newDexRoots \subseteq DexFiles
  /\ newClassRoots \subseteq [c : Classes, p : Ptr]
  /\ logDex \in BOOLEAN /\ logClasses \in BOOLEAN
  /\ pc \in [Mutators -> MutatorPcs]
  /\ job \in [Mutators -> DexFiles \cup Classes \cup {None}]
  /\ local \in [Mutators -> Ptr \cup {None}]
  /\ gcPc \in GcPcs
  /\ marked \subseteq Objs
  /\ cycles \in 0..MaxCycles
  /\ regLogged \subseteq DexFiles
  /\ aborted \in BOOLEAN

-----------------------------------------------------------------------------
(* Helpers                                                                 *)

Valid(p) == p # None /\ heap[p.o] = "live" /\ gen[p.o] = p.g
PtrTo(o) == [o |-> o, g |-> gen[o]]

(* Allocation: an object allocated during a cycle is allocated black.     *)
Alloc(o) ==
  /\ heap' = [heap EXCEPT ![o] = "live"]
  /\ marked' = IF gcPc = "idle" THEN marked ELSE marked \cup {o}

(* Marking the object behind a valid root, and the DexCache it refers to. *)
Reach(ps) ==
  LET os == {p.o : p \in {q \in ps : Valid(q)}}
  IN os \cup {dexCacheOf[c].o : c \in {c2 \in os \cap Classes :
                                         Valid(dexCacheOf[c2])}}

(* Mutators run except while the world is stopped.                         *)
Paused == gcPc \in {"remarkDex", "remarkClasses"}
MutatorRuns == ~aborted /\ ~Paused

-----------------------------------------------------------------------------
(* RegisterDexFile(dex_file): the check under the reader lock.  A dex    *)
(* file already registered returns at once and changes nothing.            *)
RegisterDexFileStart(m, d) ==
  /\ pc[m] = "idle" /\ MutatorRuns
  /\ dexCaches[d] = None
  /\ heap[<<d, m>>] = "none"
  /\ pc' = [pc EXCEPT ![m] = "regAlloc"]
  /\ job' = [job EXCEPT ![m] = d]
  /\ UNCHANGED <<heap, gen, dexCaches, classTable, dexCacheOf, newDexRoots,
                 newClassRoots, logDex, logClasses, local, gcPc, marked,
                 cycles, regLogged, aborted, collector>>

(* AllocDexCache with no lock held; the SirtRef keeps it.                  *)
RegisterDexFileAlloc(m) ==
  /\ pc[m] = "regAlloc" /\ MutatorRuns
  /\ Alloc(<<job[m], m>>)
  /\ local' = [local EXCEPT ![m] = PtrTo(<<job[m], m>>)]
  /\ pc' = [pc EXCEPT ![m] = "regInsert"]
  /\ UNCHANGED <<gen, dexCaches, classTable, dexCacheOf, newDexRoots,
                 newClassRoots, logDex, logClasses, job, gcPc, cycles,
                 regLogged, aborted, collector>>

(* Mutation: no re-check under the writer lock, and an assigning insert   *)
(* (dex_caches_[&dex_file] = cache) in place of std::map::insert, which    *)
(* keeps the first entry: the loser overwrites the winner's DexCache.     *)
RegisterDexFileInsertNoRecheck(m) ==
  LET d == job[m] IN
  /\ pc[m] = "regInsert" /\ MutatorRuns
  /\ dexCaches' = [dexCaches EXCEPT ![d] = local[m]]
  /\ newDexRoots' = IF logDex THEN newDexRoots \cup {d} ELSE newDexRoots
  /\ regLogged' = IF logDex THEN regLogged \cup {d} ELSE regLogged
  /\ local' = [local EXCEPT ![m] = None]
  /\ pc' = [pc EXCEPT ![m] = "idle"]
  /\ job' = [job EXCEPT ![m] = None]
  /\ UNCHANGED <<heap, gen, classTable, dexCacheOf, newClassRoots, logDex,
                 logClasses, gcPc, marked, cycles, aborted, collector>>

(* Under the writer lock: re-check, then RegisterDexFileLocked inserts    *)
(* the cache and logs the dex file if the collector asked for it.  The    *)
(* loser of a race drops its cache.                                        *)
RegisterDexFileInsert(m) ==
  LET d == job[m] IN
  /\ pc[m] = "regInsert" /\ MutatorRuns
  /\ IF dexCaches[d] # None
       THEN UNCHANGED <<dexCaches, newDexRoots, regLogged>>
       ELSE /\ dexCaches' = [dexCaches EXCEPT ![d] = local[m]]
            /\ newDexRoots' = IF logDex THEN newDexRoots \cup {d}
                                        ELSE newDexRoots
            /\ regLogged' = IF logDex THEN regLogged \cup {d} ELSE regLogged
  /\ local' = [local EXCEPT ![m] = None]
  /\ pc' = [pc EXCEPT ![m] = "idle"]
  /\ job' = [job EXCEPT ![m] = None]
  /\ UNCHANGED <<heap, gen, classTable, dexCacheOf, newClassRoots, logDex,
                 logClasses, gcPc, marked, cycles, aborted, collector>>

(* DefineClass: AllocClass, then SetDexCache(FindDexCache(dex_file)).     *)
(* The dex file is registered before any of its classes is defined.        *)
DefineClassAlloc(m, c) ==
  /\ pc[m] = "idle" /\ MutatorRuns
  /\ heap[c] = "none"
  /\ dexCaches[DexOf[c]] # None
  /\ Alloc(c)
  /\ dexCacheOf' = [dexCacheOf EXCEPT ![c] = dexCaches[DexOf[c]]]
  /\ local' = [local EXCEPT ![m] = PtrTo(c)]
  /\ pc' = [pc EXCEPT ![m] = "defInsert"]
  /\ job' = [job EXCEPT ![m] = c]
  /\ UNCHANGED <<gen, dexCaches, classTable, newDexRoots, newClassRoots,
                 logDex, logClasses, gcPc, cycles, regLogged, aborted,
                 collector>>

(* Mutation: the new entry is not logged for the collector.                *)
InsertClassNoLog(m) ==
  LET c == job[m] IN
  /\ pc[m] = "defInsert" /\ MutatorRuns
  /\ classTable' = [classTable EXCEPT ![c] = local[m]]
  /\ local' = [local EXCEPT ![m] = None]
  /\ pc' = [pc EXCEPT ![m] = "idle"]
  /\ job' = [job EXCEPT ![m] = None]
  /\ UNCHANGED <<heap, gen, dexCaches, dexCacheOf, newDexRoots, newClassRoots,
                 logDex, logClasses, gcPc, marked, cycles, regLogged, aborted,
                 collector>>

(* Mutation: the SirtRef is reset before its class is logged.               *)
InsertClassAfterReset(m) ==
  LET c == job[m] IN
  /\ pc[m] = "defInsert" /\ MutatorRuns
  /\ classTable' = [classTable EXCEPT ![c] = local[m]]
  /\ newClassRoots' = IF logClasses THEN newClassRoots \cup {[c |-> c, p |-> None]}
                                    ELSE newClassRoots
  /\ local' = [local EXCEPT ![m] = None]
  /\ pc' = [pc EXCEPT ![m] = "idle"]
  /\ job' = [job EXCEPT ![m] = None]
  /\ UNCHANGED <<heap, gen, dexCaches, dexCacheOf, newDexRoots, logDex,
                 logClasses, gcPc, marked, cycles, regLogged, aborted,
                 collector>>

(* InsertClass: class_table_.insert under classlinker_classes_lock_ and   *)
(* the entry logged if the collector asked for it.                         *)
InsertClass(m) ==
  LET c == job[m] IN
  /\ pc[m] = "defInsert" /\ MutatorRuns
  /\ classTable' = [classTable EXCEPT ![c] = local[m]]
  /\ newClassRoots' = IF logClasses THEN newClassRoots \cup {[c |-> c, p |-> local[m]]}
                                    ELSE newClassRoots
  /\ local' = [local EXCEPT ![m] = None]
  /\ pc' = [pc EXCEPT ![m] = "idle"]
  /\ job' = [job EXCEPT ![m] = None]
  /\ UNCHANGED <<heap, gen, dexCaches, dexCacheOf, newDexRoots, logDex,
                 logClasses, gcPc, marked, cycles, regLogged, aborted,
                 collector>>

-----------------------------------------------------------------------------
(* The collector.  GcStart, GcPause and GcSweep are the mark-sweep        *)
(* collector's own phases; the VisitRoots* actions are ClassLinker::      *)
(* VisitRoots as it runs in them.                                          *)
GcStart ==
  /\ collector = "CMS" /\ ~aborted
  /\ gcPc = "idle" /\ cycles < MaxCycles
  /\ cycles' = cycles + 1
  /\ marked' = {}
  /\ regLogged' = {}
  /\ gcPc' = "dexRoots"
  /\ UNCHANGED <<heap, gen, dexCaches, classTable, dexCacheOf, newDexRoots,
                 newClassRoots, logDex, logClasses, pc, job, local, aborted,
                 collector>>

(* The callback handed the address of a loop copy of a dex_caches_ entry  *)
(* reads the pair's first word, a DexFile*, as an object: undefined, the   *)
(* collector faults or ignores it.  The DexCache itself is not reported.   *)
ReportDexCacheCopies ==
  \E fault \in IF \E d \in DexFiles : dexCaches[d] # None
                 THEN BOOLEAN ELSE {FALSE} :
    aborted' = fault

(* VisitRoots(kVisitRootFlagAllRoots | kVisitRootFlagStartLoggingNewRoots),*)
(* the dex_caches_ part, under dex_lock_ as a reader.                      *)
VisitRootsDexAll ==
  /\ gcPc = "dexRoots" /\ ~aborted
  /\ ReportDexCacheCopies
  /\ logDex' = TRUE
  /\ gcPc' = "classRoots"
  /\ UNCHANGED <<heap, gen, dexCaches, classTable, dexCacheOf, newDexRoots,
                 newClassRoots, logClasses, pc, job, local, marked, cycles,
                 regLogged, collector>>

(* The class_table_ part, under classlinker_classes_lock_: every entry is *)
(* reported through a reference to it.                                     *)
VisitRootsClassAll ==
  /\ gcPc = "classRoots" /\ ~aborted
  /\ marked' = marked \cup Reach({classTable[c] : c \in Classes})
  /\ logClasses' = TRUE
  /\ gcPc' = "marking"
  /\ UNCHANGED <<heap, gen, dexCaches, classTable, dexCacheOf, newDexRoots,
                 newClassRoots, logDex, pc, job, local, cycles, regLogged,
                 aborted, collector>>

(* The remark pause: thread roots (the SirtRefs) are marked and the       *)
(* objects written while marking ran (dirty cards) are rescanned.          *)
GcPause ==
  /\ gcPc = "marking" /\ ~aborted
  /\ LET withLocals == marked \cup Reach({local[m] : m \in Mutators})
     IN marked' = withLocals \cup Reach({PtrTo(c) : c \in withLocals \cap Classes})
  /\ gcPc' = "remarkDex"
  /\ UNCHANGED <<heap, gen, dexCaches, classTable, dexCacheOf, newDexRoots,
                 newClassRoots, logDex, logClasses, pc, job, local, cycles,
                 regLogged, aborted, collector>>

(* Mutation: the root log is cleared before it is visited.                  *)
VisitRootsDexNewClearFirst ==
  /\ gcPc = "remarkDex" /\ ~aborted
  /\ newDexRoots' = {}
  /\ logDex' = FALSE
  /\ gcPc' = "remarkClasses"
  /\ UNCHANGED <<heap, gen, dexCaches, classTable, dexCacheOf, newClassRoots,
                 logClasses, pc, job, local, cycles, regLogged, aborted,
                 marked, collector>>

(* VisitRoots(kVisitRootFlagNewRoots | kVisitRootFlagStopLoggingNewRoots | *)
(* kVisitRootFlagClearRootLog), dex_caches_ part: each logged dex file's  *)
(* entry is reported by reference (dex_caches_[index]), then the log is   *)
(* cleared and logging stops.                                              *)
VisitRootsDexNew ==
  /\ gcPc = "remarkDex" /\ ~aborted
  /\ marked' = marked \cup Reach({dexCaches[d] : d \in newDexRoots})
  /\ newDexRoots' = {}
  /\ logDex' = FALSE
  /\ gcPc' = "remarkClasses"
  /\ UNCHANGED <<heap, gen, dexCaches, classTable, dexCacheOf, newClassRoots,
                 logClasses, pc, job, local, cycles, regLogged, aborted,
                 collector>>

(* The class_table_ part: each logged pair is reported.  The collector    *)
(* does not move objects here, so the search of class_table_ for a moved  *)
(* root (pair.second != old_ref) never applies.                            *)
VisitRootsClassNew ==
  /\ gcPc = "remarkClasses" /\ ~aborted
  /\ marked' = marked \cup Reach({r.p : r \in newClassRoots})
  /\ newClassRoots' = {}
  /\ logClasses' = FALSE
  /\ gcPc' = "sweep"
  /\ UNCHANGED <<heap, gen, dexCaches, classTable, dexCacheOf, newDexRoots,
                 logDex, pc, job, local, cycles, regLogged, aborted,
                 collector>>

(* Concurrent sweep: every live object neither marked nor allocated black *)
(* is freed.                                                               *)
GcSweep ==
  /\ gcPc = "sweep" /\ ~aborted
  /\ heap' = [o \in Objs |-> IF heap[o] = "live" /\ o \notin marked
                                THEN "freed" ELSE heap[o]]
  /\ gcPc' = "idle"
  /\ UNCHANGED <<gen, dexCaches, classTable, dexCacheOf, newDexRoots,
                 newClassRoots, logDex, logClasses, pc, job, local, marked,
                 cycles, regLogged, aborted, collector>>

(* Semi-space collection, world stopped: VisitRoots(kVisitRootFlagAll-    *)
(* Roots) and the thread roots.  Every object reached is copied; the root *)
(* slots reported by reference and the fields of copied classes are       *)
(* rewritten to the copy; everything else is freed.                        *)
SsCollect ==
  /\ collector = "SS" /\ ~aborted
  /\ gcPc = "idle" /\ cycles < MaxCycles
  /\ LET R == Reach({classTable[c] : c \in Classes} \cup
                    {local[m] : m \in Mutators})
         Fwd(p) == IF Valid(p) /\ p.o \in R THEN [p EXCEPT !.g = @ + 1] ELSE p
     IN /\ gen' = [o \in Objs |-> IF o \in R THEN gen[o] + 1 ELSE gen[o]]
        /\ heap' = [o \in Objs |-> IF heap[o] = "live" /\ o \notin R
                                      THEN "freed" ELSE heap[o]]
        /\ classTable' = [c \in Classes |-> Fwd(classTable[c])]
        /\ local' = [m \in Mutators |-> Fwd(local[m])]
        /\ dexCacheOf' = [c \in Classes |-> IF c \in R THEN Fwd(dexCacheOf[c])
                                                    ELSE dexCacheOf[c]]
  /\ ReportDexCacheCopies
  /\ cycles' = cycles + 1
  /\ UNCHANGED <<dexCaches, newDexRoots, newClassRoots, logDex, logClasses,
                 pc, job, gcPc, marked, regLogged, collector>>

-----------------------------------------------------------------------------
Init ==
  /\ heap = [o \in Objs |-> "none"]
  /\ gen = [o \in Objs |-> 0]
  /\ dexCaches = [d \in DexFiles |-> None]
  /\ classTable = [c \in Classes |-> None]
  /\ dexCacheOf = [c \in Classes |-> None]
  /\ newDexRoots = {} /\ newClassRoots = {}
  /\ logDex = FALSE /\ logClasses = FALSE
  /\ pc = [m \in Mutators |-> "idle"]
  /\ job = [m \in Mutators |-> None]
  /\ local = [m \in Mutators |-> None]
  /\ gcPc = "idle" /\ marked = {} /\ cycles = 0
  /\ regLogged = {} /\ aborted = FALSE
  /\ collector \in Collectors

Next ==
  \/ \E m \in Mutators, d \in DexFiles : RegisterDexFileStart(m, d)
  \/ \E m \in Mutators : RegisterDexFileAlloc(m)
  \/ \E m \in Mutators : RegisterDexFileInsert(m)
  \/ \E m \in Mutators, c \in Classes : DefineClassAlloc(m, c)
  \/ \E m \in Mutators : InsertClass(m)
  \/ GcStart
  \/ VisitRootsDexAll
  \/ VisitRootsClassAll
  \/ GcPause
  \/ VisitRootsDexNew
  \/ VisitRootsClassNew
  \/ GcSweep
  \/ SsCollect

Spec == Init /\ [][Next]_vars

-----------------------------------------------------------------------------
(* Properties                                                              *)

(* Every class_table_ entry points to a live class at its current address,*)
(* across InsertClass calls that race with the root scan, the logging of  *)
(* new roots and the remark pause, and across copying collections.        *)
ClassTableRootsValid ==
  \A c \in Classes : classTable[c] # None => Valid(classTable[c])

(* All classes defined from one dex file refer to the one DexCache        *)
(* registered for it: the re-check of RegisterDexFile under the writer    *)
(* lock keeps a racing second registration out of dex_caches_.            *)
DexCacheCoherent ==
  \A c \in Classes :
    classTable[c] # None =>
      /\ dexCacheOf[c] # None /\ dexCaches[DexOf[c]] # None
      /\ dexCacheOf[c].o = dexCaches[DexOf[c]].o

(* A dex file registered after the root scan began is marked by the end   *)
(* of the remark pause: RegisterDexFileLocked logs it and VisitRoots       *)
(* reports the log before clearing it.                                     *)
LoggedDexCachesMarked ==
  gcPc = "sweep" => \A d \in regLogged : dexCaches[d].o \in marked

(* Every dex_caches_ entry points to a live DexCache at its current       *)
(* address: VisitRoots hands the collector a mutable reference to every   *)
(* root it holds, so a collection never leaves this table stale.          *)
DexCacheRootsValid ==
  \A d \in DexFiles : dexCaches[d] # None => Valid(dexCaches[d])

=============================================================================
