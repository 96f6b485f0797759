# TLA+ models of the ART class linker

This directory holds TLA+ models of the class linker of the Android Runtime
(`ClassLinker`, in `src/runtime/mem_map.h`). That file bundles several
sources: lines 1-129 are `mem_map.h`, lines 130-243 are the JDWP
`object_registry.h`, and lines 245-4710 are `class_linker.cc`. Every line
number below refers to `src/runtime/mem_map.h`.

## The system

The class linker turns descriptors such as `LFoo;` into `mirror::Class`
objects. Many mutator threads call it at once.

* **Resolution.** `ResolveType` (4401) consults the dex cache's resolved-types
  array. On a miss it calls `FindClass` (1586). `FindClass` looks the
  descriptor up in `class_table_`:
  * on a hit, it waits in `EnsureResolved` (1557) until the class is
    resolved or erroneous;
  * for an array class, it builds one in `CreateArrayClass` (2474);
  * for a class on the boot class path, it calls `DefineClass` (1668).

  `ResolveString` (4379), `ResolveMethod` (4433), `ResolveField` (4580)
  and `ResolveFieldJLS` (4619) follow the same pattern for the constants
  of a method's code: read the dex-cache slot, and on a miss resolve the
  declaring class with `ResolveType`, look the member up, and store it in
  the slot. No lock is held. A string goes through the intern table.
* **Definition.** `DefineClass` allocates and loads a class and takes the
  class's monitor (`ObjectLock`). It records its thread id as
  `clinit_thread_id_` and publishes the class with `InsertClass` (2623),
  which re-checks under `classlinker_classes_lock_`. A thread that loses this
  race calls `EnsureResolved` on the winner. The winner then does two things
  while still holding the monitor:
  * resolves the superclass through `ResolveType`, recursively, in
    `LoadSuperAndInterfaces` (3666);
  * links the class in `LinkClass` (3644), which covers `LinkSuperClass`,
    `LinkMethods`, `LinkFields` and the reference offsets.

  Every failure path sets `kStatusError` before the monitor is released.
* **Initialization.** `InitializeClass` (3368) runs the JLS protocol:
  * `kStatusInitializing` records the initializing thread;
  * other threads wait in `WaitForInitializeClass` (3532);
  * superclasses are initialized first;
  * a throwing `<clinit>` makes the class erroneous (3507-3510).
* **Verification.** `VerifyClass` (2816) moves a resolved class to
  `kStatusVerified`, to `kStatusRetryVerificationAtRuntime`, or to
  `kStatusError`.
* **Tables.** `LookupClass` (2672) falls back to the image's dex caches and
  counts failed lookups. `RegisterDexFile` (2360) registers a dex cache with
  a double-checked insertion. `VisitRoots` (1342) reports `class_roots_`,
  the dex caches and the class table to the garbage collector.
* **Layout.** `LinkVirtualMethods` (3790) and `LinkInterfaceMethods` (3873)
  build the vtable, the iftable and the IMT. `LinkFields` (4170) orders the
  fields and aligns 64-bit fields.

These components interact through shared state: the class table, the dex
cache, the per-class status, and the per-class monitor with its wait set.

## Modules

### `ClassDefine` (with `MC_ClassDefine`)

Models resolution and definition across several threads.

**State**

| Variable | Code |
|---|---|
| `status` | `mirror::Class::status_` |
| `clinitTid` | `clinit_thread_id_` |
| `owner`, `depth` | the class monitor and its recursion count |
| `superOf` | `super_class_` |
| `table` | `class_table_` |
| `resolvedTypes` | the dex cache's resolved types |
| `results` | the classes handed back to outermost callers |
| `aborted` | a failed `CHECK` |
| `imageRequired` | `dex_cache_image_class_lookup_required_` |
| `failed` | `failed_dex_cache_class_lookups_` |
| `failedRead` | per thread, the counter value read before the increment |

Each thread has an explicit call `stack` of `ResolveType` and `FindClass`
frames, each with a program counter. This lets the recursion
`DefineClass -> ResolveType(super) -> FindClass(super)` interleave step by
step with other threads.

**Actions**

There is one action per basic block of the code: each early return, each
failure branch, and the lock acquisition. The action names follow the code,
for example `ResolveTypeCached`, `FindClassHit`, `DefineClassLoad`,
`DefineClassRace`, `DefineClassInsert`, `LoadSuperFailed`, `LinkClassDone`,
`EnsureResolvedLock` and `EnsureResolvedCircular`. `PROJECT.json` `map`
gives the lines of each.

`ClassBecomesErroneous` is the effect of another thread whose `<clinit>`
threw (3507-3510). It makes a resolved class erroneous under its monitor.

**Class table and boot image.** `LookupClass` (2672) misses the table
and then, while `dex_cache_image_class_lookup_required_` is set, searches
the image's dex caches (`LookupClassFromImage`). A hit is inserted into the
table and returned. A miss increments `failed_dex_cache_class_lookups_`
with a plain read and write, so two threads can lose an increment
(`LookupClassFromImageMiss`, `LookupClassCountFailure`). Past
`kMaxFailedDexCacheLookups` the thread calls
`MoveImageClassesToClassTable`, which copies every image class into the
table and clears the flag. `VisitClassesMove` is the same move started by
`VisitClasses` (1410). `LookupClasses` (2799), the debugger's lookup of
every class of a descriptor, is a separate actor: `LookupClassesStart`
reads the flag without the lock, `LookupClassesMove` runs the move, which
re-reads the flag under the writer lock, and `LookupClassesRead` collects
the table's classes under the reader lock. The debugger asks for an image
class at any point and may ask again. The constant `Image` holds the boot classes the
image's dex caches contain, and each starts as a resolved class object
`ImageClass(d)`. `MaxFailed` stands for `kMaxFailedDexCacheLookups`.

**Abstractions**

* There is one (boot) class loader and one dex file.
* Interfaces are left out: they are resolved exactly like the superclass.
* `LinkClass` is reduced to its outcome:
  * success;
  * a thrown linkage error, for descriptors in the constant `LinkFails`;
  * the `CHECK` on the superclass's status.
* Allocation failure and `LoadClass` failure are the constant `AllocFails`.
* A class object is named `<<thread, descriptor, call number>>`, so two
  racing definers make distinct objects.
* Calls per thread are bounded by `MaxCalls`.

**The wait loop is not modelled as a step.** The body of the wait loop of
`EnsureResolved` (1571-1573) is dead code: `DefineClass` holds the monitor
until the class is resolved or erroneous. The model does not give the loop a
step. Instead, the invariant `EnsureResolvedNeverWaits` states that the loop
is never entered.

**Fairness.** Weak fairness applies to each thread's steps. The OS scheduler
eventually runs any runnable thread; this is the only fairness assumed. A
thread blocked on a monitor is not enabled, so fairness does not make it
progress.

### `ClassInit` (with `MC_ClassInit` and `ClassInitAbstract`)

Models `EnsureInitialized` (3614), `InitializeClass` (3368),
`WaitForInitializeClass` (3532) and `VerifyClass` (2816) for several threads.
Every class starts in `kStatusResolved`; `ClassDefine` models how it got there.

**State**

| Variable | Code |
|---|---|
| `status` | `mirror::Class::status_`, from Resolved to Verifying, Verified, Initializing, Initialized or Error |
| `clinitTid` | `clinit_thread_id_` |
| `owner`, `depth` | the class monitor and its recursion count |
| `waitSet` | the threads in `Wait()` on the monitor |
| `stack` | per thread, the `InitializeClass` and `VerifyClass` frames, each with a program counter |
| `ret` | the value the last frame returned |
| `clinitRuns` | history: how often each `<clinit>` was invoked |

**Actions.** There is one action per branch of the code:
* the unlocked test (`InitializeClassFast`), the lock, and the re-tests under
  it (`Done`, `Erroneous`, `Verify`, `Recursive`, `Wait`, `Begin`);
* the wait loop (`WaitReacquire`, `WaitAgain`, `WaitFailed`, `WaitDone`);
* the superclass (`InitializeSuper*`), the `<clinit>` (`InvokeClinit`,
  `ClinitUse`, `ClinitUseReturned`, `ClinitReturns`) and the final status
  under the lock (`InitializeClassFailed`, `InitializeClassSucceeded`);
* `VerifyClass` with the superclass verified under its own lock, then the
  class's own verdict. A class that passes looks at its superclass again,
  with no lock held (2911): if the superclass is still verified, the class
  becomes Verified (`VerifyClassPassed`); otherwise the `CHECK_EQ` on
  `kStatusRetryVerificationAtRuntime` fails (`VerifyClassSuperNotVerified`)
  and the runtime aborts (`Aborted`), after which no thread steps.

`Class::SetStatus` notifies all waiters. `WaitSpurious` is a spurious
wake-up: it takes a thread out of the wait set at any time. `Monitor::Wait`
gives up the whole recursion count and restores it on wake-up.

**Abstractions**
* Each outermost call takes a mode `<<can_init_statics, can_init_parents>>`
  from `Modes`. The runtime passes `<<TRUE, TRUE>>`; the compiler also
  passes the others. `CanWeInitializeClass` is a recursive operator over the
  superclass chain. `InitializeClassCannotInit` is its fast failure. A
  superclass inherits `can_init_statics`, and the classes a `<clinit>` uses
  are initialized in the runtime's mode. `HasStatics` holds the classes with
  a `<clinit>` or encoded static values; for the others, `InvokeClinit` is a
  no-op step.
* `ValidateSuperClassDescriptors` always succeeds (one class loader), and
  the compiler-only status `kStatusRetryVerificationAtRuntime` never occurs.
* A `<clinit>` is the sequence of classes it initializes (`Uses`) and whether
  it may throw (`ClinitThrows`).
* `Verdict[c]` pairs the class's status in its oat file with the failure
  kind `MethodVerifier` would report. `VerifyClassUsingOatFile` (2950)
  takes its runtime path: the class is preverified when the oat file says
  Verified or Initialized, and then the verifier does not run. After the
  superclass step, `VerifyClass`'s own outcome is one of five actions:
  * `VerifyClassOatError`: the oat file says `kStatusError`, so the class
    is rejected without running the verifier (2884);
  * `VerifyClassFailed`: a hard failure sets `kStatusError` (2931);
  * `VerifyClassSoftFailure`: a soft failure at runtime sets
    `kStatusVerified`, with no second look at the superclass (2928);
  * `VerifyClassPassed`: no failure, or preverified, and the second look
    finds the superclass verified (2912);
  * `VerifyClassSuperNotVerified`: the same case with a superclass no
    longer verified. The `CHECK` at 2915 fails.

  `ResolveClassExceptionHandlerTypes` (2908) and the per-method preverified
  flag (2939) are left out.
* The early returns of `VerifyClass` (2822-2832) are not steps. Both callers
  (2856 and 3403) test the same condition under the same monitor, so they are
  never taken from this file.

**Fairness.** Strong fairness applies to each thread's steps. A thread that
finds a monitor free again and again eventually gets it, as the monitor's
queue guarantees. Spurious wake-ups may happen but are never forced.

**Cyclic initialization.** When A's `<clinit>` needs B while another thread
initializes B, which needs A, the two threads wait on each other for ever.
JLS 12.4.2 prescribes this and `spec.md` accepts it. The `init` run
contains the cycle: A's `<clinit>` uses its subclass B, whose superclass
is A. There, `CallsReturnUnlessInitCycle` states that this is
the only way a call fails to return. `WaitsFor` relates a thread to the
thread it cannot proceed without, either because that thread holds the
monitor it must enter (`LockWanted`) or because it waits for a class that
thread is initializing. `BlockedOnCycle(t)` holds when t reaches a cycle
of that relation between different threads. It uses the transitive
closure of the community `Relation` module. Every call returns, or its
thread becomes blocked on such a cycle. A lost notification, a monitor
left held, or a thread waiting on itself would break this.

**Refinement.** `ClassInitAbstract` states what initialization promises,
with no monitors, waits or verification steps. Each class is
uninitialized, claimed by one thread, initialized or erroneous, and a flag
records that its `<clinit>` ran. It has five atomic actions:
* `Begin`: a thread claims an uninitialized class;
* `RunClinit`: `<clinit>` runs once, and only when the superclass is
  initialized or is being initialized by the same thread;
* `Succeed`: the class becomes initialized after its `<clinit>` ran;
* `Fail`: a claimed class becomes erroneous;
* `VerifyFail`: an unclaimed class fails verification.

`ClassInit` defines `Abs == INSTANCE ClassInitAbstract WITH ...`. The
mapping (`AbsState`) treats Resolved, Verifying and Verified as
uninitialized, Initializing as the thread in `clinitTid`, and sets `ran` once
`clinitRuns` is positive. `ImplementsAbstractInit == Abs!Spec` is a
`PROPERTY` of the `init` run. Every step of
`InitializeClass`, `WaitForInitializeClass` and `VerifyClass` is therefore
either one of the atomic steps or leaves the abstract state unchanged.
Liveness is not part of the abstract specification:
`CallsReturnUnlessInitCycle` checks it.

### `ClassLinkerRoots` (with `MC_ClassLinkerRoots`)

Models the class linker as a source of garbage-collector roots:
`RegisterDexFile` (2360) and `InsertClass` (2623) fill `dex_caches_` and
`class_table_` while a collector runs, and `VisitRoots` (1342) reports them.
A pointer is a record `[o, g]`: object `o` at the address it had after `g`
moves. It is valid while `o` is live and has not moved since. The collector
is modelled from `spec.md`, because it lives outside `src/`. The constant
`Collectors` lets `Init` choose either of two collectors:

* **`CMS`.** A concurrent mark-sweep that scans every root while mutators
  run. It sets the `log_new_*_roots_` flags, reports the logged roots in a
  remark pause, then sweeps.
* **`SS`.** A stop-the-world semi-space copier. It moves every object it
  reaches and rewrites the root slots it is handed.

Each mutator step is one critical section of the code:

| Action | Code |
|---|---|
| `RegisterDexFileStart` | the read-locked check of `RegisterDexFile`, 2327-2367 |
| `RegisterDexFileAlloc` | `AllocDexCache` outside the lock, 2368-2372 |
| `RegisterDexFileInsert` | `RegisterDexFileLocked`: the re-check and insertion under the writer lock, with the log, 2346-2380 |
| `DefineClassAlloc` | a class object whose `dex_cache_` is the one `FindDexCache` (2388) returns |
| `InsertClass` | the insertion under `classlinker_classes_lock_`, with the log, 2634-2653 |

On the collector's side:

* `VisitRootsDexAll`, `VisitRootsClassAll`, `VisitRootsDexNew` and
  `VisitRootsClassNew` are the four branches of `VisitRoots`.
* `SsCollect` is one copying collection.
* `ReportDexCacheCopies` is the loop at 1347-1350. It hands the collector
  the address of a copy of each `dex_caches_` entry. Both
  `VisitRootsDexAll` and `SsCollect` use it.

### `VTable` (with `MC_VTable`)

Models `LinkMethods` (3769) as one atomic step per class. It runs when the
superclass is linked, and has three outcomes:

| Action | Outcome |
|---|---|
| `LinkMethods` | success |
| `LinkVirtualMethodsFails` | a final method is overridden |
| `LinkInterfaceMethodsFails` | an interface method resolves to a non-public method |

The code's loops are operators:

* `VirtualLoop` is the loop in `LinkVirtualMethods` (3804-3832). It overrides
  the first same-named slot the class may access, or appends a slot.
* `IfTableOf` and `Flatten` are the iftable construction.
  `LinkInterfaceMethods` (3873) has three paths: no interfaces; the
  superclass's iftable reused; and the full path.
* `IfaceLoop` and `ResolveIfaceMethod` are the method-array loop with
  mirandas, and `ImtPut` fills the IMT, first writer wins, else conflict.

`MC_VTable` uses a chain `O, A, B, C` in two packages `p` and `q`. Each class
may declare `m` as absent, public, package-private or public final, and `n`
as absent or public. The packages are a symmetry set. There are three
interfaces:

* `I1` declares `m` and extends `I2`;
* `I2` declares `n`;
* `I3` is a marker.

`A` implements `I3`, and `C` implements `I2, I1, I3`. The interface methods
`m` and `n` both land in IMT slot 0 (`ImtSize = 2`, dex indices 0 and 2),
so every IMT collision case occurs.

### `FieldLayout` (with `MC_FieldLayout`)

Models where fields go:

* `DefineClass` allocates the class with the size `SizeOfClass` (1751)
  precomputes from the static fields, then loads the fields
  (`LoadClass`/`LoadClassMembers`, 2106-2178).
* `LinkClass` covers the field part of `LinkClass` (3653-3664):
  * `LinkFields` (4170) for the instance fields, from the superclass's
    object size;
  * `LinkFields` for the static fields, from `Class::FieldsOffset()`;
  * `CreateReferenceInstanceOffsets` and `CreateReferenceStaticOffsets`
    (4329-4376).

`LinkFields` is an operator that follows the code step by step:

1. `SortSeq` with `FieldLess`, the `LinkFieldsComparator` (4141).
2. The reference prefix.
3. `FillGap`: the first 32-bit field, or 4 bytes, when a 64-bit field would
   be misaligned.
4. The rest in order.

The bounds:

* The chain is `O, A`, with field names `a, b, c` of any type.
* `ClassBase = 12` is congruent to 4 mod 8, like `sizeof(mirror::Class)`,
  so the static layout always starts misaligned and padding is exercised.
* `RefWords = 1` scales the 32-bit reference bitmap down to one word, so a
  second reference already overflows into `CLASS_WALK_SUPER`, as the 33rd
  does in the code.

### `Resolution` (with `MC_Resolution`)

Models `ResolveString` (4379-4391), `ResolveMethod` (4433-4578),
`ResolveField` (4580-4617), `ResolveFieldJLS` (4619-4645) and the
`ResolveType` (4401-4431) each member resolution starts with, for threads
sharing the dex caches and the intern table.

**State.**
* `strings`, `types`, `methods` and `fields` are the dex-cache slots.
  `methods` starts out holding `ResolutionMethod`, the runtime method that
  `DexCache::Init` puts there; the other slots start out NULL.
* `interned` is the intern table's strong set. `allocated` numbers the
  string objects, so two objects with the same contents are told apart.
* `frame[t]` is the call thread t is in: the request, a pc, the class it
  resolved and the string it interned.
* `returned` records every request that returned, with its result.

**Actions.** Each early return of the code is an action of its own:
* `ResolveStringHit`, `ResolveStringMiss`, `InternStrong` and
  `SetResolvedString`. Interning and storing are separate steps, so another
  thread can run between them.
* `ResolveMethodHit` (a slot holding a method that is not a runtime method)
  and `ResolveMethodMiss`; `ResolveFieldHit` and `ResolveFieldMiss`.
* `ResolveTypeHit`, `ResolveTypeFound` and `ResolveTypeNotFound`
  (NoClassDefFoundError, after which the member resolution returns NULL).
* `ResolveMethodFound` and `ResolveMethodFails`; `ResolveFieldFound` and
  `ResolveFieldFails`. A field reference's `op` says whether
  `ResolveField(is_static)` or `ResolveFieldJLS` resolves it.
* `ResolveFieldJLSHit`, `ResolveFieldJLSMiss`, `ResolveFieldJLSFound` and
  `ResolveFieldJLSFails`: `ResolveFieldJLS`'s own check of the slot, its
  `ResolveType`, and its single `Class::FindField` by name (4639), which
  takes a static or an instance field, stored only when found (4640).

`FirstLookup`, `MethodLookup` and `MethodError` translate the method
switch statements. They call lookups that are not in the file:
`FindDirectMethod`, `FindVirtualMethod`, `FindInterfaceMethod`,
`CheckIncompatibleClassChange`, `CanAccessMember`, `FindStaticField`,
`FindInstanceField` and `FindField`. These are modelled from their
documented behaviour (`mirror::Class`, `ArtMethod`) for one member name.

The model makes three abstractions:
* The by-index lookup and the by-name lookup are one step. With one name
  and one signature, both find the same member.
* Every class is public and in one package, so only a private method of
  another class is inaccessible.
* `FindClass` succeeds for every class except `Missing`. `ClassDefine`
  models how it does so.

**Bounds.** There are two threads with one call each, so a hit happens
only on a slot the other thread filled. `MaxCalls = 2` grows the space to
more than 20 million states. The classes are:
* O (`java.lang.Object`);
* A, which extends O and implements interface I;
* B, which extends A and holds the referring code.

Init ranges over the following declarations:
* the method: absent or virtual in O and I; absent, static, private or
  virtual in A; absent in B;
* the field: absent in O; absent, static or instance in A; absent or
  instance in B; absent or static in I.

The five method references are:
* through B, for `kVirtual` and `kSuper`, one index as javac emits for
  `b.m()` and `super.m()`;
* through A, for `kStatic`;
* through A, for `kDirect`;
* through I, for `kInterface`;
* through a missing class.

One literal occurs in two dex files, and `MaxStrings = 2` lets a wrong
`ResolveString` allocate a second object.

**What the model shows beyond its properties.** `MethodError` follows the
code, and for some of these declarations it throws a different error than
JVMS 5.4.3.3 and `spec.md` §7 ask for:
* `invoke-static` of a private instance method throws `NoSuchMethodError`,
  not `IncompatibleClassChangeError`. `FindDirectMethod` finds it,
  `CheckIncompatibleClassChange` rejects it, and the error path searches
  only the virtual and interface methods.
* A `kVirtual` reference through B, where A declares the method static and
  O declares it virtual, resolves to O's method. JVMS resolution would find
  A's static method and throw `IncompatibleClassChangeError`.
* `invoke-interface` of a method only `java.lang.Object` declares throws
  `IncompatibleClassChangeError`.
TLC confirms the first three with an initial-state invariant on
`MethodOutcome`. A fourth divergence follows from the code but lies
outside these bounds, where each field index has one `op`:
`ResolveField(is_static)` and `ResolveFieldJLS` share the field slots, so
an index both use can cache different fields, depending on which call came
first.

No run checks these divergences, and the project keeps no
violation run for them. The callers that re-check the kind after a cache
hit are not in the source.

## Runs

Every run except `resolve` sets `CHECK_DEADLOCK FALSE`, because each of
those models really does stop:

* **`ClassDefine` and `ClassInit` runs** stop once every thread has made
  `MaxCalls` calls. A thread that blocks for ever is caught by `CallsReturn`
  or `CallsReturnUnlessInitCycle`.
* **`ClassLinkerRoots`** stops after `MaxCycles` collections.
* **`VTable` and `FieldLayout`** stop once every class is linked.

`Resolution` ends in `Done`, which stutters, so a resolution that can take
no step is reported as a deadlock.

| run | bounds | checks | result |
|---|---|---|---|
| `define` | 2 threads; four classes: one with a missing super, one whose allocation fails, one whose link fails, one that turns erroneous; one that extends itself; a failing array; 1 call each | `TypeOK`, `OneClassPerDescriptor`, `HandedOutClassIsTableEntry`, `EnsureResolvedNeverWaits`, `ImageClassesCanonical`, `CallsReturn`, `LookupClassesSeesImage`; image holds A, 1 failed lookup allowed; the debugger asks for A | pass, 223 427 states |
| `init` | 2 threads; C extends B extends A; A's `<clinit>` initializes B; A's and B's `<clinit>` may throw; A soft-fails the verifier, B is preverified, D fails it hard, the oat file rejects E; the runtime and all three compiler modes; 1 call each | `TypeOK`, `ClinitAtMostOnce`, `SuperInitializedFirst`, `CompilerChecksHold`, `SuperFailureMeansErroneous`, `InitializedWhenEnsured`, `ImplementsAbstractInit`, `CallsReturnUnlessInitCycle` | pass, 35 685 states |
| `roots` | 2 threads, 1 dex file, 2 classes, 2 collections by CMS or SS | `TypeOK`, `ClassTableRootsValid`, `DexCacheCoherent`, `LoggedDexCachesMarked` | pass, 18 337 states |
| `methods` | chain of 4 classes in 2 packages, 2 method names, 3 interfaces, IMT of 2 | `TypeOK`, `InheritedSlotsKept`, `MethodIndexConsistent`, `IfTableFlattened`, `InterfaceMethodsResolved`, `ImtSoundImplemented` | pass, 145 792 states |
| `fields` | chain of 2 classes, 3 field names of any type, instance and static | `TypeOK`, `InstanceLayoutSound`, `InstanceSizeTight`, `ClassSizeMatches`, `RefOffsetsExact` | pass, 200 737 states |
| `resolve` | 2 threads, 1 call each; O, A extends O implements I, B extends A; every declaration of one method and one field; 1 literal in 2 dex files; 5 method and 3 field references | `TypeOK`, `StringsCanonical`, `MethodCacheTransparent` | pass, 361 152 states |
| `define_cycle_deadlock` | 2 threads; A extends B, B extends A | `CallsReturn` | **violated** |
| `init_verify_race` | 2 threads; B extends A; A's `<clinit>` may throw; both verify without failure; runtime mode | `VerifyNeverAborts` | **violated** |
| `define_abort` | 2 threads; A, then B and C extending A; A turns erroneous | `NoAbort` | **violated** |
| `roots_dexcache` | SS only, 1 collection | `DexCacheRootsValid` | **violated** |
| `vtable_override` | as `methods` | `OverridesAccessible` | **violated** |
| `iface_imt` | as `methods` | `ImtSound` | **violated** |

What each run shows:

* **`define`.** Two threads race to define the same classes and an array
  class, and every failure path of `DefineClass` and `CreateArrayClass` is
  reachable. The run checks these things:
  * there is one table entry per descriptor;
  * every class handed out (returned, or put in the dex cache) is that
    entry;
  * `EnsureResolved` never has to wait: a thread that gets the monitor of
    a class another thread defined finds it resolved or erroneous, so
    `FindClass` never hands out a class that is still being linked;
  * every error path releases and marks its class, so every call returns;
  * an image class is the only object for its descriptor. This holds
    whether it is found through the image fallback, moved by a lookup past
    the failure limit, or moved by `VisitClasses`, and whatever the
    interleaving of the racy failure counter.
  * the debugger's `LookupClasses` for an image class always returns it,
    whether its unlocked read of the flag is stale or not. Without the move
    at 2803 it would miss an image class no `FindClass` has inserted yet.
* **`define`, circularity.** C names itself as its superclass. Its defining
  thread gets `ClassCircularityError` from `EnsureResolved` (1565) instead
  of waiting on itself.
* **`init`.** Two threads each run `EnsureInitialized` on any class of
  the chain, or on D. Every `<clinit>` runs once, after its superclass is initialized,
  or while the same thread initializes it further up the stack. An outermost
  call that returns true leaves the class initialized. Every step refines
  `ClassInitAbstract`. In the compiler's modes, `CanWeInitializeClass`,
  read with no lock held, is enough to keep the `CHECK`s on
  `can_init_parents` (3452) and `can_init_statics` (3481, 3497) from
  failing. This holds because a status, once Initialized, never changes
  again. The two threads can deadlock (thread 1 runs A's `<clinit>` and
  waits for B, while thread 2 initializes B and waits for its superclass
  A). TLC reaches this state, and every call that does not return is caught
  in that cycle.
  A throwing `<clinit>` or a failed verification makes the
  class and its subclasses erroneous. A waiter woken spuriously re-tests the
  status. A superclass failure is always seen as an erroneous superclass
  (the `CHECK` at 3458). The error paths refine
  `ClassInitAbstract`: a class whose superclass failed never runs its
  `<clinit>`.
* **`resolve`.** Two threads race on the same string slot, or on the
  same literal in two dex files, and on every method and field slot. All
  the string slots and results with the same contents are one object,
  because `InternStrong` is canonical. Every `ResolveMethod` returns what a
  miss would return, whether it missed, hit a slot the other thread filled,
  or hit a slot an invoke of the other kind sharing the index filled.
  The slots' initial resolution method is never taken for a hit, and a
  failure is never cached.
* **`roots`.** With either collector, `class_table_` roots stay valid across
  an `InsertClass` that races with the root scan, because the class-root log
  is reported in the remark pause and the table entry is the slot `SS`
  rewrites. A racing second registration of one dex file is kept out by
  the re-check, so all classes of a dex file share its DexCache. A dex file
  registered during marking is marked before the sweep.
* **`methods`.** Over every combination of declarations, the following
  hold:
  * every inherited vtable slot keeps its method or an override of the same
    name;
  * every method sits at its `method_index`, mirandas included;
  * the iftable lists each interface once, after the superclass's;
  * every interface method resolves to the most derived method of its name;
  * each IMT slot is right for the implemented methods.
* **`fields`.** The run checks four things of the layouts:
  * the instance fields of a class and its ancestors do not overlap;
  * 64-bit fields are 8-aligned and references come first;
  * the object size wastes at most one word, and the static layout fills
    exactly the size `SizeOfClass` allocated (the `CHECK_EQ` at 4136);
  * each reference bitmap holds exactly the encodable reference offsets, or
    `WALK_SUPER` when one of the class's or an ancestor's references cannot
    be encoded.

The violation runs are findings (see `PROJECT.json`):

* **`define_cycle_deadlock`.** The circularity check recognises only the
  same thread (1565). With two threads, each holds one monitor from
  `DefineClass` (1706) and blocks on the other's in `EnsureResolved`
  (1563).
* **`init_verify_race`.** One thread verifies B and, holding A's lock,
  verifies A; it then releases A's lock (2878) and verifies B itself.
  Meanwhile the other thread initializes A, whose `<clinit>` throws, so A
  becomes erroneous. The first thread's unlocked second look (2911) finds A
  not verified, and `CHECK_EQ(super->GetStatus(),
  kStatusRetryVerificationAtRuntime)` (2915) aborts the runtime. That status
  is set only by the compiler. Only a class that verified without failure, or that its oat file
  preverified, takes this second look. A soft failure at runtime skips it
  (2928).
* **`define_abort`.** A class resolved and cached in the dex cache can turn
  erroneous when its `<clinit>` throws. `ResolveType` still returns it from
  the dex cache (4405), and a subclass being defined then fails
  `CHECK(super_class->IsResolved())` in `LinkFields` (4186). The runtime
  aborts instead of throwing `NoClassDefFoundError`.
  With two threads the same failure has a second, shorter path, which is
  the trace TLC reports: `EnsureResolved` (1576-1581) tests `IsErroneous`
  and then CHECKs `IsResolved`, both without the monitor. A's `<clinit>`
  failing on another thread between the two reads sets kStatusError, and
  the `CHECK` aborts.
* **`roots_dexcache`.** `VisitRoots` iterates `dex_caches_` by value
  (1348) and reports the address of the loop copy. A moving collector
  updates the copy, and `dex_caches_` keeps the stale pointer.
* **`vtable_override`.** `VirtualLoop` stops at the first same-named slot
  the class may access (3808). A method overriding both a package-private
  and a public inherited `m`, which sit in different slots, replaces only
  the first, so a call through the other slot reaches the ancestor's
  method.
* **`iface_imt`.** A miranda method does not mark its IMT slot (4067). An
  implemented interface method in the same slot then takes the slot, so an
  interface call of the miranda's method dispatches to the wrong method.

Each property of a passing run has a mutant in `PROJECT.json`: a plausible
bug in the mapped code, written as an operator next to the one it replaces,
that makes TLC report that property violated. The mutants are:

* `ClassDefine`:
  * `InsertClass` without its re-check;
  * a race loser that unlocks the winner;
  * `CreateArrayClass` returning its own object after losing;
  * a class published without its monitor held;
  * `LinkClass` forgetting `kStatusResolved`;
  * a failed link forgetting `kStatusError`;
  * `MoveImageClassesToClassTable` clearing the flag without moving.
* `ClassInit`:
  * `Wait()` not restoring the recursion count;
  * the verified test made before the initializing test;
  * a merely verified superclass taken as initialized;
  * the recursive-request test not comparing the thread;
  * any wake-up taken as a failure;
  * the superclass step skipped, checked against the refinement;
  * `CanWeInitializeClass` without its superclass `IsInitialized` test;
  * `WaitForInitializeClass` entered without comparing the clinit thread,
    so a recursive request waits on its own thread.
* `ClassLinkerRoots`:
  * `InsertClass` without logging;
  * inserting after the log was reset;
  * `RegisterDexFileLocked` without its re-check;
  * the new dex-cache log cleared before it is reported.
* `VTable`:
  * the root's vtable indexed from 0;
  * a subclass vtable cut short;
  * mirandas indexed from 0, or not appended to the vtable;
  * the iftable without its duplicate check;
  * the IMT with last-writer-wins.
* `Resolution`:
  * `ResolveString` allocating a string instead of interning it;
  * a method-slot hit test without `IsRuntimeMethod`;
  * a failed method resolution cached in the slot.
* `FieldLayout`:
  * the gap filler dropping the field, not padding, or always padding;
  * `SizeOfClass` never borrowing a 32-bit field for padding;
  * `CreateReferenceInstanceOffsets` ignoring an overflowed superclass.

## Plan

Done so far:
* `ClassDefine`, with the class table and its image fallback;
* `ClassInit`, with its refinement of `ClassInitAbstract`;
* `ClassLinkerRoots`;
* `VTable`;
* `FieldLayout`;
* `Resolution`.

Still to build:

1. **`VTable`, remaining paths.** Interface classes (`LinkInterfaceMethods`
   on an interface) and the direct-method indices.
2. **`FieldLayout`, remaining paths.** The `java.lang.ref.Reference`
   referent special case.
3. **Class table, remaining operations.** `RemoveClass`, the iteration of `VisitClasses`, and non-boot class loaders.
4. **Composition.** `ClassDefine` and `ClassInit` over shared status and
   monitors. `Resolution`'s `ResolveType` could then use `ClassDefine`'s
   `FindClass` instead of one atomic step.
5. **`Resolution`, mixed kinds.** A method or field index used by
   instructions of different kinds, as separate compilation produces.
   This needs the callers' re-checks, which are not in the source.

## Not modelled

The following parts have no concurrency or protocol for a model checker to
explore:

* oat and image file handling (file I/O and checksums);
* proxy class construction (field-by-field setup under the same locking
  pattern as `DefineClass`);
* the JDWP object registry;
* `image_writer.h`, `well_known_classes.h` and the verifier's `RegTypeCache`
  header (declarations only);
* the ARM64 assembler (sequential code emission).

These parts are left out because modelling them would add state that no
property can tell apart:

* code entry points: `LinkCode` (2014) installs the resolution trampoline
  for static methods, and `FixupStaticTrampolines` (1950) replaces it under
  the class's monitor right after `InitializeClass` sets kStatusInitialized
  (3526). The choice of bridge is a function of the oat file's code and the
  interpreter mode. What the trampoline protects, a static call reaching a
  class that is not initialized, is `EnsureInitialized`, which `ClassInit`
  models. `InitializeClassSucceeded` therefore leaves out the fixup's
  writes, which only change entry points;
* `RemoveClass` (2656), which nothing in this file calls;
* the plan items above: composing `ClassDefine` with `ClassInit` makes the
  product of two state spaces that already take minutes each, and mixed
  invoke kinds depend on callers outside the source.
