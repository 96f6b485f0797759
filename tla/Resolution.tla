------------------------------ MODULE Resolution ------------------------------
(***************************************************************************)
(* Resolution of the constants a method's code refers to, through the     *)
(* dex cache: ClassLinker::ResolveString, ResolveMethod, ResolveField and  *)
(* ResolveFieldJLS, with the ResolveType each of the member resolutions   *)
(* starts with, for several threads sharing the dex caches and the intern *)
(* table.  The cache slots are read and written with no lock.             *)
(*                                                                         *)
(* The classes are linked and do not change.  There is one method name   *)
(* and one field name (with one signature and one type), so a class       *)
(* declares the method as static, direct (private, an instance method),   *)
(* virtual, or not at all, and the field as static, instance, or not at   *)
(* all; these declarations are chosen in Init over all small inputs.  A   *)
(* resolved member is the class that declares it.  FindClass of a class   *)
(* reference succeeds, except for Missing; ClassDefine models how.         *)
(***************************************************************************)
EXTENDS Naturals, Sequences, FiniteSets, SequencesExt

CONSTANTS
  Threads,      \* mutator threads
  Dex,          \* dex files, each with its own dex cache
  StrIdx,       \* string indices of a dex file
  StrContent,   \* [Dex \X StrIdx -> Contents]: the string data
  Contents,     \* string contents
  Classes,      \* linked classes
  Ifaces,       \* linked interfaces
  Object,       \* java.lang.Object
  Super,        \* Classes \cup Ifaces -> Classes \cup {None}
  Implements,   \* Classes -> SUBSET Ifaces: directly implemented interfaces
  Missing,      \* a class reference FindClass does not find
  Referrer,     \* the class of the referring method
  MethodIdx,    \* method indices of the dex file
  MRef,         \* MethodIdx -> [cls, kinds]: class and the invoke kinds using it
  FieldIdx,     \* field indices of the dex file
  FRef,         \* FieldIdx -> [cls, op]: class and "static", "instance" or "jls"
  MDecls,       \* Classes \cup Ifaces -> SUBSET MKind: possible method declarations
  FDecls,       \* Classes \cup Ifaces -> SUBSET FKind: possible field declarations
  MaxCalls,     \* resolutions per thread
  MaxStrings,   \* string objects that may be allocated
  ResolutionMethod, \* the runtime's resolution method (a runtime method)
  None

Types == Classes \cup Ifaces
Kinds == {"kStatic", "kDirect", "kVirtual", "kSuper", "kInterface"}
MKind == {"static", "direct", "virtual", None}
FKind == {"static", "instance", None}

ASSUME /\ StrContent \in [Dex \X StrIdx -> Contents]
       /\ Object \in Classes /\ Super[Object] = None
       /\ Super \in [Types -> Classes \cup {None}]
       /\ Implements \in [Classes -> SUBSET Ifaces]
       /\ Missing \notin Types /\ Referrer \in Classes
       /\ MRef \in [MethodIdx -> [cls : Types \cup {Missing}, kinds : SUBSET Kinds]]
       /\ FRef \in [FieldIdx -> [cls : Types \cup {Missing},
                                 op : {"static", "instance", "jls"}]]
       /\ MDecls \in [Types -> SUBSET MKind] /\ FDecls \in [Types -> SUBSET FKind]
       /\ MaxCalls \in Nat /\ MaxStrings \in Nat

(* A string object: its contents and an allocation number.                 *)
StrObj == Contents \X (1..MaxStrings)

(* What a thread resolves: a string of a dex file, a method index with    *)
(* the invoke kind of the instruction, or a field index, through          *)
(* ResolveField or ResolveFieldJLS as the index's op says.                 *)
Req == [op : {"string"}, d : Dex, s : StrIdx]
       \cup [op : {"method"}, i : MethodIdx, k : Kinds]
       \cup [op : {"field", "fieldJLS"}, i : FieldIdx]
Requests == {r \in Req : /\ r.op = "method" => r.k \in MRef[r.i].kinds
                         /\ r.op = "field" => FRef[r.i].op # "jls"
                         /\ r.op = "fieldJLS" => FRef[r.i].op = "jls"}
Errors == {"NoClassDefFoundError", "NoSuchMethodError", "NoSuchFieldError",
           "IncompatibleClassChangeError", "IllegalAccessError"}

VARIABLES
  mdecl,      \* Types -> MKind: how the class declares the method
  fdecl,      \* Types -> FKind: how the class declares the field
  strings,    \* Dex \X StrIdx -> StrObj \cup {None}: resolved strings
  interned,   \* Contents -> StrObj \cup {None}: the intern table's strong set
  allocated,  \* string objects allocated so far
  types,      \* Types \cup {Missing} -> Types \cup {None}: resolved types
  methods,    \* MethodIdx -> Types \cup {ResolutionMethod}: resolved methods
  fields,     \* FieldIdx -> Types \cup {None}: resolved fields
  frame,      \* Threads -> the call in progress, or None
  calls,      \* Threads -> Nat: resolutions started
  returned    \* history: the requests that returned, with their results

vars == <<mdecl, fdecl, strings, interned, allocated, types, methods, fields,
          frame, calls, returned>>

Pcs == {"start", "intern", "set", "type", "lookup"}
Frame == [req : Requests, pc : Pcs, klass : Types \cup {None},
          str : StrObj \cup {None}]

TypeOK ==
  /\ mdecl \in [Types -> MKind] /\ fdecl \in [Types -> FKind]
  /\ strings \in [Dex \X StrIdx -> StrObj \cup {None}]
  /\ interned \in [Contents -> StrObj \cup {None}]
  /\ allocated \in 0..MaxStrings
  /\ types \in [Types \cup {Missing} -> Types \cup {None}]
  /\ methods \in [MethodIdx -> Types \cup {ResolutionMethod}]
  /\ fields \in [FieldIdx -> Types \cup {None}]
  /\ frame \in [Threads -> Frame \cup {None}]
  /\ calls \in [Threads -> 0..MaxCalls]
  /\ returned \subseteq [req : Requests, res : StrObj \cup Types \cup Errors]

-----------------------------------------------------------------------------
(* The lookups of mirror::Class and ArtMethod, which are not in this      *)
(* file; modelled from their documented behaviour for one member name.   *)

(* A class and its superclasses, nearest first; an interface's superclass *)
(* is java.lang.Object.                                                   *)
RECURSIVE Chain(_)
Chain(c) == IF c = None THEN <<>> ELSE <<c>> \o Chain(Super[c])

(* The nearest class of seq whose declaration is in kinds, or None.       *)
Nearest(seq, decl, kinds) ==
  LET hits == SelectSeq(seq, LAMBDA x : decl[x] \in kinds)
  IN  IF hits = <<>> THEN None ELSE Head(hits)

(* Every interface a class implements, through its superclasses.          *)
IfTable(c) == UNION {Implements[x] : x \in ToSet(Chain(c)) \cap Classes}

FindDirectMethod(c) == Nearest(Chain(c), mdecl, {"static", "direct"})
FindVirtualMethod(c) == Nearest(Chain(c), mdecl, {"virtual"})
FindInterfaceMethod(c) ==
  IF mdecl[c] = "virtual" THEN c
  ELSE LET hits == {i \in IfTable(c) : mdecl[i] = "virtual"}
       IN  IF hits = {} THEN None ELSE CHOOSE i \in hits : TRUE

IsDirect(m) == mdecl[m] \in {"static", "direct"}

(* ArtMethod::CheckIncompatibleClassChange: TRUE when the method cannot   *)
(* be invoked with this kind of instruction.                             *)
CheckIncompatibleClassChange(m, type) ==
  CASE type = "kStatic"    -> mdecl[m] # "static"
    [] type = "kDirect"    -> mdecl[m] # "direct"
    [] type = "kVirtual"   -> IsDirect(m) \/ m \in Ifaces
    [] type = "kSuper"     -> FALSE
    [] type = "kInterface" -> IsDirect(m) \/ m \notin Ifaces \cup {Object}

(* Class::CanAccessMember: every class is public and in one package, so  *)
(* only a private method of another class is out of reach.               *)
CanAccessMember(referring, m) == mdecl[m] # "direct" \/ referring = m

FindInstanceField(c) == Nearest(Chain(c), fdecl, {"instance"})

(* Class::FindStaticField and Class::FindField: the class's own field,    *)
(* then the static fields of its interfaces, then its superclass.        *)
RECURSIVE FieldSearch(_, _)
FieldSearch(c, kinds) ==
  IF c = None THEN None
  ELSE IF fdecl[c] \in kinds THEN c
  ELSE LET hits == {i \in (IF c \in Classes THEN Implements[c] ELSE {}) :
                      fdecl[i] = "static"}
       IN  IF hits # {} THEN CHOOSE i \in hits : TRUE
           ELSE FieldSearch(Super[c], kinds)
FindStaticField(c) == FieldSearch(c, {"static"})
FindField(c) == FieldSearch(c, {"static", "instance"})

-----------------------------------------------------------------------------
(* ResolveMethod's lookup: by index, then by name and signature (one     *)
(* result here, as the index names the same method), with the           *)
(* incompatible-class-change check; None when the method is not found.   *)
FirstLookup(klass, type) ==
  CASE type \in {"kDirect", "kStatic"} -> FindDirectMethod(klass)
    [] type = "kInterface"             -> FindInterfaceMethod(klass)
    [] type \in {"kSuper", "kVirtual"} -> FindVirtualMethod(klass)

MethodLookup(klass, type) ==
  LET r == FirstLookup(klass, type)
  IN  IF r # None /\ ~CheckIncompatibleClassChange(r, type) THEN r ELSE None

(* The error ResolveMethod throws when MethodLookup fails.               *)
MethodError(klass, type) ==
  LET r == IF type \in {"kDirect", "kStatic"} THEN FindVirtualMethod(klass)
                                              ELSE FindDirectMethod(klass)
  IN  IF r # None /\ ~CanAccessMember(Referrer, r) THEN "IllegalAccessError"
      ELSE IF type = "kSuper" THEN "NoSuchMethodError"
      ELSE IF r # None THEN "IncompatibleClassChangeError"
      ELSE LET other == IF type = "kInterface" THEN FindVirtualMethod(klass)
                                              ELSE FindInterfaceMethod(klass)
           IN  IF other # None THEN "IncompatibleClassChangeError"
               ELSE "NoSuchMethodError"

(* ResolveField's lookup, by index and then by name, for is_static.      *)
FieldLookup(klass, op) ==
  IF op = "static" THEN FindStaticField(klass) ELSE FindInstanceField(klass)

-----------------------------------------------------------------------------
Init ==
  /\ mdecl \in {d \in [Types -> MKind] : \A c \in Types : d[c] \in MDecls[c]}
  /\ fdecl \in {d \in [Types -> FKind] : \A c \in Types : d[c] \in FDecls[c]}
  /\ strings = [k \in Dex \X StrIdx |-> None]
  /\ interned = [c \in Contents |-> None]
  /\ allocated = 0
  /\ types = [c \in Types \cup {Missing} |-> None]
  /\ methods = [i \in MethodIdx |-> ResolutionMethod]
  /\ fields = [i \in FieldIdx |-> None]
  /\ frame = [t \in Threads |-> None]
  /\ calls = [t \in Threads |-> 0]
  /\ returned = {}

Fr(t) == frame[t]
At(t, op, pc) == frame[t] # None /\ frame[t].req.op = op /\ frame[t].pc = pc
Goto(t, pc) == frame' = [frame EXCEPT ![t].pc = pc]
Return(t, res) ==
  /\ frame' = [frame EXCEPT ![t] = None]
  /\ returned' = returned \cup {[req |-> frame[t].req, res |-> res]}

(* A thread starts one resolution, of a string, a method or a field.     *)
Call(t) ==
  /\ frame[t] = None /\ calls[t] < MaxCalls
  /\ \E r \in Requests :
       frame' = [frame EXCEPT ![t] = [req |-> r, pc |-> "start", klass |-> None,
                                      str |-> None]]
  /\ calls' = [calls EXCEPT ![t] = @ + 1]
  /\ UNCHANGED <<mdecl, fdecl, strings, interned, allocated, types, methods,
                 fields, returned>>

Slot(t) == <<Fr(t).req.d, Fr(t).req.s>>

(* ResolveString: a hit in the dex cache returns the cached string.      *)
ResolveStringHit(t) ==
  /\ At(t, "string", "start") /\ strings[Slot(t)] # None
  /\ Return(t, strings[Slot(t)])
  /\ UNCHANGED <<mdecl, fdecl, strings, interned, allocated, types, methods,
                 fields, calls>>

ResolveStringMiss(t) ==
  /\ At(t, "string", "start") /\ strings[Slot(t)] = None
  /\ Goto(t, "intern")
  /\ UNCHANGED <<mdecl, fdecl, strings, interned, allocated, types, methods,
                 fields, calls, returned>>

(* Mutant: ResolveString allocating a new string instead of interning.   *)
ResolveStringAllocates(t) ==
  LET new == <<StrContent[Slot(t)], allocated + 1>>
  IN  /\ At(t, "string", "intern") /\ allocated < MaxStrings
      /\ allocated' = allocated + 1
      /\ frame' = [frame EXCEPT ![t].str = new, ![t].pc = "set"]
      /\ UNCHANGED <<mdecl, fdecl, strings, interned, types, methods, fields,
                     calls, returned>>

(* InternTable::InternStrong, atomic under the intern table's lock: the  *)
(* interned string of these contents, added if there is none.            *)
InternStrong(t) ==
  LET c == StrContent[Slot(t)]
      new == <<c, allocated + 1>>
  IN  /\ At(t, "string", "intern")
      /\ \/ /\ interned[c] # None
            /\ frame' = [frame EXCEPT ![t].str = interned[c], ![t].pc = "set"]
            /\ UNCHANGED <<interned, allocated>>
         \/ /\ interned[c] = None /\ allocated < MaxStrings
            /\ interned' = [interned EXCEPT ![c] = new]
            /\ allocated' = allocated + 1
            /\ frame' = [frame EXCEPT ![t].str = new, ![t].pc = "set"]
      /\ UNCHANGED <<mdecl, fdecl, strings, types, methods, fields, calls,
                     returned>>

(* ResolveString stores the interned string in the dex cache.             *)
SetResolvedString(t) ==
  /\ At(t, "string", "set")
  /\ strings' = [strings EXCEPT ![Slot(t)] = Fr(t).str]
  /\ Return(t, Fr(t).str)
  /\ UNCHANGED <<mdecl, fdecl, interned, allocated, types, methods, fields,
                 calls>>

(* Mutant: any non-null slot taken for a hit (no IsRuntimeMethod test).   *)
ResolveMethodHitAnySlot(t) ==
  /\ At(t, "method", "start")
  /\ Return(t, methods[Fr(t).req.i])
  /\ UNCHANGED <<mdecl, fdecl, strings, interned, allocated, types, methods,
                 fields, calls>>

(* ResolveMethod: a slot that holds a method other than the runtime's    *)
(* resolution method is a hit.                                           *)
ResolveMethodHit(t) ==
  /\ At(t, "method", "start") /\ methods[Fr(t).req.i] # ResolutionMethod
  /\ Return(t, methods[Fr(t).req.i])
  /\ UNCHANGED <<mdecl, fdecl, strings, interned, allocated, types, methods,
                 fields, calls>>

ResolveMethodMiss(t) ==
  /\ At(t, "method", "start") /\ methods[Fr(t).req.i] = ResolutionMethod
  /\ Goto(t, "type")
  /\ UNCHANGED <<mdecl, fdecl, strings, interned, allocated, types, methods,
                 fields, calls, returned>>

(* ResolveField: a non-null slot is a hit.                                *)
ResolveFieldHit(t) ==
  /\ At(t, "field", "start") /\ fields[Fr(t).req.i] # None
  /\ Return(t, fields[Fr(t).req.i])
  /\ UNCHANGED <<mdecl, fdecl, strings, interned, allocated, types, methods,
                 fields, calls>>

ResolveFieldMiss(t) ==
  /\ At(t, "field", "start") /\ fields[Fr(t).req.i] = None
  /\ Goto(t, "type")
  /\ UNCHANGED <<mdecl, fdecl, strings, interned, allocated, types, methods,
                 fields, calls, returned>>

(* The class a member reference names.                                    *)
RefClass(t) == IF Fr(t).req.op = "method" THEN MRef[Fr(t).req.i].cls
                                          ELSE FRef[Fr(t).req.i].cls

(* ResolveType for the member's declaring class: the cached type, or      *)
(* FindClass and SetResolvedType; when FindClass fails the member         *)
(* resolution returns NULL with NoClassDefFoundError pending.             *)
ResolveTypeHit(t) ==
  /\ frame[t] # None /\ Fr(t).pc = "type" /\ types[RefClass(t)] # None
  /\ frame' = [frame EXCEPT ![t].klass = types[RefClass(t)], ![t].pc = "lookup"]
  /\ UNCHANGED <<mdecl, fdecl, strings, interned, allocated, types, methods,
                 fields, calls, returned>>

ResolveTypeFound(t) ==
  /\ frame[t] # None /\ Fr(t).pc = "type" /\ types[RefClass(t)] = None
  /\ RefClass(t) # Missing
  /\ types' = [types EXCEPT ![RefClass(t)] = RefClass(t)]
  /\ frame' = [frame EXCEPT ![t].klass = RefClass(t), ![t].pc = "lookup"]
  /\ UNCHANGED <<mdecl, fdecl, strings, interned, allocated, methods, fields,
                 calls, returned>>

ResolveTypeNotFound(t) ==
  /\ frame[t] # None /\ Fr(t).pc = "type" /\ RefClass(t) = Missing
  /\ Return(t, "NoClassDefFoundError")
  /\ UNCHANGED <<mdecl, fdecl, strings, interned, allocated, types, methods,
                 fields, calls>>

(* ResolveMethod finds a compatible method and caches it.                 *)
ResolveMethodFound(t) ==
  LET r == MethodLookup(Fr(t).klass, Fr(t).req.k)
  IN  /\ At(t, "method", "lookup") /\ r # None
      /\ methods' = [methods EXCEPT ![Fr(t).req.i] = r]
      /\ Return(t, r)
      /\ UNCHANGED <<mdecl, fdecl, strings, interned, allocated, types, fields,
                     calls>>

(* Mutant: the failure cached in the slot.                              *)
ResolveMethodFailsCached(t) ==
  LET e == MethodError(Fr(t).klass, Fr(t).req.k)
  IN  /\ At(t, "method", "lookup") /\ MethodLookup(Fr(t).klass, Fr(t).req.k) = None
      /\ methods' = [methods EXCEPT ![Fr(t).req.i] = e]
      /\ Return(t, e)
      /\ UNCHANGED <<mdecl, fdecl, strings, interned, allocated, types, fields,
                     calls>>

(* ResolveMethod finds none and throws; the slot is left alone.           *)
ResolveMethodFails(t) ==
  /\ At(t, "method", "lookup") /\ MethodLookup(Fr(t).klass, Fr(t).req.k) = None
  /\ Return(t, MethodError(Fr(t).klass, Fr(t).req.k))
  /\ UNCHANGED <<mdecl, fdecl, strings, interned, allocated, types, methods,
                 fields, calls>>

(* ResolveField finds the field of the requested staticness and caches    *)
(* it, or throws NoSuchFieldError.                                       *)
ResolveFieldFound(t) ==
  LET r == FieldLookup(Fr(t).klass, FRef[Fr(t).req.i].op)
  IN  /\ At(t, "field", "lookup") /\ r # None
      /\ fields' = [fields EXCEPT ![Fr(t).req.i] = r]
      /\ Return(t, r)
      /\ UNCHANGED <<mdecl, fdecl, strings, interned, allocated, types, methods,
                     calls>>

ResolveFieldFails(t) ==
  /\ At(t, "field", "lookup")
  /\ FieldLookup(Fr(t).klass, FRef[Fr(t).req.i].op) = None
  /\ Return(t, "NoSuchFieldError")
  /\ UNCHANGED <<mdecl, fdecl, strings, interned, allocated, types, methods,
                 fields, calls>>

(* ResolveFieldJLS: the same slots, and on a miss Class::FindField, which *)
(* takes an instance or a static field, nearest first.                    *)
ResolveFieldJLSHit(t) ==
  /\ At(t, "fieldJLS", "start") /\ fields[Fr(t).req.i] # None
  /\ Return(t, fields[Fr(t).req.i])
  /\ UNCHANGED <<mdecl, fdecl, strings, interned, allocated, types, methods,
                 fields, calls>>

ResolveFieldJLSMiss(t) ==
  /\ At(t, "fieldJLS", "start") /\ fields[Fr(t).req.i] = None
  /\ Goto(t, "type")
  /\ UNCHANGED <<mdecl, fdecl, strings, interned, allocated, types, methods,
                 fields, calls, returned>>

ResolveFieldJLSFound(t) ==
  LET r == FindField(Fr(t).klass)
  IN  /\ At(t, "fieldJLS", "lookup") /\ r # None
      /\ fields' = [fields EXCEPT ![Fr(t).req.i] = r]
      /\ Return(t, r)
      /\ UNCHANGED <<mdecl, fdecl, strings, interned, allocated, types, methods,
                     calls>>

ResolveFieldJLSFails(t) ==
  /\ At(t, "fieldJLS", "lookup") /\ FindField(Fr(t).klass) = None
  /\ Return(t, "NoSuchFieldError")
  /\ UNCHANGED <<mdecl, fdecl, strings, interned, allocated, types, methods,
                 fields, calls>>

(* Every thread has made its calls and returned.                          *)
Done == \A t \in Threads : frame[t] = None /\ calls[t] = MaxCalls

Next ==
  \/ \E t \in Threads :
       \/ Call(t)
       \/ ResolveStringHit(t) \/ ResolveStringMiss(t) \/ InternStrong(t)
       \/ SetResolvedString(t)
       \/ ResolveMethodHit(t) \/ ResolveMethodMiss(t)
       \/ ResolveFieldHit(t) \/ ResolveFieldMiss(t)
       \/ ResolveTypeHit(t) \/ ResolveTypeFound(t) \/ ResolveTypeNotFound(t)
       \/ ResolveMethodFound(t) \/ ResolveMethodFails(t)
       \/ ResolveFieldFound(t) \/ ResolveFieldFails(t)
       \/ ResolveFieldJLSHit(t) \/ ResolveFieldJLSMiss(t)
       \/ ResolveFieldJLSFound(t) \/ ResolveFieldJLSFails(t)
  \/ Done /\ UNCHANGED vars

Spec == Init /\ [][Next]_vars

-----------------------------------------------------------------------------
(* The objects ResolveString put in the dex caches or returned.           *)
StringsSeen == {strings[k] : k \in {k \in Dex \X StrIdx : strings[k] # None}}
               \cup {r.res : r \in {r \in returned : r.req.op = "string"}}

(* Strings are canonical across threads and dex files: two string slots, *)
(* or two results of ResolveString, for the same contents hold the same  *)
(* object.  Two threads may miss the same slot, or the same literal in   *)
(* two dex files, and each intern and store it; `==` on literals relies  *)
(* on their agreeing.                                                    *)
StringsCanonical == \A x, y \in StringsSeen : x[1] = y[1] => x = y

(* What ResolveMethod returns when it misses the cache for request q.    *)
MethodOutcome(q) ==
  LET c == MRef[q.i].cls
  IN  IF c = Missing THEN "NoClassDefFoundError"
      ELSE IF MethodLookup(c, q.k) # None THEN MethodLookup(c, q.k)
      ELSE MethodError(c, q.k)

(* The method cache is transparent: every ResolveMethod call returned     *)
(* what a miss would have returned, whether it hit a slot another thread *)
(* or an invoke of another kind filled, or missed.  The slots start out  *)
(* holding the runtime's resolution method, which must never be taken   *)
(* for a hit; errors are never cached.                                   *)
MethodCacheTransparent ==
  \A r \in returned : r.req.op = "method" => r.res = MethodOutcome(r.req)

====
