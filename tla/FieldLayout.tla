------------------------------ MODULE FieldLayout ------------------------------
(***************************************************************************)
(* Field layout in ClassLinker::LinkClass: LinkInstanceFields and         *)
(* LinkStaticFields (both LinkFields) assign every field a byte offset    *)
(* and set the object or class size; CreateReferenceInstanceOffsets and   *)
(* CreateReferenceStaticOffsets encode where the reference fields are for *)
(* the garbage collector.  DefineClass allocates the class object with    *)
(* the size SizeOfClass precomputes from the static fields, and           *)
(* LinkStaticFields CHECKs that the layout used exactly that size.        *)
(*                                                                         *)
(* The classes of Chain are linked superclass first; Chain[1] plays       *)
(* java.lang.Object.  DefineClass loads the fields a class declares.       *)
(* A field is a name and a type: a reference, a 64-bit primitive (long,   *)
(* double) or a 32-bit one (every other primitive takes 4 bytes here).    *)
(***************************************************************************)
EXTENDS Naturals, Sequences, SequencesExt

CONSTANTS
  Chain,        \* Seq of classes, each the superclass of the next
  FieldNames,   \* Seq of field names in strcmp order
  IFieldsOf,    \* Classes -> the names a class may give instance fields
  SFieldsOf,    \* Classes -> the names a class may give static fields
  ClassBase,    \* mirror::Class::FieldsOffset(), = sizeof(mirror::Class)
  RefWords,     \* words a reference-offset bitmap can encode
  WalkSuper,    \* CLASS_WALK_SUPER: walk the hierarchy's fields instead
  None

Classes == ToSet(Chain)
Pos(c) == CHOOSE k \in 1..Len(Chain) : Chain[k] = c
Super(c) == Chain[Pos(c) - 1]
IsRoot(c) == Pos(c) = 1

Types == {"ref", "wide", "word"}
Width(t) == IF t = "wide" THEN 8 ELSE 4

ASSUME /\ IsInjective(Chain) /\ IsInjective(FieldNames)
       /\ IFieldsOf \in [Classes -> SUBSET ToSet(FieldNames)]
       /\ SFieldsOf \in [Classes -> SUBSET ToSet(FieldNames)]
       /\ ClassBase \in Nat /\ ClassBase % 4 = 0 /\ RefWords \in Nat


VARIABLES
  ifields,      \* Classes -> (names -> Types): declared instance fields
  sfields,      \* Classes -> (names -> Types): declared static fields
  classSize,    \* Classes -> Nat: class_size_ (allocated, then relaid)
  allocSize,    \* Classes -> Nat: the size DefineClass allocated
  status,       \* Classes -> {"new", "loaded", "resolved"}
  ioffset,      \* Classes -> (names -> Nat): offsets of own instance fields
  soffset,      \* Classes -> (names -> Nat): offsets of static fields
  objectSize,   \* Classes -> Nat: object_size_
  numRefs,      \* Classes -> Nat: num_reference_instance_fields_
  numSRefs,     \* Classes -> Nat: num_reference_static_fields_
  refOffsets,   \* Classes -> SUBSET Nat \cup {WalkSuper}, in words
  srefOffsets   \* Classes -> SUBSET Nat \cup {WalkSuper}, in words

vars == <<ifields, sfields, classSize, allocSize, status, ioffset, soffset,
          objectSize, numRefs, numSRefs, refOffsets, srefOffsets>>

-----------------------------------------------------------------------------
(* LinkFieldsComparator: references, then 64-bit, then 32-bit fields;     *)
(* within a group by name.                                                *)
Group(t) == CASE t = "ref" -> 0 [] t = "wide" -> 1 [] t = "word" -> 2
Rank(n) == CHOOSE k \in 1..Len(FieldNames) : FieldNames[k] = n
FieldLess(f, g) ==
  \/ Group(f.type) < Group(g.type)
  \/ Group(f.type) = Group(g.type) /\ Rank(f.name) < Rank(g.name)

Fields(fs) == {[name |-> n, type |-> fs[n]] : n \in DOMAIN fs}

(* Place field f at the running offset.                                   *)
Place(st, f) ==
  [st EXCEPT !.ofs = @ @@ (f.name :> st.off), !.off = @ + Width(f.type)]

(* The offset after the references is not 8-aligned and fields remain:   *)
(* the first remaining field that is not 64-bit is placed there, and the  *)
(* offset advances one word whether or not one was found.                 *)
FillGapNoPad(st, rest) ==
  LET k == SelectInSeq(rest, LAMBDA f : f.type # "wide") IN
  IF k = 0 THEN [st |-> st, rest |-> rest]
  ELSE [st |-> Place(st, rest[k]), rest |-> RemoveAt(rest, k)]
FillGapAlwaysPads(st, rest) ==
  LET k == SelectInSeq(rest, LAMBDA f : f.type # "wide") IN
  IF k = 0 THEN [st |-> [st EXCEPT !.off = @ + 4], rest |-> rest]
  ELSE [st |-> [Place(st, rest[k]) EXCEPT !.off = @ + 4],
        rest |-> RemoveAt(rest, k)]
FillGapDropsField(st, rest) ==
  LET k == SelectInSeq(rest, LAMBDA f : f.type # "wide") IN
  IF k = 0 THEN [st |-> [st EXCEPT !.off = @ + 4], rest |-> rest]
  ELSE [st |-> [st EXCEPT !.off = @ + 4], rest |-> RemoveAt(rest, k)]
FillGap(st, rest) ==
  LET k == SelectInSeq(rest, LAMBDA f : f.type # "wide") IN
  IF k = 0 THEN [st |-> [st EXCEPT !.off = @ + 4], rest |-> rest]
  ELSE [st |-> Place(st, rest[k]), rest |-> RemoveAt(rest, k)]

(* LinkFields over the fields fs, starting at byte offset start:          *)
(* the references first; then, if fields remain and the offset is not     *)
(* 8-aligned, the first remaining 32-bit field is moved into the gap, or  *)
(* the gap is left as padding; then the rest in comparator order.         *)
(* Result: the offsets, the final offset (the size) and the number of     *)
(* reference fields.                                                      *)
LinkFields(fs, start) ==
  LET sorted == SortSeq(SetToSeq(Fields(fs)), FieldLess)
      nref == Cardinality({n \in DOMAIN fs : fs[n] = "ref"})
      refs == FoldLeft(Place, [ofs |-> <<>>, off |-> start],
                       SubSeq(sorted, 1, nref))
      rest == SubSeq(sorted, nref + 1, Len(sorted))
      gap == rest # <<>> /\ refs.off % 8 # 0
      padded == IF gap THEN FillGap(refs, rest) ELSE [st |-> refs, rest |-> rest]
      all == FoldLeft(Place, padded.st, padded.rest)
  IN [ofs |-> all.ofs, size |-> all.off, nref |-> nref]

Count(fs, t) == Cardinality({n \in DOMAIN fs : fs[n] = t})

(* SizeOfClass: the class object size precomputed from the counts of the *)
(* static field types, "matching LinkStaticFields": sizeof(Class), the    *)
(* references, a word of padding (taken from the 32-bit fields if there  *)
(* is one) when 64-bit fields follow a misaligned offset, the 64-bit and  *)
(* the remaining 32-bit fields.                                           *)
SizeOfClassNoBorrow(fs) ==
  LET size == ClassBase + 4 * Count(fs, "ref")
      pad == Count(fs, "wide") # 0 /\ size % 8 # 0
  IN size + (IF pad THEN 4 ELSE 0)
       + 8 * Count(fs, "wide") + 4 * Count(fs, "word")
SizeOfClass(fs) ==
  LET size == ClassBase + 4 * Count(fs, "ref")
      pad == Count(fs, "wide") # 0 /\ size % 8 # 0
      n32 == IF pad /\ Count(fs, "word") # 0 THEN Count(fs, "word") - 1
             ELSE Count(fs, "word")
  IN size + (IF pad THEN 4 ELSE 0) + 8 * Count(fs, "wide") + 4 * n32

(* CLASS_CAN_ENCODE_OFFSET: the word of the offset has a bit in the map.  *)
CanEncode(off) == off \div 4 < RefWords

(* CreateReferenceOffsets: the bits of the reference fields' offsets are  *)
(* or'ed into the inherited map; an offset with no bit makes it           *)
(* CLASS_WALK_SUPER.                                                      *)
CreateReferenceOffsets(init, ofs, fs) ==
  LET R == {ofs[n] : n \in {x \in DOMAIN fs : fs[x] = "ref"}}
  IN IF \E off \in R : ~CanEncode(off) THEN WalkSuper
     ELSE init \cup {off \div 4 : off \in R}

(* CreateReferenceInstanceOffsets: a superclass that overflowed makes the *)
(* class walk too.                                                        *)
CreateReferenceInstanceOffsetsFromEmpty(c, ofs) ==
  CreateReferenceOffsets(
    IF IsRoot(c) \/ refOffsets[Super(c)] = WalkSuper THEN {}
    ELSE refOffsets[Super(c)], ofs, ifields[c])
CreateReferenceInstanceOffsets(c, ofs) ==
  IF ~IsRoot(c) /\ refOffsets[Super(c)] = WalkSuper THEN WalkSuper
  ELSE CreateReferenceOffsets(IF IsRoot(c) THEN {} ELSE refOffsets[Super(c)],
                              ofs, ifields[c])

-----------------------------------------------------------------------------
(* The fields a class may declare, each with any type.                    *)
Declarations(N) == UNION {[S -> Types] : S \in SUBSET N}

(* LoadClass and LoadClassMembers: a class without class data has no     *)
(* fields; otherwise the static and instance field arrays are allocated   *)
(* and each ArtField is loaded from the dex file in declaration order     *)
(* (the order is immaterial: LinkFields sorts).  Allocation failures are  *)
(* the ClassDefine module's; methods are the VTable module's.             *)
LoadClass(c, ids, sds) ==
  /\ ifields' = [ifields EXCEPT ![c] = ids]
  /\ sfields' = [sfields EXCEPT ![c] = sds]

Init ==
  /\ ifields = [c \in Classes |-> <<>>]
  /\ sfields = [c \in Classes |-> <<>>]
  /\ status = [c \in Classes |-> "new"]
  /\ classSize = [c \in Classes |-> 0]
  /\ allocSize = [c \in Classes |-> 0]
  /\ ioffset = [c \in Classes |-> <<>>]
  /\ soffset = [c \in Classes |-> <<>>]
  /\ objectSize = [c \in Classes |-> 0]
  /\ numRefs = [c \in Classes |-> 0]
  /\ numSRefs = [c \in Classes |-> 0]
  /\ refOffsets = [c \in Classes |-> {}]
  /\ srefOffsets = [c \in Classes |-> {}]

(* DefineClass: AllocClass with the size SizeOfClass precomputes from    *)
(* the class def's static fields, then LoadClass.                         *)
DefineClass(c) ==
  /\ status[c] = "new"
  /\ \E ids \in Declarations(IFieldsOf[c]), sds \in Declarations(SFieldsOf[c]) :
       /\ allocSize' = [allocSize EXCEPT ![c] = SizeOfClass(sds)]
       /\ classSize' = [classSize EXCEPT ![c] = SizeOfClass(sds)]
       /\ LoadClass(c, ids, sds)
  /\ status' = [status EXCEPT ![c] = "loaded"]
  /\ UNCHANGED <<ioffset, soffset, objectSize, numRefs, numSRefs,
                 refOffsets, srefOffsets>>

(* LinkClass after LinkMethods: LinkInstanceFields from the superclass's  *)
(* object size (it CHECKs the superclass is resolved), LinkStaticFields   *)
(* from Class::FieldsOffset(), the two reference maps, status Resolved.   *)
LinkClass(c) ==
  /\ status[c] = "loaded"
  /\ IF IsRoot(c) THEN TRUE ELSE status[Super(c)] = "resolved"
  /\ LET i == LinkFields(ifields[c], IF IsRoot(c) THEN 0
                                     ELSE objectSize[Super(c)])
         st == LinkFields(sfields[c], ClassBase)
     IN /\ ioffset' = [ioffset EXCEPT ![c] = i.ofs]
        /\ objectSize' = [objectSize EXCEPT ![c] = i.size]
        /\ numRefs' = [numRefs EXCEPT ![c] = i.nref]
        /\ soffset' = [soffset EXCEPT ![c] = st.ofs]
        /\ classSize' = [classSize EXCEPT ![c] = st.size]
        /\ numSRefs' = [numSRefs EXCEPT ![c] = st.nref]
        /\ refOffsets' = [refOffsets EXCEPT ![c] =
                            CreateReferenceInstanceOffsets(c, i.ofs)]
        /\ srefOffsets' = [srefOffsets EXCEPT ![c] =
                             CreateReferenceOffsets({}, st.ofs, sfields[c])]
  /\ status' = [status EXCEPT ![c] = "resolved"]
  /\ UNCHANGED <<ifields, sfields, allocSize>>

Next ==
  \E c \in Classes :
    \/ DefineClass(c)
    \/ LinkClass(c)

Spec == Init /\ [][Next]_vars

-----------------------------------------------------------------------------
Resolved == {c \in Classes : status[c] = "resolved"}
Ancestry(c) == {Chain[k] : k \in 1..Pos(c)}

(* The instance fields of an object of class c: <<declaring class, name>>. *)
ObjectFields(c) == UNION {{<<a, n>> : n \in DOMAIN ifields[a]} : a \in Ancestry(c)}
Off(f) == ioffset[f[1]][f[2]]
Wid(f) == Width(ifields[f[1]][f[2]])
IsRef(f) == ifields[f[1]][f[2]] = "ref"

MaxSize == ClassBase + 8 * Len(FieldNames) * Len(Chain) + 4 * Len(Chain)

TypeOK ==
  /\ status \in [Classes -> {"new", "loaded", "resolved"}]
  /\ \A c \in Resolved :
       /\ ioffset[c] \in [DOMAIN ifields[c] -> 0..MaxSize]
       /\ soffset[c] \in [DOMAIN sfields[c] -> 0..MaxSize]
       /\ objectSize[c] \in 0..MaxSize /\ classSize[c] \in 0..MaxSize
       /\ refOffsets[c] \in SUBSET (0..MaxSize) \cup {WalkSuper}
       /\ srefOffsets[c] \in SUBSET (0..MaxSize) \cup {WalkSuper}

(* The layout of an object of a resolved class: the fields of the class   *)
(* and of its ancestors lie inside the object and do not overlap, 64-bit  *)
(* fields are 8-aligned, the class's own fields come after its            *)
(* superclass's object, and its references before its primitives (the     *)
(* collector and CreateReferenceOffsets take the first num_reference      *)
(* fields as the references).                                             *)
InstanceLayoutSound ==
  \A c \in Resolved :
    /\ \A f \in ObjectFields(c) :
         /\ Off(f) + Wid(f) <= objectSize[c]
         /\ Wid(f) = 8 => Off(f) % 8 = 0
    /\ \A f, g \in ObjectFields(c) :
         f # g => Off(f) + Wid(f) <= Off(g) \/ Off(g) + Wid(g) <= Off(f)
    /\ ~IsRoot(c) => \A n \in DOMAIN ifields[c] :
                       ioffset[c][n] >= objectSize[Super(c)]
    /\ \A f, g \in {<<c, n>> : n \in DOMAIN ifields[c]} :
         IsRef(f) /\ ~IsRef(g) => Off(f) < Off(g)

(* Objects waste at most the one word of padding the 64-bit fields need:  *)
(* object_size_ is what SizeOfClass's count formula gives for the class's *)
(* own fields on top of the superclass's object size.                     *)
InstanceSizeTight ==
  \A c \in Resolved :
    LET base == IF IsRoot(c) THEN 0 ELSE objectSize[Super(c)]
        size == base + 4 * Count(ifields[c], "ref")
        pad == Count(ifields[c], "wide") # 0 /\ size % 8 # 0
        n32 == IF pad /\ Count(ifields[c], "word") # 0
                 THEN Count(ifields[c], "word") - 1
                 ELSE Count(ifields[c], "word")
    IN objectSize[c] = size + (IF pad THEN 4 ELSE 0)
                         + 8 * Count(ifields[c], "wide") + 4 * n32

(* LinkStaticFields CHECKs that the static layout filled exactly the      *)
(* class object DefineClass allocated with SizeOfClass's size.            *)
ClassSizeMatches ==
  \A c \in Resolved : classSize[c] = allocSize[c]

(* The reference map tells the collector exactly which words of an        *)
(* object hold references, its own and inherited ones, or tells it to     *)
(* walk the hierarchy when one of them has no bit; the same for the       *)
(* static fields of the class object.                                     *)
RefOffsetsExact ==
  \A c \in Resolved :
    /\ LET R == {Off(f) : f \in {g \in ObjectFields(c) : IsRef(g)}} IN
       refOffsets[c] = IF \E off \in R : ~CanEncode(off) THEN WalkSuper
                       ELSE {off \div 4 : off \in R}
    /\ LET R == {soffset[c][n] : n \in {x \in DOMAIN sfields[c] :
                                          sfields[c][x] = "ref"}} IN
       srefOffsets[c] = IF \E off \in R : ~CanEncode(off) THEN WalkSuper
                        ELSE {off \div 4 : off \in R}

=============================================================================
