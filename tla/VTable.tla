-------------------------------- MODULE VTable --------------------------------
(***************************************************************************)
(* The method tables of ClassLinker::LinkMethods: LinkVirtualMethods      *)
(* builds a class's vtable from its superclass's, LinkInterfaceMethods    *)
(* flattens its interfaces into the iftable, resolves every interface     *)
(* method to a vtable method or a synthesized miranda method, and fills   *)
(* the interface method table (IMT).                                       *)
(*                                                                         *)
(* The classes of Chain are linked one after another, each after its      *)
(* superclass; Chain[1] plays java.lang.Object.  Each class's package and *)
(* the virtual methods it declares are chosen in Init over all small      *)
(* inputs.  A method is a record: the class that owns it, its name (name  *)
(* and signature), and whether it is a miranda method synthesized for     *)
(* that class.  Interfaces are constants and declare public abstract      *)
(* methods.                                                                *)
(***************************************************************************)
EXTENDS Naturals, Sequences, SequencesExt, Relation

CONSTANTS
  Chain,          \* Seq of classes, each the superclass of the next
  Pkgs,           \* packages
  Names,          \* Seq of method names (and signatures), declaration order
  DeclsOf,        \* names -> the declarations a class may give the name
  Ifaces,         \* interfaces
  IfaceMethods,   \* Ifaces -> Seq(names): the interface's virtual methods
  IfaceSupers,    \* Ifaces -> Seq(Ifaces): its direct super-interfaces
  Implements,     \* classes -> Seq(Ifaces): directly implemented interfaces
  DexIdx,         \* Ifaces -> [names -> Nat]: the interface method's dex index
  ImtSize,        \* kImtSize
  Conflict,       \* the runtime's IMT conflict method
  None

Classes == ToSet(Chain)
NameSet == ToSet(Names)
Pos(c) == CHOOSE k \in 1..Len(Chain) : Chain[k] = c

ASSUME /\ IsInjective(Chain)
       /\ DeclsOf \in [NameSet -> SUBSET ([access : {"public", "package"},
                                           final : BOOLEAN] \cup {None})]
       /\ IfaceMethods \in [Ifaces -> Seq(NameSet)]
       /\ IfaceSupers \in [Ifaces -> Seq(Ifaces)]
       /\ Implements \in [Classes -> Seq(Ifaces)]
       /\ ImtSize \in Nat \ {0}

(* A virtual method declaration: access and the final flag.  Private and  *)
(* static methods are direct methods and never enter the vtable; a        *)
(* protected method is accessible to subclasses like a public one.         *)
Decl == [access : {"public", "package"}, final : BOOLEAN]

Method == [owner : Classes \cup Ifaces, name : NameSet, mir : BOOLEAN]
M(o, n) == [owner |-> o, name |-> n, mir |-> FALSE]
Miranda(c, n) == [owner |-> c, name |-> n, mir |-> TRUE]

VARIABLES
  pkg,      \* Classes -> Pkgs: the class's package
  decl,     \* Classes -> [NameSet -> Decl \cup {None}]: declared virtuals
  status,   \* Classes -> {"new", "linked", "error"}
  vtable,   \* Classes -> Seq(Method): vtable_
  index,    \* Classes -> (names -> slot): method_index_ of own methods
  iftable,  \* Classes -> Seq(Ifaces): iftable_ interfaces
  marrays,  \* Classes -> (<<iface, name>> -> Method): iftable_ method arrays
  imt       \* Classes -> [0..ImtSize-1 -> Method \cup {Conflict}]: imtable_

vars == <<pkg, decl, status, vtable, index, iftable, marrays, imt>>

-----------------------------------------------------------------------------
(* Method attributes.  Interface methods and mirandas (clones of them)    *)
(* are public and abstract.                                                *)
Abstract(m) == m.mir \/ m.owner \in Ifaces
Access(m) == IF Abstract(m) THEN "public" ELSE decl[m.owner][m.name].access
IsFinal(m) == ~Abstract(m) /\ decl[m.owner][m.name].final

(* Class::CanAccessMember: public members are accessible everywhere,      *)
(* package-private ones within the declaring class's package.              *)
CanAccessMember(c, m) ==
  Access(m) = "public" \/ pkg[c] = pkg[m.owner]

(* GetVirtualMethodDuringLinking(i): the declared virtuals, in order.     *)
Local(c) ==
  LET ns == SelectSeq(Names, LAMBDA n : decl[c][n] # None)
  IN [i \in 1..Len(ns) |-> M(c, ns[i])]

-----------------------------------------------------------------------------
(* LinkVirtualMethods with a superclass.  For each declared method, slots *)
(* 1..actual_count (the methods appended so far included) are scanned     *)
(* from the first; the first same-named slot the class may access is      *)
(* overridden, unless it is final (LinkageError); same-named slots it may *)
(* not access are passed over.  With no such slot the method is appended. *)
(* Result: ok, the vtable and each declared method's index.               *)
RECURSIVE VirtualLoop(_, _, _, _)
VirtualLoop(c, vt, ix, i) ==
  IF i > Len(Local(c)) THEN [ok |-> TRUE, vt |-> vt, idx |-> ix]
  ELSE
    LET m == Local(c)[i]
        J == {j \in 1..Len(vt) : vt[j].name = m.name /\ CanAccessMember(c, vt[j])}
    IN IF J = {}
         THEN VirtualLoop(c, Append(vt, m), ix @@ (m.name :> Len(vt) + 1), i + 1)
         ELSE IF IsFinal(vt[Min(J)])
                THEN [ok |-> FALSE, vt |-> vt, idx |-> ix]
                ELSE VirtualLoop(c, [vt EXCEPT ![Min(J)] = m],
                                 ix @@ (m.name :> Min(J)), i + 1)

LinkVirtualMethodsShrinkShort(c, superVt) ==
  LET r == VirtualLoop(c, superVt, <<>>, 1)
  IN IF Len(r.vt) < Len(superVt) + Len(Local(c))
       THEN [r EXCEPT !.vt = SubSeq(@, 1, Len(@) - 1)] ELSE r
LinkVirtualMethods(c, superVt) == VirtualLoop(c, superVt, <<>>, 1)

(* The root class (java.lang.Object): its own virtuals, in order.          *)
LinkVirtualMethodsRootZeroBased(c) ==
  [ok |-> TRUE, vt |-> Local(c),
   idx |-> [n \in {Local(c)[i].name : i \in 1..Len(Local(c))} |->
              (CHOOSE i \in 1..Len(Local(c)) : Local(c)[i].name = n) - 1]]
LinkVirtualMethodsRoot(c) ==
  [ok |-> TRUE, vt |-> Local(c),
   idx |-> [n \in {Local(c)[i].name : i \in 1..Len(Local(c))} |->
              CHOOSE i \in 1..Len(Local(c)) : Local(c)[i].name = n]]

-----------------------------------------------------------------------------
(* The flattening of LinkInterfaceMethods: append each interface of      *)
(* direct not yet present, followed by those of its own iftable not yet   *)
(* present.  An interface's iftable is that flattening of its direct      *)
(* super-interfaces (its superclass, Object, has no interfaces).          *)
RECURSIVE IfTableOf(_), Flatten(_, _)
AddNewNoDuplicateCheck(acc, xs) == acc \o xs
AddNew(acc, xs) ==
  FoldLeft(LAMBDA a, x : IF x \in ToSet(a) THEN a ELSE Append(a, x), acc, xs)

Flatten(acc, direct) ==
  FoldLeft(LAMBDA a, x : IF x \in ToSet(a) THEN a
                         ELSE AddNew(Append(a, x), IfTableOf(x)),
           acc, direct)

IfTableOf(i) == Flatten(<<>>, IfaceSupers[i])

(* ifcount before duplicates are dropped: the superclass's count, the     *)
(* direct interfaces and the iftable count of each.                       *)
IfCount(c, superIft) ==
  Len(superIft) + Len(Implements[c])
    + FoldLeft(LAMBDA a, x : a + Len(IfTableOf(x)), 0, Implements[c])

Marker(i) == IfaceMethods[i] = <<>>

(* The interface methods of an iftable in the order the method arrays are *)
(* filled: <<interface, name>>.                                           *)
IfaceSlots(ift) ==
  FlattenSeq([k \in 1..Len(ift) |->
                [j \in 1..Len(IfaceMethods[ift[k]]) |->
                   <<ift[k], IfaceMethods[ift[k]][j]>>]])

ImtIndex(i, n) == DexIdx[i][n] % ImtSize
ImtSlots == 0..ImtSize - 1

(* Place the method in the IMT slot if it is empty, the conflict method  *)
(* otherwise.                                                             *)
ImtPutLastWins(imt0, s, vm) == [imt0 EXCEPT ![s] = vm]
ImtPut(imt0, s, vm) == [imt0 EXCEPT ![s] = IF @ = None THEN vm ELSE Conflict]

(* The mirandas are appended to the vtable; the i-th gets method_index    *)
(* old_vtable_count + i.                                                  *)
AppendMirandasZeroBased(vt, ix, mir) ==
  [vt |-> vt \o mir,
   idx |-> ix @@ [n \in {mir[r].name : r \in 1..Len(mir)} |->
                    Len(vt) - 1 + CHOOSE r \in 1..Len(mir) : mir[r].name = n]]
AppendMirandasVtableUnchanged(vt, ix, mir) ==
  [vt |-> vt,
   idx |-> ix @@ [n \in {mir[r].name : r \in 1..Len(mir)} |->
                    Len(vt) + CHOOSE r \in 1..Len(mir) : mir[r].name = n]]
AppendMirandas(vt, ix, mir) ==
  [vt |-> vt \o mir,
   idx |-> ix @@ [n \in {mir[r].name : r \in 1..Len(mir)} |->
                    Len(vt) + CHOOSE r \in 1..Len(mir) : mir[r].name = n]]

(* The method-array loop over one interface method.  The vtable is        *)
(* searched from its last slot; a match that is neither abstract nor      *)
(* public is an IllegalAccessError; otherwise it fills the method array   *)
(* and its IMT slot, first writer wins and a later one makes the slot a   *)
(* conflict.  With no match, a miranda of the same name already made is   *)
(* reused, else one is cloned from the interface method.  The mirandas do *)
(* not touch the IMT.                                                     *)
ResolveIfaceMethod(c, vt, st, p) ==
  LET i == p[1]  n == p[2]
      K == {k \in 1..Len(vt) : vt[k].name = n}
      R == {r \in 1..Len(st.mir) : st.mir[r].name = n}
  IN IF K # {}
       THEN LET vm == vt[Max(K)] IN
            IF ~Abstract(vm) /\ Access(vm) # "public"
              THEN [st EXCEPT !.ok = FALSE]
              ELSE [st EXCEPT !.marr = @ @@ (p :> vm),
                              !.imt = ImtPut(@, ImtIndex(i, n), vm),
                              !.changed = TRUE]
       ELSE IF R # {}
              THEN [st EXCEPT !.marr = @ @@ (p :> st.mir[Min(R)])]
              ELSE [st EXCEPT !.marr = @ @@ (p :> Miranda(c, n)),
                              !.mir = Append(@, Miranda(c, n))]

RECURSIVE IfaceLoop(_, _, _, _)
IfaceLoop(c, vt, st, ps) ==
  IF ps = <<>> \/ ~st.ok THEN st
  ELSE IfaceLoop(c, vt, ResolveIfaceMethod(c, vt, st, Head(ps)), Tail(ps))

(* The runtime's default IMT, all conflicts.                              *)
DefaultImt == [s \in ImtSlots |-> Conflict]

(* LinkInterfaceMethods of a class with vtable vt whose superclass has    *)
(* iftable superIft.  Result: ok, iftable, method arrays, IMT, and the    *)
(* vtable and own indices with the mirandas appended at old_count + i.    *)
LinkInterfaceMethods(c, vt, ix, superIft) ==
  LET ifcount == IfCount(c, superIft)
      ift == Flatten(superIft, Implements[c])
      st == IfaceLoop(c, vt, [ok |-> TRUE, marr |-> <<>>, mir |-> <<>>,
                              imt |-> [s \in ImtSlots |-> None],
                              changed |-> FALSE], IfaceSlots(ift))
      done(t) == [ok |-> TRUE, ift |-> t, marr |-> <<>>, imt |-> DefaultImt,
                  vt |-> vt, idx |-> ix]
  IN CASE ifcount = 0 -> done(<<>>)
       [] ifcount = Len(superIft) /\ \A k \in 1..Len(superIft) : Marker(superIft[k])
            -> done(superIft)
       [] OTHER ->
            LET a == AppendMirandas(vt, ix, st.mir) IN
            [ok |-> st.ok, ift |-> ift, marr |-> st.marr,
             imt |-> IF st.changed
                       THEN [s \in ImtSlots |-> IF st.imt[s] = None THEN Conflict
                                                ELSE st.imt[s]]
                       ELSE DefaultImt,
             vt |-> a.vt, idx |-> a.idx]

-----------------------------------------------------------------------------
Super(c) == Chain[Pos(c) - 1]
IsRoot(c) == Pos(c) = 1

Init ==
  /\ pkg \in [Classes -> Pkgs]
  /\ decl \in [Classes -> {f \in [NameSet -> Decl \cup {None}] :
                             \A n \in NameSet : f[n] \in DeclsOf[n]}]
  /\ status = [c \in Classes |-> "new"]
  /\ vtable = [c \in Classes |-> <<>>]
  /\ index = [c \in Classes |-> <<>>]
  /\ iftable = [c \in Classes |-> <<>>]
  /\ marrays = [c \in Classes |-> <<>>]
  /\ imt = [c \in Classes |-> DefaultImt]

(* A class is linked after its superclass (LinkSuperClass requires the    *)
(* superclass resolved); one thread links it.                             *)
Ready(c) == status[c] = "new" /\ IF IsRoot(c) THEN TRUE ELSE status[Super(c)] = "linked"

(* LinkVirtualMethods, with or without a superclass.                      *)
VirtualOf(c) ==
  IF IsRoot(c) THEN LinkVirtualMethodsRoot(c)
  ELSE LinkVirtualMethods(c, vtable[Super(c)])

InterfaceOf(c) ==
  LET v == VirtualOf(c)
  IN LinkInterfaceMethods(c, v.vt, v.idx,
                          IF IsRoot(c) THEN <<>> ELSE iftable[Super(c)])

(* LinkMethods (non-interface class): LinkVirtualMethods fails with a     *)
(* LinkageError before anything is stored; LinkClass then marks the class *)
(* erroneous.                                                             *)
LinkVirtualMethodsFails(c) ==
  /\ Ready(c) /\ ~VirtualOf(c).ok
  /\ status' = [status EXCEPT ![c] = "error"]
  /\ UNCHANGED <<pkg, decl, vtable, index, iftable, marrays, imt>>

(* LinkInterfaceMethods fails with an IllegalAccessError after the vtable *)
(* and the iftable were stored in the class.                              *)
LinkInterfaceMethodsFails(c) ==
  /\ Ready(c) /\ VirtualOf(c).ok /\ ~InterfaceOf(c).ok
  /\ status' = [status EXCEPT ![c] = "error"]
  /\ vtable' = [vtable EXCEPT ![c] = VirtualOf(c).vt]
  /\ index' = [index EXCEPT ![c] = VirtualOf(c).idx]
  /\ iftable' = [iftable EXCEPT ![c] = InterfaceOf(c).ift]
  /\ UNCHANGED <<pkg, decl, marrays, imt>>

(* LinkMethods succeeds: the vtable, iftable, method arrays and IMT are   *)
(* the class's; LinkClass goes on to link its fields.                     *)
LinkMethods(c) ==
  /\ Ready(c) /\ VirtualOf(c).ok /\ InterfaceOf(c).ok
  /\ LET r == InterfaceOf(c) IN
     /\ status' = [status EXCEPT ![c] = "linked"]
     /\ vtable' = [vtable EXCEPT ![c] = r.vt]
     /\ index' = [index EXCEPT ![c] = r.idx]
     /\ iftable' = [iftable EXCEPT ![c] = r.ift]
     /\ marrays' = [marrays EXCEPT ![c] = r.marr]
     /\ imt' = [imt EXCEPT ![c] = r.imt]
  /\ UNCHANGED <<pkg, decl>>

Next ==
  \E c \in Classes :
    \/ LinkVirtualMethodsFails(c)
    \/ LinkInterfaceMethodsFails(c)
    \/ LinkMethods(c)

Spec == Init /\ [][Next]_vars

-----------------------------------------------------------------------------
Linked == {c \in Classes : status[c] = "linked"}
MaxSlots == Len(Names) * Len(Chain)

TypeOK ==
  /\ pkg \in [Classes -> Pkgs]
  /\ status \in [Classes -> {"new", "linked", "error"}]
  /\ \A c \in Classes :
       /\ vtable[c] \in Seq(Method) /\ Len(vtable[c]) <= MaxSlots
       /\ DOMAIN index[c] \subseteq NameSet
       /\ \A n \in DOMAIN index[c] : index[c][n] \in 1..Len(vtable[c])
       /\ iftable[c] \in Seq(Ifaces)
       /\ \A p \in DOMAIN marrays[c] : marrays[c][p] \in Method
       /\ imt[c] \in [ImtSlots -> Method \cup {Conflict}]


(* Virtual dispatch resolves a method to its method_index and calls the   *)
(* receiver class's vtable at that slot.  Every method in a linked        *)
(* class's vtable, inherited, overriding or miranda, sits at the          *)
(* method_index its declaring class gave it (VirtualLoop, the miranda     *)
(* append at old_vtable_count + i).                                       *)
MethodIndexConsistent ==
  \A c \in Linked : \A j \in 1..Len(vtable[c]) :
    LET m == vtable[c][j] IN
    m.name \in DOMAIN index[m.owner] /\ index[m.owner][m.name] = j

(* Slot stability: a linked class's vtable starts with its superclass's,  *)
(* slot by slot either the same method or one of its own with that name  *)
(* (LinkVirtualMethods copies the superclass vtable and only overwrites   *)
(* or appends).                                                           *)
InheritedSlotsKept ==
  \A c \in Linked : ~IsRoot(c) =>
    LET sv == vtable[Super(c)] IN
    /\ Len(sv) <= Len(vtable[c])
    /\ \A j \in 1..Len(sv) :
         /\ vtable[c][j].name = sv[j].name
         /\ vtable[c][j] = sv[j] \/ vtable[c][j].owner = c

(* A declared method overrides every inherited method of its name that    *)
(* the class may access (the vtable slot stability of the linker's        *)
(* contract: C's slot for an overridden M is A's slot for M, for every    *)
(* ancestor A).  VirtualLoop breaks at the first accessible match.        *)
OverridesAccessible ==
  \A c \in Linked : ~IsRoot(c) =>
    \A j \in 1..Len(vtable[Super(c)]) :
      LET sm == vtable[Super(c)][j] IN
      decl[c][sm.name] # None /\ CanAccessMember(c, sm)
        => vtable[c][j] = M(c, sm.name)

(* The reference definition of the interfaces a class implements: those  *)
(* it or an ancestor names, and all their super-interfaces.               *)
SuperIfaceRel == [p \in Ifaces \X Ifaces |-> p[2] \in ToSet(IfaceSupers[p[1]])]
IfaceClosure(X) ==
  LET tc == TransitiveClosure(SuperIfaceRel, Ifaces)
  IN X \cup {y \in Ifaces : \E x \in X : tc[x, y]}
Declared(c) == UNION {ToSet(Implements[Chain[k]]) : k \in 1..Pos(c)}

(* The flattened iftable lists every implemented interface exactly once, *)
(* and begins with the superclass's iftable so inherited iftable indices  *)
(* stay valid.                                                            *)
IfTableFlattened ==
  \A c \in Linked :
    /\ IsInjective(iftable[c])
    /\ ToSet(iftable[c]) = IfaceClosure(Declared(c))
    /\ ~IsRoot(c) => IsPrefix(iftable[Super(c)], iftable[c])

(* Every method of every interface in the iftable resolves, in the method *)
(* array, to the most derived method of its name in the final vtable,     *)
(* a miranda where the class has none.                                    *)
InterfaceMethodsResolved ==
  \A c \in Linked : \A p \in ToSet(IfaceSlots(iftable[c])) :
    LET K == {k \in 1..Len(vtable[c]) : vtable[c][k].name = p[2]} IN
    /\ p \in DOMAIN marrays[c] /\ K # {}
    /\ marrays[c][p] = vtable[c][Max(K)]

(* An interface call lands on IMT slot DexIdx % kImtSize and calls the    *)
(* method there unless it is the conflict method.  A slot that is not a   *)
(* conflict holds what the method array holds for every interface method  *)
(* of that slot that the vtable implements (first writer wins, a later    *)
(* writer installs the conflict method).                                  *)
ImtSoundImplemented ==
  \A c \in Linked : \A p \in DOMAIN marrays[c] :
    LET s == ImtIndex(p[1], p[2]) IN
    imt[c][s] # Conflict /\ marrays[c][p] # Miranda(c, p[2])
      => imt[c][s] = marrays[c][p]

(* The same for every interface method of the iftable, those the class    *)
(* gets a miranda for included: an interface call through a slot that is *)
(* not a conflict reaches the method the method array names.              *)
ImtSound ==
  \A c \in Linked : \A p \in DOMAIN marrays[c] :
    imt[c][ImtIndex(p[1], p[2])] # Conflict
      => imt[c][ImtIndex(p[1], p[2])] = marrays[c][p]

=============================================================================
