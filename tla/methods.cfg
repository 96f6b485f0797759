\* Every combination of declarations of m and n over a four-class chain in
\* two packages, linked superclass first.
CONSTANTS
  p = p
  q = q
  Chain <- MCChain
  Names <- MCNames
  Pkgs = {p, q}
  DeclsOf <- MCDeclsOf
  Ifaces <- MCIfaces
  IfaceMethods <- MCIfaceMethods
  IfaceSupers <- MCIfaceSupers
  Implements <- MCImplements
  DexIdx <- MCDexIdx
  ImtSize = 2
  Conflict = Conflict
  None = None
SYMMETRY MCSymmetry
SPECIFICATION Spec
INVARIANT TypeOK
INVARIANT InheritedSlotsKept
INVARIANT MethodIndexConsistent
INVARIANT IfTableFlattened
INVARIANT InterfaceMethodsResolved
INVARIANT ImtSoundImplemented
\* Linking ends when every class is linked or erroneous.
CHECK_DEADLOCK FALSE
