\* Every declaration of m and n over the chain; a method must override every
\* inherited method of its name it may access.
CONSTANTS
  p = p
  q = q
  Chain <- MCChain
  Names <- MCNames
  Pkgs = {p, q}
  DeclsOf <- MCDeclsOf
  Ifaces <- MCIfaces
  IfaceMethods <- MCIfaceMethods
  IfaceSupers <- MCIfaceSupers
  Implements <- MCImplements
  DexIdx <- MCDexIdx
  ImtSize = 2
  Conflict = Conflict
  None = None
SYMMETRY MCSymmetry
SPECIFICATION Spec
INVARIANT OverridesAccessible
CHECK_DEADLOCK FALSE
