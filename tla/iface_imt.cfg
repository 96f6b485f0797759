\* Every declaration of m and n over the chain; an IMT slot that is not a
\* conflict must hold the method-array entry of every interface method of the
\* slot, mirandas included.
CONSTANTS
  p = p
  q = q
  Chain <- MCChain
  Names <- MCNames
  Pkgs = {p, q}
  DeclsOf <- MCDeclsOf
  Ifaces <- MCIfaces
  IfaceMethods <- MCIfaceMethods
  IfaceSupers <- MCIfaceSupers
  Implements <- MCImplements
  DexIdx <- MCDexIdx
  ImtSize = 2
  Conflict = Conflict
  None = None
SYMMETRY MCSymmetry
SPECIFICATION Spec
INVARIANT ImtSound
CHECK_DEADLOCK FALSE
