\* Two threads resolving strings, methods and fields through shared dex caches.
CONSTANTS
  Threads = {t1, t2}
  Dex = {"d1", "d2"}
  StrIdx = {0}
  Contents = {"hello"}
  StrContent <- MCStrContent
  Classes = {"O", "A", "B"}
  Ifaces = {"I"}
  Object = "O"
  Super <- MCSuper
  Implements <- MCImplements
  Missing = "X"
  Referrer = "B"
  MethodIdx = {"m1", "m2", "m3", "m4", "m5"}
  MRef <- MCMRef
  FieldIdx = {"f1", "f2", "f3"}
  FRef <- MCFRef
  MDecls <- MCMDecls
  FDecls <- MCFDecls
  MaxCalls = 1
  MaxStrings = 2
  ResolutionMethod = ResolutionMethod
  None = None
SPECIFICATION Spec
INVARIANT TypeOK
INVARIANT StringsCanonical
INVARIANT MethodCacheTransparent
