\* Every declaration of instance and static fields over Object <- A.
CONSTANTS
  Chain <- MCChain
  FieldNames <- MCFieldNames
  IFieldsOf <- MCIFieldsOf
  SFieldsOf <- MCSFieldsOf
  ClassBase = 12
  RefWords = 1
  WalkSuper = WalkSuper
  None = None
SPECIFICATION Spec
INVARIANT TypeOK
INVARIANT InstanceLayoutSound
INVARIANT InstanceSizeTight
INVARIANT ClassSizeMatches
INVARIANT RefOffsetsExact
\* Linking ends when both classes are resolved.
CHECK_DEADLOCK FALSE
