\* Every target of up to five characters.
SPECIFICATION Spec
CONSTANTS
  Letters = {"a", "JS"}
  MaxTarget = 5
  FileSizes = {0, 2}
  Methods = {0, 2, 3, 6, 7}
INVARIANTS
  TypeOK
  Confined
  RefusedForParent
  ConnectionAgreed
  Framed
  TypeByExtension
  ServiceAsked
CHECK_DEADLOCK FALSE
