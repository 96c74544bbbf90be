SPECIFICATION Spec
CONSTANTS
  o1 = o1
  o2 = o2
  a1 = a1
  n1 = n1
  Objs <- MCObjs
  Arrays <- MCArrays
  Names <- MCNames
  Scalars <- MCScalars
  Layers <- MCLayers
  Docs <- NoDocs
  MaxApp <- MCMaxApp
  MaxLen <- One
CHECK_DEADLOCK FALSE
SYMMETRY SymCells
INVARIANT TypeOK
INVARIANT RefsExact
INVARIANT NothingFreedIsUsed
