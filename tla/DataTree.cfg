SPECIFICATION Spec
CONSTANTS
  o1 = o1
  o2 = o2
  o3 = o3
  o4 = o4
  a1 = a1
  a2 = a2
  n1 = n1
  Objs <- MCObjs
  Arrays <- MCArrays
  Names <- MCNames
  Layers <- MCLayers
  Scalars <- MCScalars
  Docs <- MCDocs
  MaxApp <- Two
  MaxLen <- Two
CHECK_DEADLOCK FALSE
SYMMETRY SymCells
INVARIANT RefsExact
PROPERTY ApplyCopies
PROPERTY RoundTrip
