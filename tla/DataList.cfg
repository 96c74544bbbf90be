SPECIFICATION Spec
CONSTANTS
  a1 = a1
  a2 = a2
  a3 = a3
  a4 = a4
  h1 = h1
  h2 = h2
  NULL = NULL
  Names <- ThreeNames
  Cells <- FourCells
  Handles <- TwoHandles
SYMMETRY SymCells
INVARIANT TypeOK
INVARIANT ListSorted
INVARIANT RefsExact
PROPERTY IteratesInOrder
