SPECIFICATION Spec
CONSTANTS
  Sizes <- ThreeSizes
  Alignment = 2
  Junk = Junk
INVARIANT ValuesInPlace
PROPERTY LayersIndependent
