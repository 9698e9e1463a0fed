CONSTANTS
  Depth = 4
  Data = {d1, d2, d3}
SYMMETRY DataSymmetry
SPECIFICATION Spec
INVARIANT TypeOK
INVARIANT PointersConsistent
INVARIANT FlagsExact
PROPERTY QueueSpec
