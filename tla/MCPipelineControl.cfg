CONSTANTS
  Addresses = 5
  Values = 5
  Registers = {0, 1}
  Link = 1
  Vector = 0
  Answers = {2}
  Program <- MCControl
  MissDuringMul = FALSE
  StaleFetch = FALSE
SPECIFICATION Spec
INVARIANT TypeOK
INVARIANT ExecutesWhatIsThere
INVARIANT OneFlushAtATime
INVARIANT AccessOnce
PROPERTY ImplementsIsa
