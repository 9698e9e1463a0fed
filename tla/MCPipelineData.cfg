CONSTANTS
  Addresses = 4
  Values = 2
  Registers = {0, 1, 2}
  Link = 1
  Vector = 0
  Answers = {0, 1}
  Program <- MCData
  MissDuringMul = FALSE
  StaleFetch = FALSE
SPECIFICATION Spec
PROPERTY ImplementsIsa
