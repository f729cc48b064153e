\* Up to two functions of every kind, every choice of outputs and flags.
CONSTANT MaxFuns = 2
SPECIFICATION Spec
INVARIANTS
  TypeOK
  OkMeansWhole
  ErrorReturned
  ReplacedOnlyAtTheEnd
