SPECIFICATION Spec
CONSTANTS
  Types <- MCTypes
  Unnamed = "unnamed"
  NoName = "noname"
  Nowhere = ".g"
  MaxRows = 2
  DefaultMax = 128
  Lobs = {"CLOB"}
  Scenarios <- MCScenarios
INVARIANTS
  TypeOK
  TreeOfTheType
  OnceOrForAReason
  DoesWhatItSays
  BoundUnlessAbsent
  CalleeSeesTheInput
  OutputIsWhatWasLeft
