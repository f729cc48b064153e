\* One function of every kind, pairs of the simpler ones, triples of those that
\* share records.
CONSTANTS
  line = line  order = order  blob = blob
  Types = {line, order, blob}
  new = new  old = old
  Names = {new, old}
  FieldsOf <- MCFieldsOf
  Inputs <- MCInputs
SPECIFICATION Spec
INVARIANTS
  TypeOK
  DefinedOnce
  NothingOfTheSkipped
  StopsForAReason
