\* A record used by a function that is skipped and by one that is not.
CONSTANTS
  line = line  order = order  blob = blob
  Types = {line, order, blob}
  new = new  old = old
  Names = {new, old}
  FieldsOf <- MCFieldsOf
  Inputs <- MCKnown
SPECIFICATION Spec
INVARIANT EveryMessageDefined
