\* Every interleaving of three calls of one method and one of another. The calls
\* are made once each: the run ends when they are over.
CONSTANTS
  call1 = call1  call2 = call2  call3 = call3  call4 = call4
  find = find  store = store
  Calls = {call1, call2, call3, call4}
  Methods = {find, store}
  MethodOf <- MCMethodOf
SPECIFICATION Spec
CHECK_DEADLOCK FALSE
INVARIANTS
  TypeOK
  StaleOnlyByOverlap
