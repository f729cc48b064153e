\* Two OUT cursors of up to three rows, two rows a message: full, partial and
\* empty last batches, rounds with one and with two live cursors.
CONSTANTS
  Cursors = {c1, c2}
  Batch = 2
  MaxRows = 3
SPECIFICATION Spec
INVARIANTS
  TypeOK
  ExactlyOnce
  OutcomeTold
  ReceivedInOrder
  LossOnlyInLastBatch
PROPERTIES
  KeepsPromise
  CallEnds
