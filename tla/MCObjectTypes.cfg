\* Three listed types under a limit of two, two calls of Names with every
\* combination of arguments, workers left behind by the first.
CONSTANTS
  order = order  item = item
  alias = alias  json = json  index = index
  Types = {order, item, alias, json, index}
  Listed <- MCListed
  Children <- MCChildren
  Found <- MCFound
  Collections = {index}
  Unsupported = {index}
  Opaque = {json}
  Onlys <- MCOnlys
  Limit = 2
  MaxDepth = 4
  MaxCalls = 2
SPECIFICATION Spec
INVARIANTS
  TypeOK
  FailureTold
  ListsWhatIsAsked
