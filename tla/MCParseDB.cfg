\* parseDB's pipeline: programs of two packages, accepted, hidden and filtered
\* out; channels of one slot, so that both fill up. Being stuck is not looked for
\* as a deadlock, but as a violation of EverythingEnds.
CONSTANTS
  f1 = f1  f2 = f2  g1 = g1  h1 = h1  x1 = x1  s1 = s1
  pkgA = pkgA  pkgB = pkgB
  NoPackage = NoPackage
  Programs = {f1, f2, g1, h1, x1, s1}
  Accepted = {f1, f2, g1, h1, s1}
  Hidden = {h1}
  UACap = 1
  FACap = 1
  Packages <- MCPackages
  PackageOf <- MCPackageOf
  Tables <- MCTables
  ShortRows = 1
  LongRows = 4
SPECIFICATION Spec
CHECK_DEADLOCK FALSE
INVARIANTS
  TypeOK
  FunctionsInOrder
  SuccessComplete
PROPERTY EverythingEnds
