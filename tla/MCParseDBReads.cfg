\* A successful run after an error of the iteration over the argument rows.
CONSTANTS
  f1 = f1  f2 = f2  g1 = g1  h1 = h1  x1 = x1  s1 = s1
  pkgA = pkgA  pkgB = pkgB
  NoPackage = NoPackage
  Programs = {f1, f2, g1, h1, x1, s1}
  Accepted = {f1, f2, g1, h1, s1}
  Hidden = {h1}
  UACap = 1
  FACap = 1
  Packages <- MCPackages
  PackageOf <- MCPackageOf
  Tables <- MCTables
  ShortRows = 1
  LongRows = 3
SPECIFICATION Spec
INVARIANT
  ReadsTheDefinitions
