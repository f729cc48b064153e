\* Two runs that may overlap, fail and crash, and a third that reads the cache
\* while they write it, over a database that changes: a package created, replaced
\* or dropped around and between them.
CONSTANTS
  pkgA = pkgA  pkgB = pkgB
  a1 = a1  a2 = a2  b1 = b1
  Packages = {pkgA, pkgB}
  Functions = {a1, a2, b1}
  PackageOf <- MCPackageOf
  Order <- MCOrder
  Patterns <- MCPatterns
  Readers <- MCReaders
  Runs = {run1, run2}
  MaxDDL = 2
SPECIFICATION Spec
SYMMETRY MCSymmetry
INVARIANTS
  TypeOK
  WholeFiles
  StampNotNewer
  ReadsLastUpdate
