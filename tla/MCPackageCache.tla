--------------------------- MODULE MCPackageCache ---------------------------
(* Instance of PackageCache for TLC: a package of two subprograms, another  *)
(* of one; patterns for everything, and for one subprogram of the first.    *)
EXTENDS PackageCache, TLC

CONSTANTS pkgA, pkgB, a1, a2, b1

MCPackageOf == (a1 :> pkgA) @@ (a2 :> pkgA) @@ (b1 :> pkgB)
MCOrder == (a1 :> 1) @@ (a2 :> 2) @@ (b1 :> 3)
MCPatterns == {{a1, a2, b1}, {a1}}
MCReaders == {{a1, a2, b1}}

(* The runs are interchangeable: no formula names one.                      *)
MCSymmetry == Permutations(Runs)
=============================================================================
