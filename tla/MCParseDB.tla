----------------------------- MODULE MCParseDB -----------------------------
(* Instances of ParseDB for TLC: two subprograms of a package, three of     *)
(* another, of which one is hidden and one filtered out, a standalone one.  *)
EXTENDS ParseDB, TLC

CONSTANTS pkgA, pkgB, f1, f2, g1, h1, x1, s1,
          ShortRows,  (* bound: every result of so many rows is tried *)
          LongRows    (* bound: some results of so many rows are tried *)

MCPackages == {pkgA, pkgB}
MCPackageOf == (f1 :> pkgA) @@ (f2 :> pkgA) @@ (g1 :> pkgB) @@ (h1 :> pkgB) @@ (x1 :> pkgB)
               @@ (s1 :> NoPackage)

R(prog, plus) == [prog |-> prog, plus |-> plus]

(* All results of at most ShortRows rows, the results of LongRows rows that *)
(* run from the first program of pkgA to g1 of pkgB, and one more, where   *)
(* the second and the last program have two rows.                          *)
MCTables ==
  LET Of(n) == {t \in [1..n -> TableRow] : Ordered(t)}
  IN UNION {Of(n) : n \in 0..ShortRows}
     \cup {t \in Of(LongRows) : t[1].prog = f1 /\ t[LongRows].prog = g1}
     \cup {<<R(f1, FALSE), R(f2, FALSE), R(f2, TRUE), R(g1, FALSE), R(g1, TRUE)>>}
=============================================================================
