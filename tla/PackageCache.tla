---------------------------- MODULE PackageCache ----------------------------
(***************************************************************************)
(* The directory of per-package cache files: the runs of oracall that      *)
(* write it (parseDB with a cache directory, after the pipeline of module  *)
(* ParseDB), the run that reads it instead of the database                 *)
(* (ParsePackageCaches), and the database that changes meanwhile.          *)
(* A definition's version is the time of its package's last DDL.           *)
(***************************************************************************)
EXTENDS Naturals, FiniteSets

CONSTANTS
  Packages,   (* the database's packages *)
  Functions,  (* their subprograms *)
  PackageOf,  (* the package of each subprogram *)
  Order,      (* the order of the rows: by object_id and subprogram_id *)
  Patterns,   (* patterns of the runs: the set of subprograms each matches *)
  Readers,    (* patterns of the run that reads the cache; none: there is no such run *)
  Runs,       (* the runs that read the database, each made once *)
  MaxDDL      (* bound: changes of the database *)

ASSUME CacheAssumption ==
  /\ PackageOf \in [Functions -> Packages]
  /\ Order \in [Functions -> Nat]
  /\ Patterns \subseteq SUBSET Functions
  /\ Readers \subseteq SUBSET Functions
  /\ "reader" \notin Runs
  /\ MaxDDL \in Nat \ {0}

VARIABLES
  now,      (* the number of DDLs so far *)
  db,       (* the time of each package's last DDL, 0 of one that is not there *)
  pc,       (* where each run is *)
  pattern,  (* its pattern *)
  times,    (* pkgs: the times read by the first query, in tx1 *)
  rows,     (* the versions the second query reads, in tx2 *)
  pkgUAs,   (* the subprograms collected from its rows *)
  part,     (* the one of which only the first rows were collected, if any *)
  left,     (* the packages still to be written, in the map's order: any *)
  temp,     (* the packages of the pending (temporary) files of each run *)
  dir,      (* the cache files by package *)
  reader,   (* the run that reads the cache: where it is, its pattern, the names
               listed and not read yet, and the files it parsed *)
  before,   (* history: the runs that had ended when a run, or the reader, began *)
  broken    (* history: the runs whose second query broke off, which nobody tells *)

dbVars == <<now, db>>
runVars == <<pc, pattern, times, rows, pkgUAs, part, left, temp>>
vars == <<dbVars, runVars, dir, reader, before, broken>>

Versions == 0..MaxDDL
Reader == "reader"
NoFile == [by |-> "nobody"]
File == [by : Runs, lastDDL : Versions, args : Versions, functions : SUBSET Functions,
         part : SUBSET Functions]
Ended == {r \in Runs : pc[r] \in {"ok", "error", "dead"}}
Idle == {r \in Runs : pc[r] = "idle"}

TypeOK ==
  /\ now \in Versions
  /\ db \in [Packages -> Versions]
  /\ pc \in [Runs -> {"idle", "times", "parse", "write", "ok", "error", "dead"}]
  /\ pattern \in [Runs -> Patterns \cup {{}}]
  /\ times \in [Runs -> [Packages -> Versions]]
  /\ rows \in [Runs -> [Packages -> Versions]]
  /\ pkgUAs \in [Runs -> SUBSET Functions]
  /\ part \in [Runs -> SUBSET Functions]
  /\ left \in [Runs -> SUBSET Packages]
  /\ temp \in [Runs -> SUBSET Packages]
  /\ dir \in [Packages -> File \cup {NoFile}]
  /\ reader \in [at : {"idle", "read", "ok", "error"}, pattern : Readers \cup {{}},
                 names : SUBSET Packages, found : [Packages -> File \cup {NoFile}]]
  /\ before \in [Runs \cup {Reader} -> SUBSET Runs]
  /\ broken \subseteq Runs
  /\ \A r \in Runs : left[r] # {} => pc[r] = "write"
  /\ \A r \in Runs : temp[r] # {} => pc[r] \in {"write", "dead"} /\ Cardinality(temp[r]) = 1

Nowhere == [p \in Packages |-> 0]
NothingFound == [p \in Packages |-> NoFile]

Init ==
  /\ now = 1
  /\ db \in [Packages -> {0, 1}]
  /\ pc = [r \in Runs |-> "idle"]
  /\ pattern = [r \in Runs |-> {}]
  /\ times = [r \in Runs |-> Nowhere]
  /\ rows = [r \in Runs |-> Nowhere]
  /\ pkgUAs = [r \in Runs |-> {}]
  /\ part = [r \in Runs |-> {}]
  /\ left = [r \in Runs |-> {}]
  /\ temp = [r \in Runs |-> {}]
  /\ dir = NothingFound
  /\ reader = [at |-> "idle", pattern |-> {}, names |-> {}, found |-> NothingFound]
  /\ before = [r \in Runs \cup {Reader} |-> {}]
  /\ broken = {}

-----------------------------------------------------------------------------
(* The database: a package is created or replaced, or dropped. What happens *)
(* before the first run is in the first value of db, and what no run is to  *)
(* read any more is left out.                                               *)
Change(p) ==
  /\ now < MaxDDL
  /\ \E r \in Runs : pc[r] = "times" \/ (pc[r] = "idle" /\ Runs # Idle)
  /\ now' = now + 1
  /\ \/ db' = [db EXCEPT ![p] = now + 1]
     \/ db[p] # 0 /\ db' = [db EXCEPT ![p] = 0]
  /\ UNCHANGED <<runVars, dir, reader, before, broken>>

-----------------------------------------------------------------------------
(* A run that reads the database.                                           *)

PackagesOf(pat) == {PackageOf[f] : f \in pat}
Matching(pat) == [p \in Packages |-> IF p \in PackagesOf(pat) THEN db[p] ELSE 0]
There(versions) == {p \in Packages : versions[p] # 0}

Restricted(versions, S) == [p \in Packages |-> IF p \in S THEN versions[p] ELSE 0]

(* The first query: the packages of the pattern up to its dot.  Its rows may*)
(* break off too, after some of them.                                       *)
Begin(r) ==
  /\ pc[r] = "idle"
  /\ \E pat \in Patterns, seen \in SUBSET Packages :
       /\ pattern' = [pattern EXCEPT ![r] = pat]
       /\ times' = [times EXCEPT ![r] = Restricted(Matching(pat), seen)]
  /\ pc' = [pc EXCEPT ![r] = "times"]
  /\ before' = [before EXCEPT ![r] = Ended]
  /\ UNCHANGED <<dbVars, rows, pkgUAs, part, left, temp, dir, reader, broken>>

(* The second query, in a transaction of its own.                           *)
ReadRows(r) ==
  /\ pc[r] = "times"
  /\ rows' = [rows EXCEPT ![r] = Matching(pattern[r])]
  /\ pc' = [pc EXCEPT ![r] = "parse"]
  /\ UNCHANGED <<dbVars, pattern, times, pkgUAs, part, left, temp, dir, reader, before, broken>>

(* The rows come subprogram by subprogram.  They may break off at one, which*)
(* has its first rows or none, and nobody asks rows.Err.                    *)
RowsOf(r) == {f \in pattern[r] : PackageOf[f] \in There(rows[r])}
Before(r, f) == {g \in RowsOf(r) : Order[g] < Order[f]}

CameThrough(r) ==
  {[got |-> RowsOf(r), cut |-> {}]}
    \cup {[got |-> Before(r, f), cut |-> {}] : f \in RowsOf(r)}
    \cup {[got |-> Before(r, f), cut |-> {f}] : f \in RowsOf(r)}

(* A run that ends before it writes takes with it what it has read.         *)
Forgets(r) ==
  /\ pattern' = [pattern EXCEPT ![r] = {}]
  /\ times' = [times EXCEPT ![r] = Nowhere]
  /\ rows' = [rows EXCEPT ![r] = Nowhere]

(* grp.Wait: after an error parseDB returns before anything is written, and *)
(* drops what the goroutines had collected until then.                      *)
AfterParse(ok) == IF ok THEN "write" ELSE "error"

Parsed(r) ==
  /\ pc[r] = "parse"
  /\ \E ok \in BOOLEAN, came \in CameThrough(r) :
       /\ PackagesOf(came.got \cup came.cut) \subseteq There(times[r])
       /\ pc' = [pc EXCEPT ![r] = AfterParse(ok)]
       /\ LET kept == AfterParse(ok) = "write"
          IN /\ pkgUAs' = [pkgUAs EXCEPT ![r] = IF kept THEN came.got ELSE {}]
             /\ part' = [part EXCEPT ![r] = IF kept THEN came.cut ELSE {}]
             /\ IF kept THEN UNCHANGED <<pattern, times, rows>> ELSE Forgets(r)
       /\ broken' = IF ok /\ came.got # RowsOf(r) THEN broken \cup {r} ELSE broken
  /\ left' = [left EXCEPT ![r] = PackagesOf(pkgUAs'[r] \cup part'[r])]
  /\ UNCHANGED <<dbVars, temp, dir, reader, before>>

(* A package that the first query did not see is looked up in pkgs and the  *)
(* nil found is dereferenced.                                               *)
NilTime(r) ==
  /\ pc[r] = "parse"
  /\ ~(There(rows[r]) \subseteq There(times[r]))
  /\ pc' = [pc EXCEPT ![r] = "dead"]
  /\ Forgets(r)
  /\ UNCHANGED <<dbVars, pkgUAs, part, left, temp, dir, reader, before, broken>>

StampWhenWritten(r, p) == db[p]                               \* faulty variant
Stamp(r, p) == times[r][p]

(* What the run knows of a package: only the subprograms its pattern matched.*)
FileOf(r, p) == [by |-> r, lastDDL |-> Stamp(r, p), args |-> rows[r][p],
                 functions |-> {f \in pkgUAs[r] : PackageOf[f] = p},
                 part |-> {f \in part[r] : PackageOf[f] = p}]

(* WritePackageCache: a pending file in the directory, under another name   *)
(* than the one it gets when it is whole.                                   *)
InPlace(r, p) == [dir EXCEPT ![p] = [FileOf(r, p) EXCEPT !.functions = {}]]  \* faulty variant
Aside(r, p) == dir

NewPendingFile(r, p) ==
  /\ pc[r] = "write"
  /\ temp[r] = {}
  /\ p \in left[r]
  /\ temp' = [temp EXCEPT ![r] = {p}]
  /\ dir' = Aside(r, p)
  /\ UNCHANGED <<dbVars, pc, pattern, times, rows, pkgUAs, part, left, reader, before, broken>>

CloseAtomicallyReplace(r, p) ==
  /\ pc[r] = "write"
  /\ p \in temp[r]
  /\ dir' = [dir EXCEPT ![p] = FileOf(r, p)]
  /\ temp' = [temp EXCEPT ![r] = {}]
  /\ left' = [left EXCEPT ![r] = @ \ {p}]
  /\ UNCHANGED <<dbVars, pc, pattern, times, rows, pkgUAs, part, reader, before, broken>>

(* One file fails: the run returns the error, what it wrote before stays.   *)
(* The deferred Cleanup removes the pending file.                           *)
NoCleanup(r) == temp                                          \* faulty variant
Cleanup(r) == [temp EXCEPT ![r] = {}]

AfterWriteError == "error"

WriteFails(r) ==
  /\ pc[r] = "write"
  /\ left[r] # {}
  /\ pc' = [pc EXCEPT ![r] = AfterWriteError]
  /\ left' = [left EXCEPT ![r] = {}]
  /\ temp' = Cleanup(r)
  /\ UNCHANGED <<dbVars, pattern, times, rows, pkgUAs, part, dir, reader, before, broken>>

End(r) ==
  /\ pc[r] = "write"
  /\ left[r] = {}
  /\ pc' = [pc EXCEPT ![r] = "ok"]
  /\ UNCHANGED <<dbVars, pattern, times, rows, pkgUAs, part, left, temp, dir, reader, before, broken>>

(* A query fails, or the process is killed: nothing is cleaned up.          *)
Stops(r) ==
  /\ \/ pc[r] = "times" /\ pc' = [pc EXCEPT ![r] = "error"]
     \/ pc[r] \in {"times", "parse", "write"} /\ pc' = [pc EXCEPT ![r] = "dead"]
  /\ IF pc[r] = "write" THEN UNCHANGED <<pattern, times, rows>> ELSE Forgets(r)
  /\ left' = [left EXCEPT ![r] = {}]
  /\ UNCHANGED <<dbVars, pkgUAs, part, temp, dir, reader, before, broken>>

-----------------------------------------------------------------------------
(* The run that reads the cache: ListPackageCaches, then each file in turn. *)
(* filter(pkgName + ".") decides on a whole package: the regular expression *)
(* of a pattern with a subprogram's name does not match.                    *)
Skipped(pat, p) == \E f \in Functions \ pat : PackageOf[f] = p

SkipsTheLast(listed, pat) ==                                  \* faulty variant
  {p \in listed : ~Skipped(pat, p) /\ \E q \in listed : q # p}
NotSkipped(listed, pat) == {p \in listed : ~Skipped(pat, p)}

Listed == {p \in Packages : dir[p] # NoFile}

List ==
  /\ reader.at = "idle"
  /\ \E pat \in Readers :
       reader' = [at |-> "read", pattern |-> pat, names |-> NotSkipped(Listed, pat),
                   found |-> reader.found]
  /\ before' = [before EXCEPT ![Reader] = Ended]
  /\ UNCHANGED <<dbVars, runVars, dir, broken>>

ReadPackageCache(p) ==
  /\ reader.at = "read"
  /\ p \in reader.names
  /\ reader' = [at |-> "read", pattern |-> reader.pattern, names |-> reader.names \ {p},
                found |-> [reader.found EXCEPT ![p] = dir[p]]]
  /\ UNCHANGED <<dbVars, runVars, dir, before, broken>>

(* The caller drops what was parsed before the error.                       *)
ReadFails ==
  /\ reader.at = "read"
  /\ reader.names # {}
  /\ reader' = [at |-> "error", pattern |-> reader.pattern, names |-> {}, found |-> NothingFound]
  /\ UNCHANGED <<dbVars, runVars, dir, before, broken>>

ReadEnds ==
  /\ reader.at = "read"
  /\ reader.names = {}
  /\ reader' = [at |-> "ok", pattern |-> reader.pattern, names |-> {}, found |-> reader.found]
  /\ UNCHANGED <<dbVars, runVars, dir, before, broken>>

-----------------------------------------------------------------------------
Run(r) ==
  \/ Begin(r) \/ ReadRows(r) \/ Parsed(r) \/ NilTime(r) \/ WriteFails(r) \/ End(r) \/ Stops(r)
  \/ \E p \in Packages : NewPendingFile(r, p) \/ CloseAtomicallyReplace(r, p)

Reading == List \/ ReadFails \/ ReadEnds \/ \E p \in Packages : ReadPackageCache(p)

Terminated ==
  /\ Ended = Runs
  /\ reader.at \in {"ok", "error"} \/ Readers = {}
  /\ UNCHANGED vars

Next ==
  \/ \E p \in Packages : Change(p)
  \/ \E r \in Runs : Run(r)
  \/ Reading
  \/ Terminated

Spec == Init /\ [][Next]_vars

-----------------------------------------------------------------------------
(* A file, in the directory or as the reader found it, is never a part of   *)
(* one, nor put together from two runs, nor what was collected when a parse *)
(* failed: it is what one run collected of the package, and that is all its *)
(* pattern matched there, unless that run's rows broke off.  When a run has *)
(* ended with no error, each package it collected, and it collected each one*)
(* it read if its rows did not break off, is in the directory, as that run  *)
(* or one that was not over when it began wrote it: nothing older stays,    *)
(* whatever other runs failed or crashed meanwhile.                         *)
Collected(r) == PackagesOf(pkgUAs[r] \cup part[r])

WholeFiles ==
  /\ \A p \in Packages : \A file \in {dir[p], reader.found[p]} : file # NoFile =>
       LET r == file.by
       IN /\ file = [by |-> r, lastDDL |-> times[r][p], args |-> rows[r][p],
                     functions |-> {f \in pkgUAs[r] : PackageOf[f] = p},
                     part |-> {f \in part[r] : PackageOf[f] = p}]
          /\ r \notin broken => /\ file.functions = {f \in pattern[r] : PackageOf[f] = p}
                               /\ file.part = {}
  /\ \A r \in Runs : pc[r] = "ok" =>
       /\ \A p \in Collected(r) : p \in Listed /\ dir[p].by \notin before[r]
       /\ r \notin broken => Collected(r) = There(rows[r])

(* A cache file is never stamped with a later DDL than the one its arguments*)
(* were read after: whoever trusts LastDDL reads the package once too often,*)
(* never once too seldom.                                                   *)
StampNotNewer == \A p \in Listed : dir[p].lastDDL <= dir[p].args

(* After the last run that wrote ended, over every package and without      *)
(* error, a reader of every package finds what it wrote, which is everything*)
(* it read if its rows did not break off; what else it finds is older.      *)
QuietReader(r) ==
  /\ reader.at = "ok" /\ reader.pattern = Functions
  /\ r \in before[Reader] /\ pc[r] = "ok" /\ pattern[r] = Functions
  /\ \A q \in Runs \ {r} : pc[q] = "idle" \/ q \in before[r]

ReadsLastUpdate ==
  \A r \in Runs : QuietReader(r) =>
    \A p \in Packages :
      /\ IF p \in Collected(r) THEN reader.found[p] = FileOf(r, p)
         ELSE reader.found[p] # NoFile => reader.found[p].by \in before[r]
      /\ r \notin broken /\ p \in There(rows[r]) =>
           /\ reader.found[p] # NoFile
           /\ reader.found[p].functions = {f \in Functions : PackageOf[f] = p}
           /\ reader.found[p].part = {}
=============================================================================
