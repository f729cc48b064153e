------------------------ MODULE PackageCache_proofs ------------------------
(***************************************************************************)
(* Theorems about PackageCache, for any packages, patterns, runs and any   *)
(* number of changes of the database.                                      *)
(***************************************************************************)
EXTENDS PackageCache, FiniteSetTheorems, TLAPS

(* The two queries of a run: what the second one saw of a package is not    *)
(* older than what the first one did, unless it was gone by then.           *)
Queried(r, p) ==
  /\ times[r][p] <= now
  /\ db[p] <= now
  /\ pc[r] \in {"idle", "times"} => rows[r][p] = 0
  /\ pc[r] = "times" => db[p] = 0 \/ times[r][p] <= db[p]
  /\ rows[r][p] = 0 \/ times[r][p] <= rows[r][p]
  /\ rows[r][p] # 0 => p \in PackagesOf(pattern[r])

TimesInv == \A r \in Runs, p \in Packages : Queried(r, p)

(* What a run that writes has collected, and what it has still to write.    *)
WriteOf(r) ==
  /\ pc[r] \in {"write", "ok"} =>
       /\ pkgUAs[r] \cup part[r] \subseteq RowsOf(r)
       /\ r \notin broken => pkgUAs[r] = RowsOf(r) /\ part[r] = {}
  /\ pc[r] = "write" => left[r] \subseteq Collected(r) /\ temp[r] \subseteq left[r]
  /\ pc[r] = "ok" => left[r] = {}

WriteInv == \A r \in Runs : WriteOf(r)

(* What a run knew to be over stays over.                                   *)
BeforeInv == \A r \in Runs \cup {Reader} : before[r] \subseteq Ended

(* A file of package p is what a run that came to writing knows of p.       *)
IsWhole(file, p) ==
  LET r == file.by
  IN /\ r \in Runs
     /\ pc[r] \notin {"idle", "times", "parse"}
     /\ p \in There(rows[r]) /\ p \in Collected(r)
     /\ file = [by |-> r, lastDDL |-> times[r][p], args |-> rows[r][p],
                functions |-> {f \in pkgUAs[r] : PackageOf[f] = p},
                part |-> {f \in part[r] : PackageOf[f] = p}]
     /\ r \notin broken => /\ file.functions = {f \in pattern[r] : PackageOf[f] = p}
                          /\ file.part = {}

FileInv == \A p \in Packages : /\ dir[p] # NoFile => IsWhole(dir[p], p)
                               /\ reader.found[p] # NoFile => IsWhole(reader.found[p], p)

(* What is not to be written any more is there, and so is what a reader of  *)
(* everything does not have to read any more.                               *)
NewerThan(file, r) == file # NoFile /\ file.by \notin before[r]

ProgressInv ==
  /\ \A r \in Runs : pc[r] \in {"write", "ok"} =>
       \A p \in Collected(r) : p \in left[r] \/ NewerThan(dir[p], r)
  /\ reader.at \in {"read", "ok"} /\ reader.pattern = Functions =>
       \A r \in before[Reader] : pc[r] = "ok" =>
         \A p \in Collected(r) : p \in reader.names \/ NewerThan(reader.found[p], r)
  /\ reader.at = "ok" => reader.names = {}

IInv == TypeOK /\ TimesInv /\ WriteInv /\ BeforeInv /\ FileInv /\ ProgressInv

-----------------------------------------------------------------------------
(* What comes through of the rows is all of them, or less.                  *)
LEMMA Came ==
  ASSUME TypeOK, NEW r \in Runs, NEW came \in CameThrough(r)
  PROVE  /\ came.got \cup came.cut \subseteq RowsOf(r) /\ RowsOf(r) \subseteq Functions
         /\ came.got = RowsOf(r) => came.cut = {}
<1>1. RowsOf(r) \subseteq Functions
  <2>1. pattern[r] \in Patterns \cup {{}}
    BY DEF TypeOK
  <2> QED
    BY <2>1, CacheAssumption DEF RowsOf
<1>2. ASSUME NEW f \in RowsOf(r)
      PROVE  Before(r, f) \subseteq RowsOf(r) /\ f \notin Before(r, f)
  <2>1. Order[f] \in Nat
    BY <1>1, CacheAssumption
  <2> QED
    BY <2>1 DEF Before
<1> QED
  BY <1>1, <1>2 DEF CameThrough

(* What a run has read is the same, or gone with it.                        *)
Keeps(r) == UNCHANGED <<pattern, times, rows>> \/ Forgets(r)

LEMMA KeepsOthers ==
  ASSUME TypeOK, NEW r \in Runs, Keeps(r)
  PROVE  /\ pattern' \in [Runs -> Patterns \cup {{}}]
         /\ times' \in [Runs -> [Packages -> Versions]]
         /\ rows' \in [Runs -> [Packages -> Versions]]
         /\ \A q \in Runs \ {r} : UNCHANGED <<pattern[q], times[q], rows[q]>>
         /\ \/ UNCHANGED <<pattern[r], times[r], rows[r]>>
            \/ times'[r] = Nowhere /\ rows'[r] = Nowhere
<1>1. /\ pattern \in [Runs -> Patterns \cup {{}}]
      /\ times \in [Runs -> [Packages -> Versions]]
      /\ rows \in [Runs -> [Packages -> Versions]]
  BY DEF TypeOK
<1>2. Nowhere \in [Packages -> Versions]
  BY CacheAssumption DEF Nowhere, Versions
<1>3. CASE Forgets(r)
  BY <1>1, <1>2, <1>3 DEF Forgets
<1> QED
  BY <1>1, <1>3 DEF Keeps

Parses(r) ==
  /\ pc[r] = "parse" /\ temp[r] = {}
  /\ pc' \in {[pc EXCEPT ![r] = "write"], [pc EXCEPT ![r] = "error"]}
  /\ pkgUAs' \in [Runs -> SUBSET Functions] /\ part' \in [Runs -> SUBSET Functions]
  /\ \A q \in Runs \ {r} : UNCHANGED <<pkgUAs[q], part[q]>>
  /\ pkgUAs'[r] \cup part'[r] \subseteq RowsOf(r)
  /\ left' = [left EXCEPT ![r] = PackagesOf(pkgUAs'[r] \cup part'[r])]
  /\ pc'[r] = "write" /\ r \notin broken' => pkgUAs'[r] = RowsOf(r) /\ part'[r] = {}
  /\ pc'[r] # "write" => pkgUAs'[r] = {} /\ part'[r] = {}
  /\ broken \subseteq broken' /\ broken' \subseteq broken \cup {r}
  /\ Keeps(r) /\ (pc'[r] = "write" => UNCHANGED <<pattern, times, rows>>)
  /\ UNCHANGED <<now, db, temp, dir, reader, before>>

LEMMA ParsedStep ==
  ASSUME TypeOK, NEW r \in Runs, Parsed(r)
  PROVE  Parses(r)
<1>1. PICK ok \in BOOLEAN, came \in CameThrough(r) :
        /\ pc' = [pc EXCEPT ![r] = AfterParse(ok)]
        /\ pkgUAs' = [pkgUAs EXCEPT ![r] = IF AfterParse(ok) = "write" THEN came.got ELSE {}]
        /\ part' = [part EXCEPT ![r] = IF AfterParse(ok) = "write" THEN came.cut ELSE {}]
        /\ IF AfterParse(ok) = "write" THEN UNCHANGED <<pattern, times, rows>> ELSE Forgets(r)
        /\ broken' = IF ok /\ came.got # RowsOf(r) THEN broken \cup {r} ELSE broken
  BY DEF Parsed
<1>2. /\ came.got \cup came.cut \subseteq RowsOf(r) /\ RowsOf(r) \subseteq Functions
      /\ came.got = RowsOf(r) => came.cut = {}
  BY Came
<1>3. /\ pc \in [Runs -> {"idle", "times", "parse", "write", "ok", "error", "dead"}]
      /\ pkgUAs \in [Runs -> SUBSET Functions] /\ part \in [Runs -> SUBSET Functions]
  BY DEF TypeOK
<1>4. /\ pc[r] = "parse" /\ temp[r] = {}
      /\ left' = [left EXCEPT ![r] = PackagesOf(pkgUAs'[r] \cup part'[r])]
      /\ UNCHANGED <<now, db, temp, dir, reader, before>>
  BY DEF Parsed, TypeOK, dbVars
<1>5. pkgUAs'[r] \in {came.got, {}} /\ part'[r] \in {came.cut, {}}
  BY <1>1, <1>3
<1>6. pc' \in {[pc EXCEPT ![r] = "write"], [pc EXCEPT ![r] = "error"]}
  BY <1>1 DEF AfterParse
<1>7. ASSUME pc'[r] = "write", r \notin broken' PROVE pkgUAs'[r] = RowsOf(r) /\ part'[r] = {}
  <2>1. ok /\ AfterParse(ok) = "write"
    BY <1>1, <1>3, <1>7 DEF AfterParse
  <2>2. came.got = RowsOf(r)
    BY <1>1, <1>7, <2>1
  <2> QED
    BY <1>1, <1>2, <1>3, <2>1, <2>2
<1>8. broken \subseteq broken' /\ broken' \subseteq broken \cup {r}
  BY <1>1
<1>9. \A q \in Runs \ {r} : UNCHANGED <<pkgUAs[q], part[q]>>
  BY <1>1, <1>3
<1>10. pkgUAs' \in [Runs -> SUBSET Functions] /\ part' \in [Runs -> SUBSET Functions]
  BY <1>1, <1>2, <1>3
<1>11. Keeps(r) /\ (pc'[r] = "write" => UNCHANGED <<pattern, times, rows>>)
  <2>1. pc'[r] = AfterParse(ok)
    BY <1>1, <1>3
  <2> QED
    BY <1>1, <2>1 DEF Keeps
<1>12. pc'[r] # "write" => pkgUAs'[r] = {} /\ part'[r] = {}
  <2>1. pc'[r] = AfterParse(ok)
    BY <1>1, <1>3
  <2> QED
    BY <1>1, <1>3, <2>1
<1> QED
  BY <1>2, <1>4, <1>5, <1>6, <1>7, <1>8, <1>9, <1>10, <1>11, <1>12 DEF Parses

(* A run that has not begun, an empty directory.                            *)
LEMMA InitIInv == Init => IInv
<1> SUFFICES ASSUME Init PROVE IInv
  OBVIOUS
<1>1. TypeOK
  BY CacheAssumption DEF Init, TypeOK, Versions, Nowhere, NothingFound
<1>2. TimesInv /\ WriteInv /\ BeforeInv
  <2>1. TimesInv
    BY SMTT(20) DEF Init, TimesInv, Queried, Nowhere
  <2> QED
    BY <2>1 DEF Init, WriteInv, WriteOf, BeforeInv
<1>3. FileInv /\ ProgressInv
  BY DEF Init, FileInv, ProgressInv, NothingFound
<1> QED
  BY <1>1, <1>2, <1>3 DEF IInv

(* Every value stays in its range.                                          *)
LEMMA StepTypeOK == TypeOK /\ WriteInv /\ [Next]_vars => TypeOK'
<1> SUFFICES ASSUME TypeOK, WriteInv, [Next]_vars PROVE TypeOK'
  OBVIOUS
<1> USE CacheAssumption DEF TypeOK, dbVars, runVars, Versions, Reader
<1>1. ASSUME NEW p \in Packages, Change(p) PROVE TypeOK'
  <2>1. now' \in Versions /\ db' \in [Packages -> Versions]
    <3>1. now + 1 \in Versions /\ 0 \in Versions /\ now' = now + 1
      BY <1>1 DEF Change
    <3>2. db' = [db EXCEPT ![p] = now + 1] \/ db' = [db EXCEPT ![p] = 0]
      BY <1>1 DEF Change
    <3>3. db' \in [Packages -> Versions]
      BY <3>1, <3>2, ZenonT(30)
    <3> QED
      BY <3>1, <3>3
  <2> QED
    BY <1>1, <2>1 DEF Change
<1>2. ASSUME NEW r \in Runs, Begin(r) PROVE TypeOK'
  BY <1>2 DEF Begin, Matching, Restricted, Ended
<1>3. ASSUME NEW r \in Runs, ReadRows(r) PROVE TypeOK'
  BY <1>3 DEF ReadRows, Matching
<1>4. ASSUME NEW r \in Runs, Parsed(r) PROVE TypeOK'
  <2>0. Parses(r)
    BY <1>4, ParsedStep
  <2>1. PackagesOf(pkgUAs'[r] \cup part'[r]) \subseteq Packages
    <3>1. pkgUAs'[r] \cup part'[r] \subseteq Functions
      BY <2>0, Came DEF Parses, RowsOf
    <3> QED
      BY <3>1 DEF PackagesOf
  <2>2. pc' \in [Runs -> {"idle", "times", "parse", "write", "ok", "error", "dead"}] /\ pc'[r] \in {"write", "error"}
    <3>1. pc' \in {[pc EXCEPT ![r] = "write"], [pc EXCEPT ![r] = "error"]}
      BY <2>0 DEF Parses
    <3>2. pc \in [Runs -> {"idle", "times", "parse", "write", "ok", "error", "dead"}]
      OBVIOUS
    <3>3. pc' \in [Runs -> {"idle", "times", "parse", "write", "ok", "error", "dead"}]
      BY <3>1, <3>2
    <3>4. pc'[r] \in {"write", "error"}
      BY <3>1, <3>2
    <3> QED
      BY <3>3, <3>4
  <2>3. left' \in [Runs -> SUBSET Packages] /\ \A q \in Runs : left'[q] # {} => pc'[q] = "write"
    <3>1. pc' \in {[pc EXCEPT ![r] = "write"], [pc EXCEPT ![r] = "error"]}
      BY <2>0 DEF Parses
    <3>2. \A q \in Runs \ {r} : pc'[q] = pc[q] /\ left'[q] = left[q]
      BY <2>0, <3>1 DEF Parses
    <3>3. left'[r] # {} => pc'[r] = "write"
      <4>1. left'[r] = PackagesOf(pkgUAs'[r] \cup part'[r])
        BY <2>0 DEF Parses
      <4> QED
        BY <2>0, <2>2, <4>1 DEF Parses, PackagesOf
    <3>4. left' \in [Runs -> SUBSET Packages]
      BY <2>0, <2>1 DEF Parses
    <3> QED
      BY <3>2, <3>3, <3>4
  <2>4. \A q \in Runs : temp'[q] # {} => pc'[q] \in {"write", "dead"} /\ Cardinality(temp'[q]) = 1
    <3>1. temp' = temp /\ temp[r] = {}
      BY <2>0 DEF Parses
    <3>2. pc' \in {[pc EXCEPT ![r] = "write"], [pc EXCEPT ![r] = "error"]}
      BY <2>0 DEF Parses
    <3>3. \A q \in Runs \ {r} : pc'[q] = pc[q]
      BY <3>2
    <3> QED
      BY <3>1, <3>3
  <2>5. pkgUAs' \in [Runs -> SUBSET Functions] /\ part' \in [Runs -> SUBSET Functions] /\ broken' \subseteq Runs
    BY <2>0 DEF Parses
  <2>6. UNCHANGED <<now, db, temp, dir, reader, before>>
    BY <2>0 DEF Parses
  <2>7. /\ pattern' \in [Runs -> Patterns \cup {{}}]
        /\ times' \in [Runs -> [Packages -> Versions]]
        /\ rows' \in [Runs -> [Packages -> Versions]]
    BY <2>0, KeepsOthers DEF Parses
  <2> QED
    BY <2>2, <2>3, <2>4, <2>5, <2>6, <2>7
<1>14. ASSUME NEW r \in Runs, NilTime(r) PROVE TypeOK'
  <2>1. Keeps(r)
    BY <1>14 DEF NilTime, Keeps
  <2>2. /\ pattern' \in [Runs -> Patterns \cup {{}}]
        /\ times' \in [Runs -> [Packages -> Versions]]
        /\ rows' \in [Runs -> [Packages -> Versions]]
    BY <2>1, KeepsOthers
  <2> QED
    BY <1>14, <2>2 DEF NilTime
<1>5. ASSUME NEW r \in Runs, WriteFails(r) PROVE TypeOK'
  BY <1>5 DEF WriteFails, AfterWriteError, Cleanup
<1>6. ASSUME NEW r \in Runs, End(r) PROVE TypeOK'
  BY <1>6 DEF End, WriteInv, WriteOf
<1>7. ASSUME NEW r \in Runs, Stops(r) PROVE TypeOK'
  <2>1. /\ pc' \in [Runs -> {"idle", "times", "parse", "write", "ok", "error", "dead"}]
        /\ \A q \in Runs : pc'[q] # pc[q] =>
             (pc[q] = "times" /\ pc'[q] = "error") \/ pc'[q] = "dead"
    <3>1. \/ pc[r] = "times" /\ pc' = [pc EXCEPT ![r] = "error"]
          \/ pc' = [pc EXCEPT ![r] = "dead"]
      BY <1>7 DEF Stops
    <3> QED
      BY <3>1
  <2>2. \A q \in Runs : temp[q] # {} => pc'[q] \in {"write", "dead"} /\ Cardinality(temp[q]) = 1
    BY <2>1
  <2>3. left' \in [Runs -> SUBSET Packages] /\ \A q \in Runs : left'[q] # {} => pc'[q] = "write"
    <3>1. left' = [left EXCEPT ![r] = {}] /\ \A q \in Runs \ {r} : pc'[q] = pc[q]
      BY <1>7 DEF Stops
    <3> QED
      BY <3>1
  <2>4. Keeps(r)
    BY <1>7 DEF Stops, Keeps
  <2>5. /\ pattern' \in [Runs -> Patterns \cup {{}}]
        /\ times' \in [Runs -> [Packages -> Versions]]
        /\ rows' \in [Runs -> [Packages -> Versions]]
    BY <2>4, KeepsOthers
  <2> QED
    BY <1>7, <2>1, <2>2, <2>3, <2>5 DEF Stops
<1>8. ASSUME NEW r \in Runs, NEW p \in Packages, NewPendingFile(r, p) PROVE TypeOK'
  <2>1. Cardinality({p}) = 1
    BY FS_Singleton
  <2>2. temp' = [temp EXCEPT ![r] = {p}] /\ pc[r] = "write"
    BY <1>8 DEF NewPendingFile
  <2>3. \A q \in Runs : temp'[q] # {} => pc[q] \in {"write", "dead"} /\ Cardinality(temp'[q]) = 1
    BY <2>1, <2>2
  <2>4. temp' \in [Runs -> SUBSET Packages] /\ dir' = dir
    BY <1>8, <2>2 DEF NewPendingFile, Aside
  <2> QED
    BY <1>8, <2>3, <2>4 DEF NewPendingFile
<1>9. ASSUME NEW r \in Runs, NEW p \in Packages, CloseAtomicallyReplace(r, p) PROVE TypeOK'
  BY <1>9 DEF CloseAtomicallyReplace, FileOf, File, Stamp
<1>10. CASE List
  BY <1>10 DEF List, NotSkipped, Listed, Ended
<1>11. ASSUME NEW p \in Packages, ReadPackageCache(p) PROVE TypeOK'
  BY <1>11 DEF ReadPackageCache
<1>12. CASE ReadFails \/ ReadEnds
  BY <1>12 DEF ReadFails, ReadEnds, NothingFound
<1>13. CASE UNCHANGED vars
  BY <1>13 DEF vars
<1> QED
  BY <1>1, <1>2, <1>3, <1>4, <1>5, <1>6, <1>7, <1>8, <1>9, <1>10, <1>11, <1>12, <1>13, <1>14
  DEF Next, Run, Reading, Terminated

(* The database changes only forwards, and a run reads it twice.            *)
LEMMA StepTimes == TypeOK /\ TimesInv /\ [Next]_vars => TimesInv'
<1> SUFFICES ASSUME TypeOK, TimesInv, [Next]_vars, NEW r \in Runs, NEW p \in Packages
             PROVE  Queried(r, p)'
  BY DEF TimesInv
<1>0. /\ Queried(r, p)
      /\ now \in Nat /\ db[p] \in Nat /\ times[r][p] \in Nat /\ rows[r][p] \in Nat
  BY CacheAssumption DEF TypeOK, TimesInv, Versions
<1> USE DEF dbVars, runVars
<1>1. ASSUME NEW q \in Packages, Change(q) PROVE Queried(r, p)'
  <2>1. now' = now + 1 /\ db'[p] \in {db[p], now + 1, 0}
    BY <1>1 DEF Change, TypeOK
  <2> QED
    BY <1>0, <1>1, <2>1 DEF Change, Queried, PackagesOf
<1>2. ASSUME NEW s \in Runs, Begin(s) PROVE Queried(r, p)'
  <2>1. CASE s = r
    <3>1. pc[r] = "idle" /\ pc'[r] = "times" /\ times'[r][p] \in {db[p], 0}
      BY <1>2, <2>1 DEF Begin, Matching, Restricted, TypeOK
    <3>2. UNCHANGED <<now, db, rows>>
      BY <1>2 DEF Begin
    <3> QED
      BY <1>0, <3>1, <3>2 DEF Queried
  <2>2. CASE s # r
    <3>1. pc'[r] = pc[r] /\ times'[r] = times[r] /\ pattern'[r] = pattern[r] /\ UNCHANGED <<now, db, rows>>
      BY <1>2, <2>2 DEF Begin, TypeOK
    <3> QED
      BY <1>0, <3>1 DEF Queried, PackagesOf
  <2> QED
    BY <2>1, <2>2
<1>3. ASSUME NEW s \in Runs, ReadRows(s) PROVE Queried(r, p)'
  <2>1. UNCHANGED <<now, db, times, pattern>>
    BY <1>3 DEF ReadRows
  <2>2. CASE s = r
    <3>1. pc[r] = "times" /\ pc'[r] = "parse" /\ rows'[r] = Matching(pattern[r])
      BY <1>3, <2>2 DEF ReadRows, TypeOK
    <3>2. rows'[r][p] = IF p \in PackagesOf(pattern[r]) THEN db[p] ELSE 0
      BY <3>1 DEF Matching
    <3> QED
      BY <1>0, <2>1, <3>1, <3>2 DEF Queried, PackagesOf
  <2>3. CASE s # r
    <3>1. pc'[r] = pc[r] /\ rows'[r] = rows[r]
      BY <1>3, <2>3 DEF ReadRows, TypeOK
    <3> QED
      BY <1>0, <2>1, <3>1 DEF Queried, PackagesOf
  <2> QED
    BY <2>2, <2>3
<1>4. CASE UNCHANGED <<now, db, times, rows, pattern>> /\ pc'[r] \in {pc[r], "write", "ok", "error", "dead"}
  BY <1>0, <1>4 DEF Queried, PackagesOf
<1>5. ASSUME NEW s \in Runs, Parsed(s) \/ NilTime(s) \/ WriteFails(s) \/ End(s) \/ Stops(s) PROVE Queried(r, p)'
  <2>1. UNCHANGED <<now, db>> /\ Keeps(s)
    BY <1>5 DEF Parsed, NilTime, WriteFails, End, Stops, Keeps
  <2>2. pc'[r] \in {pc[r], "write", "ok", "error", "dead"}
    BY <1>5 DEF Parsed, AfterParse, NilTime, WriteFails, AfterWriteError, End, Stops, TypeOK
  <2>3. \/ UNCHANGED <<pattern[r], times[r], rows[r]>>
        \/ times'[r][p] = 0 /\ rows'[r][p] = 0
    BY <2>1, KeepsOthers DEF Nowhere
  <2> QED
    BY <1>0, <2>1, <2>2, <2>3 DEF Queried, PackagesOf
<1>6. ASSUME NEW s \in Runs, NEW q \in Packages, NewPendingFile(s, q) \/ CloseAtomicallyReplace(s, q)
      PROVE  Queried(r, p)'
  BY <1>4, <1>6 DEF NewPendingFile, CloseAtomicallyReplace
<1>7. CASE Reading \/ UNCHANGED vars
  BY <1>4, <1>7 DEF Reading, List, ReadPackageCache, ReadFails, ReadEnds, vars
<1> QED
  BY <1>1, <1>2, <1>3, <1>5, <1>6, <1>7 DEF Next, Run, Terminated

(* A run's phases: once it writes, what it has read is settled, and once it *)
(* is over nothing happens to it any more.                                  *)
Onward(r) ==
  /\ pc[r] \in {"ok", "error", "dead"} => pc'[r] = pc[r]
  /\ pc[r] \notin {"idle", "times", "parse"} =>
       /\ pc'[r] \in {pc[r], "ok", "error", "dead"}
       /\ UNCHANGED <<times[r], rows[r], pattern[r], pkgUAs[r], part[r], r \in broken>>
  /\ pc[r] # "idle" => pc'[r] # "idle" /\ before'[r] = before[r]
  /\ pc'[r] = "ok" /\ pc[r] # "ok" => pc[r] = "write" /\ left[r] = {}
  /\ pc'[r] = "write" /\ pc[r] # "write" => Parsed(r)

LEMMA Forwards ==
  ASSUME TypeOK, [Next]_vars, NEW r \in Runs
  PROVE  Onward(r)
<1> USE DEF dbVars, runVars, Onward
<1>1. CASE UNCHANGED <<pc, times, rows, pattern, pkgUAs, part, before, broken>>
  BY <1>1
<1>2. ASSUME NEW s \in Runs, Begin(s) \/ ReadRows(s) \/ Parsed(s) \/ NilTime(s) \/ WriteFails(s) \/ End(s) \/ Stops(s)
      PROVE  Onward(r)
  <2>1. CASE s = r
    <3>1. CASE Begin(s)
      BY <2>1, <3>1 DEF Begin, TypeOK
    <3>2. CASE ReadRows(s)
      BY <2>1, <3>2 DEF ReadRows, TypeOK
    <3>3. CASE Parsed(s)
      <4>0. Parses(r)
        BY <2>1, <3>3, ParsedStep
      <4>1. pc[r] = "parse" /\ pc'[r] \in {"write", "error"} /\ before' = before
        BY <4>0 DEF TypeOK, Parses
      <4> QED
        BY <2>1, <3>3, <4>1
    <3>4. CASE WriteFails(s)
      BY <2>1, <3>4 DEF WriteFails, AfterWriteError, TypeOK
    <3>5. CASE End(s)
      BY <2>1, <3>5 DEF End, TypeOK
    <3>6. CASE Stops(s)
      BY <2>1, <3>6 DEF Stops, TypeOK
    <3>7. CASE NilTime(s)
      BY <2>1, <3>7 DEF NilTime, TypeOK
    <3> QED
      BY <1>2, <3>1, <3>2, <3>3, <3>4, <3>5, <3>6, <3>7
  <2>2. CASE s # r
    <3>1. UNCHANGED <<pc[r], times[r], rows[r], pattern[r], pkgUAs[r], part[r], before[r], r \in broken>>
      <4>1. CASE Parsed(s)
        <5>1. Parses(s)
          BY <4>1, ParsedStep
        <5>2. UNCHANGED <<pattern[r], times[r], rows[r]>>
          BY <2>2, <5>1, KeepsOthers DEF Parses
        <5> QED
          BY <2>2, <5>1, <5>2 DEF TypeOK, Parses
      <4> QED
        BY <1>2, <2>2, <4>1 DEF Begin, ReadRows, NilTime, WriteFails, End, Stops, Forgets, TypeOK
    <3> QED
      BY <3>1
  <2> QED
    BY <2>1, <2>2
<1>3. CASE List
  <2>1. before'[r] = before[r] /\ UNCHANGED <<pc, times, rows, pattern, pkgUAs, part, broken>>
    BY <1>3, CacheAssumption DEF List, TypeOK, Reader
  <2> QED
    BY <2>1
<1>4. CASE (\E p \in Packages : Change(p)) \/ UNCHANGED vars
  BY <1>1, <1>4 DEF Change, vars
<1>5. CASE \E p \in Packages : ReadPackageCache(p)
  BY <1>1, <1>5 DEF ReadPackageCache
<1>6. CASE ReadFails \/ ReadEnds
  BY <1>1, <1>6 DEF ReadFails, ReadEnds
<1>7. ASSUME NEW s \in Runs, NEW p \in Packages, NewPendingFile(s, p) \/ CloseAtomicallyReplace(s, p)
      PROVE  Onward(r)
  BY <1>1, <1>7 DEF NewPendingFile, CloseAtomicallyReplace
<1> QED
  BY <1>2, <1>3, <1>4, <1>5, <1>6, <1>7 DEF Next, Run, Reading, Terminated

(* So what a run knew to be over stays over.                                *)
LEMMA StepBefore == TypeOK /\ BeforeInv /\ [Next]_vars => BeforeInv'
<1> SUFFICES ASSUME TypeOK, BeforeInv, [Next]_vars PROVE BeforeInv'
  OBVIOUS
<1>1. Ended \subseteq Ended'
  <2>1. ASSUME NEW r \in Runs, pc[r] \in {"ok", "error", "dead"} PROVE pc'[r] = pc[r]
    BY <2>1, Forwards DEF Onward
  <2> QED
    BY <2>1 DEF Ended
<1>2. \A r \in Runs \cup {Reader} : before'[r] \in {before[r], Ended}
  <2> USE DEF TypeOK, dbVars, runVars
  <2>1. CASE UNCHANGED before
    BY <2>1
  <2>2. ASSUME NEW s \in Runs, Begin(s)
        PROVE  \A r \in Runs \cup {Reader} : before'[r] \in {before[r], Ended}
    BY <2>2 DEF Begin
  <2>3. CASE List
    BY <2>3 DEF List
  <2>4. ASSUME NEW s \in Runs, ReadRows(s) \/ Parsed(s) \/ NilTime(s) \/ WriteFails(s) \/ End(s) \/ Stops(s)
        PROVE  UNCHANGED before
    BY <2>4 DEF ReadRows, Parsed, NilTime, WriteFails, End, Stops
  <2>5. ASSUME NEW s \in Runs, NEW p \in Packages, NewPendingFile(s, p) \/ CloseAtomicallyReplace(s, p)
        PROVE  UNCHANGED before
    BY <2>5 DEF NewPendingFile, CloseAtomicallyReplace
  <2>6. CASE (\E p \in Packages : Change(p) \/ ReadPackageCache(p)) \/ ReadFails \/ ReadEnds \/ UNCHANGED vars
    BY <2>1, <2>6 DEF Change, ReadPackageCache, ReadFails, ReadEnds, vars
  <2> QED
    BY <2>1, <2>2, <2>3, <2>4, <2>5, <2>6 DEF Next, Run, Reading, Terminated
<1> QED
  BY <1>1, <1>2 DEF BeforeInv

(* A package leaves the list of those to be written when its file is there. *)
LEMMA Leaves ==
  ASSUME TypeOK, WriteInv, [Next]_vars, NEW r \in Runs, pc[r] \in {"write", "ok"},
         pc'[r] \in {"write", "ok"}
  PROVE  /\ left'[r] \subseteq left[r]
         /\ \A p \in left[r] \ left'[r] : CloseAtomicallyReplace(r, p)
         /\ pc[r] = "write" => temp'[r] \subseteq left'[r]
<1> DEFINE Goal == /\ left'[r] \subseteq left[r]
                   /\ \A p \in left[r] \ left'[r] : CloseAtomicallyReplace(r, p)
                   /\ pc[r] = "write" => temp'[r] \subseteq left'[r]
<1> SUFFICES Goal
  OBVIOUS
<1> USE DEF dbVars, runVars
<1>0. pc[r] = "write" => temp[r] \subseteq left[r]
  BY DEF WriteInv, WriteOf
<1>1. CASE left'[r] = left[r] /\ temp'[r] = temp[r]
  BY <1>0, <1>1
<1>2. ASSUME NEW s \in Runs, Begin(s) \/ ReadRows(s) \/ Parsed(s) \/ NilTime(s) \/ WriteFails(s) \/ End(s) \/ Stops(s)
      PROVE  Goal
  <2>1. CASE s # r
    BY <1>1, <1>2, <2>1 DEF Begin, ReadRows, Parsed, NilTime, WriteFails, Cleanup, End, Stops, TypeOK
  <2>2. CASE s = r
    <3>1. End(r)
      BY <1>2, <2>2 DEF Begin, ReadRows, Parsed, NilTime, WriteFails, AfterWriteError, Stops, TypeOK
    <3> QED
      BY <1>1, <3>1 DEF End
  <2> QED
    BY <2>1, <2>2
<1>3. ASSUME NEW s \in Runs, NEW p \in Packages, NewPendingFile(s, p) PROVE Goal
  <2>1. /\ left' = left /\ p \in left[s]
        /\ temp'[r] = IF s = r THEN {p} ELSE temp[r]
    BY <1>3 DEF NewPendingFile, TypeOK
  <2> QED
    BY <1>0, <2>1
<1>4. ASSUME NEW s \in Runs, NEW p \in Packages, CloseAtomicallyReplace(s, p) PROVE Goal
  <2>1. /\ left'[r] = IF s = r THEN left[r] \ {p} ELSE left[r]
        /\ temp'[r] = IF s = r THEN {} ELSE temp[r]
    BY <1>4 DEF CloseAtomicallyReplace, TypeOK
  <2> QED
    BY <1>0, <1>4, <2>1
<1>5. CASE (\E p \in Packages : Change(p)) \/ UNCHANGED vars
  BY <1>1, <1>5 DEF Change, vars
<1>6. CASE List \/ ReadFails \/ ReadEnds \/ \E p \in Packages : ReadPackageCache(p)
  BY <1>1, <1>6 DEF List, ReadPackageCache, ReadFails, ReadEnds
<1> HIDE DEF Goal
<1> QED
  BY <1>2, <1>3, <1>4, <1>5, <1>6 DEF Next, Run, Reading, Terminated

(* A run writes what its parse has collected, package by package.           *)
LEMMA StepWrite == TypeOK /\ TimesInv /\ WriteInv /\ [Next]_vars => WriteInv'
<1> SUFFICES ASSUME TypeOK, TimesInv, WriteInv, [Next]_vars, NEW r \in Runs
             PROVE  WriteOf(r)'
  BY DEF WriteInv
<1>0. WriteOf(r) /\ Onward(r)
  BY Forwards DEF WriteInv
<1> USE DEF dbVars, runVars
<1>1. CASE Parsed(r)
  <2>0. Parses(r)
    BY <1>1, ParsedStep
  <2>1. pc'[r] = "write" => RowsOf(r)' = RowsOf(r)
    BY <2>0 DEF RowsOf, There, Parses
  <2>2. /\ pkgUAs'[r] \cup part'[r] \subseteq RowsOf(r)
        /\ pc'[r] = "write" /\ r \notin broken' => pkgUAs'[r] = RowsOf(r) /\ part'[r] = {}
        /\ pc'[r] \in {"write", "error"} /\ temp'[r] = {}
    BY <2>0 DEF TypeOK, Parses
  <2>3. left'[r] = Collected(r)'
    BY <2>0 DEF TypeOK, Collected, Parses
  <2> QED
    BY <2>1, <2>2, <2>3 DEF WriteOf
<1>2. CASE ~Parsed(r) /\ pc'[r] \in {"write", "ok"}
  <2>1. /\ pc[r] \in {"write", "ok"}
        /\ UNCHANGED <<rows[r], pattern[r], pkgUAs[r], part[r], r \in broken>>
    BY <1>0, <1>2 DEF Onward, TypeOK
  <2>2. left'[r] \subseteq left[r] /\ (pc[r] = "write" => temp'[r] \subseteq left'[r])
    BY <1>2, <2>1, Leaves
  <2>3. RowsOf(r)' = RowsOf(r) /\ Collected(r)' = Collected(r)
    BY <2>1 DEF RowsOf, Collected, There
  <2> QED
    BY <1>0, <1>2, <2>1, <2>2, <2>3 DEF WriteOf, Onward
<1>3. CASE pc'[r] \notin {"write", "ok"}
  BY <1>3 DEF WriteOf
<1> QED
  BY <1>1, <1>2, <1>3

(* A file in the directory is replaced by a run that has finished it, and a *)
(* reader finds what is there.                                              *)
LEMMA DirectoryStep ==
  ASSUME TypeOK, [Next]_vars, NEW p \in Packages
  PROVE  dir'[p] = dir[p] \/ \E r \in Runs : CloseAtomicallyReplace(r, p)
<1>1. CASE UNCHANGED dir
  BY <1>1
<1>2. ASSUME NEW r \in Runs, NEW q \in Packages, CloseAtomicallyReplace(r, q)
      PROVE  dir'[p] = dir[p] \/ CloseAtomicallyReplace(r, p)
  BY <1>2 DEF CloseAtomicallyReplace, TypeOK
<1>3. ASSUME NEW r \in Runs, NEW q \in Packages, NewPendingFile(r, q)
      PROVE  UNCHANGED dir
  BY <1>3 DEF NewPendingFile, Aside
<1>4. ASSUME NEW r \in Runs,
             Begin(r) \/ ReadRows(r) \/ Parsed(r) \/ NilTime(r) \/ WriteFails(r) \/ End(r) \/ Stops(r)
      PROVE  UNCHANGED dir
  BY <1>4 DEF Begin, ReadRows, Parsed, NilTime, WriteFails, End, Stops
<1>5. CASE (\E q \in Packages : Change(q)) \/ Reading \/ UNCHANGED vars
  BY <1>5 DEF Change, Reading, List, ReadPackageCache, ReadFails, ReadEnds, vars
<1> QED
  BY <1>1, <1>2, <1>3, <1>4, <1>5 DEF Next, Run, Terminated

(* Only the reader itself changes what it has.                              *)
LEMMA ReaderStep ==
  ASSUME TypeOK, [Next]_vars
  PROVE  \/ UNCHANGED reader /\ before'[Reader] = before[Reader]
         \/ List
         \/ before'[Reader] = before[Reader] /\ (ReadFails \/ ReadEnds)
         \/ before'[Reader] = before[Reader] /\ \E p \in Packages : ReadPackageCache(p)
<1>1. ASSUME NEW r \in Runs, Begin(r) PROVE UNCHANGED reader /\ before'[Reader] = before[Reader]
  BY <1>1, CacheAssumption DEF Begin, TypeOK, Reader
<1>2. ASSUME NEW r \in Runs, ReadRows(r) \/ Parsed(r) \/ NilTime(r) \/ WriteFails(r) \/ End(r) \/ Stops(r)
      PROVE  UNCHANGED <<reader, before>>
  BY <1>2 DEF ReadRows, Parsed, NilTime, WriteFails, End, Stops
<1>3. ASSUME NEW r \in Runs, NEW p \in Packages, NewPendingFile(r, p) \/ CloseAtomicallyReplace(r, p)
      PROVE  UNCHANGED <<reader, before>>
  BY <1>3 DEF NewPendingFile, CloseAtomicallyReplace
<1>4. CASE (\E p \in Packages : Change(p)) \/ UNCHANGED vars
  BY <1>4 DEF Change, vars
<1>5. ASSUME NEW p \in Packages, ReadPackageCache(p) PROVE UNCHANGED before
  BY <1>5 DEF ReadPackageCache
<1>6. CASE ReadFails \/ ReadEnds
  BY <1>6 DEF ReadFails, ReadEnds
<1> QED
  BY <1>1, <1>2, <1>3, <1>4, <1>5, <1>6 DEF Next, Run, Reading, Terminated

(* It finds what is in the directory, or drops it.                          *)
LEMMA FoundStep ==
  ASSUME TypeOK, [Next]_vars, NEW p \in Packages
  PROVE  reader.found'[p] \in {reader.found[p], dir[p], NoFile}
BY ReaderStep DEF List, ReadFails, ReadEnds, ReadPackageCache, NothingFound, TypeOK

(* A file that is whole stays what its run knows: the run does not change   *)
(* its mind.                                                                *)
LEMMA StaysWhole ==
  ASSUME TypeOK, [Next]_vars, NEW file, NEW p \in Packages, IsWhole(file, p)
  PROVE  IsWhole(file, p)'
<1> DEFINE r == file.by
<1>1. r \in Runs /\ pc[r] \notin {"idle", "times", "parse"}
  BY DEF IsWhole
<1>2. /\ pc'[r] \notin {"idle", "times", "parse"}
      /\ UNCHANGED <<times[r], rows[r], pattern[r], pkgUAs[r], part[r], r \in broken>>
  BY <1>1, Forwards DEF Onward
<1> QED
  BY <1>1, <1>2 DEF IsWhole, There, Collected

(* The file that a run puts in the directory is whole.                      *)
LEMMA NewFileWhole ==
  ASSUME TypeOK, WriteInv, NEW r \in Runs, NEW p \in Packages, CloseAtomicallyReplace(r, p)
  PROVE  dir' = [dir EXCEPT ![p] = FileOf(r, p)] /\ IsWhole(FileOf(r, p), p)
<1>1. pc[r] = "write" /\ p \in temp[r] /\ dir' = [dir EXCEPT ![p] = FileOf(r, p)]
  BY DEF CloseAtomicallyReplace
<1>2. /\ p \in Collected(r)
      /\ pkgUAs[r] \cup part[r] \subseteq RowsOf(r)
      /\ r \notin broken => pkgUAs[r] = RowsOf(r) /\ part[r] = {}
  BY <1>1 DEF WriteInv, WriteOf
<1>3. p \in There(rows[r])
  BY <1>2 DEF Collected, PackagesOf, RowsOf
<1>4. {f \in RowsOf(r) : PackageOf[f] = p} = {f \in pattern[r] : PackageOf[f] = p}
  BY <1>3 DEF RowsOf
<1>5. r \notin broken => /\ {f \in pkgUAs[r] : PackageOf[f] = p} = {f \in pattern[r] : PackageOf[f] = p}
                       /\ {f \in part[r] : PackageOf[f] = p} = {}
  BY <1>2, <1>4
<1> QED
  BY <1>1, <1>2, <1>3, <1>5 DEF FileOf, Stamp, IsWhole

(* What is in the directory, and what a reader found there.                 *)
LEMMA StepFiles == TypeOK /\ WriteInv /\ FileInv /\ [Next]_vars => FileInv'
<1> SUFFICES ASSUME TypeOK, WriteInv, FileInv, [Next]_vars, NEW p \in Packages
             PROVE  /\ (dir[p] # NoFile => IsWhole(dir[p], p))'
                    /\ (reader.found[p] # NoFile => IsWhole(reader.found[p], p))'
  BY DEF FileInv
<1>1. ASSUME NEW file, file # NoFile, file \in {dir[p], reader.found[p]}
      PROVE  IsWhole(file, p)'
  BY <1>1, StaysWhole DEF FileInv
<1>2. ASSUME NEW r \in Runs, CloseAtomicallyReplace(r, p), NEW file, file = dir'[p]
      PROVE  IsWhole(file, p)'
  <2>1. file = FileOf(r, p) /\ IsWhole(FileOf(r, p), p)
    BY <1>2, NewFileWhole DEF TypeOK
  <2>2. IsWhole(file, p)
    BY <2>1
  <2> QED
    BY <2>2, StaysWhole
<1>3. dir'[p] = dir[p] \/ \E r \in Runs : CloseAtomicallyReplace(r, p)
  BY DirectoryStep
<1>4. reader.found'[p] \in {reader.found[p], dir[p], NoFile}
  BY FoundStep
<1>5. ASSUME NEW file, file = dir'[p], file # NoFile PROVE IsWhole(file, p)'
  BY <1>1, <1>2, <1>3, <1>5
<1>6. ASSUME NEW file, file = reader.found'[p], file # NoFile PROVE IsWhole(file, p)'
  BY <1>1, <1>4, <1>6
<1> QED
  BY <1>5, <1>6 DEF IsWhole

(* A newer file is replaced by a newer one only: who replaces it was not    *)
(* over when the run began.                                                 *)
LEMMA NewFileNewer ==
  ASSUME TypeOK, BeforeInv, NEW r \in Runs, NEW s \in Runs, NEW p \in Packages,
         CloseAtomicallyReplace(s, p)
  PROVE  dir'[p] # NoFile /\ dir'[p].by \notin before[r]
<1>1. dir'[p] = FileOf(s, p) /\ s \notin Ended
  BY DEF CloseAtomicallyReplace, TypeOK, Ended
<1>2. s \notin before[r]
  BY <1>1 DEF BeforeInv
<1> QED
  BY <1>1, <1>2 DEF FileOf, NoFile

LEMMA StaysNewer ==
  ASSUME TypeOK, BeforeInv, [Next]_vars, NEW r \in Runs, pc[r] # "idle",
         NEW p \in Packages, NewerThan(dir[p], r)
  PROVE  NewerThan(dir[p], r)'
<1>1. before'[r] = before[r]
  BY Forwards DEF Onward
<1> QED
  BY <1>1, NewFileNewer, DirectoryStep DEF NewerThan

(* What a run collects is of the packages.                                  *)
LEMMA CollectedPackages == TypeOK => \A r \in Runs : Collected(r) \subseteq Packages
BY CacheAssumption DEF TypeOK, Collected, PackagesOf

LEMMA CollectedLater == TypeOK' => \A r \in Runs : Collected(r)' \subseteq Packages
BY CacheAssumption DEF TypeOK, Collected, PackagesOf

(* A run leaves no package of its rows to be written without a newer file,  *)
(* and a reader of everything that began later finds that or a newer one.   *)
LEMMA StepProgress ==
  TypeOK /\ TimesInv /\ WriteInv /\ BeforeInv /\ ProgressInv /\ [Next]_vars => ProgressInv'
<1> SUFFICES ASSUME TypeOK, TimesInv, WriteInv, BeforeInv, ProgressInv, [Next]_vars
             PROVE  ProgressInv'
  OBVIOUS
<1>1. ASSUME NEW r \in Runs, pc'[r] \in {"write", "ok"}, NEW p \in Packages, p \in Collected(r)'
      PROVE  p \in left'[r] \/ NewerThan(dir[p], r)'
  <2>1. CASE Parsed(r)
    <3>0. Parses(r)
      BY <2>1, ParsedStep
    <3>1. left'[r] = Collected(r)'
      BY <3>0 DEF TypeOK, Collected, Parses
    <3> QED
      BY <1>1, <3>1
  <2>2. CASE ~Parsed(r)
    <3>1. pc[r] \in {"write", "ok"} /\ UNCHANGED <<pkgUAs[r], part[r], before[r]>>
      BY <1>1, <2>2, Forwards DEF Onward, TypeOK
    <3>2. CASE p \in left[r] \ left'[r]
      <4>1. CloseAtomicallyReplace(r, p)
        BY <1>1, <3>1, <3>2, Leaves
      <4> QED
        BY <3>1, <4>1, NewFileNewer DEF NewerThan
    <3>3. CASE NewerThan(dir[p], r)
      BY <3>1, <3>3, StaysNewer
    <3>4. p \in Collected(r)
      BY <1>1, <3>1 DEF Collected
    <3> QED
      BY <1>1, <3>1, <3>2, <3>3, <3>4 DEF ProgressInv
  <2> QED
    BY <2>1, <2>2
<1>2. ASSUME reader'.at \in {"read", "ok"}, reader'.pattern = Functions,
             NEW r \in before'[Reader], pc'[r] = "ok", NEW p \in Packages, p \in Collected(r)'
      PROVE  p \in reader'.names \/ NewerThan(reader.found[p], r)'
  <2>0. r \in Runs
    BY StepTypeOK DEF TypeOK
  <2>1. CASE List
    <3>1. UNCHANGED <<pc, pkgUAs, part, dir>> /\ reader'.names = NotSkipped(Listed, Functions)
      BY <1>2, <2>1 DEF List, runVars
    <3>2. NewerThan(dir[p], r)
      BY <1>2, <2>0, <3>1 DEF ProgressInv, WriteInv, WriteOf, Collected
    <3> QED
      BY <3>1, <3>2 DEF NewerThan, NotSkipped, Skipped, Listed
  <2>2. CASE before'[Reader] = before[Reader]
    <3>1. pc[r] = "ok" /\ UNCHANGED <<pkgUAs[r], part[r], before[r]>> /\ p \in Collected(r)
      <4>1. pc[r] \in {"ok", "error", "dead"}
        BY <2>2 DEF BeforeInv, Ended
      <4> QED
        BY <1>2, <2>0, <4>1, Forwards DEF Onward, Collected
    <3>2. NewerThan(dir[p], r)
      BY <1>2, <2>0, <3>1 DEF ProgressInv, WriteInv, WriteOf
    <3>3. CASE UNCHANGED reader
      BY <1>2, <2>2, <3>1, <3>3 DEF ProgressInv, NewerThan
    <3>4. CASE ReadFails \/ ReadEnds
      BY <1>2, <2>2, <3>1, <3>4 DEF ReadFails, ReadEnds, ProgressInv, NewerThan
    <3>5. ASSUME NEW q \in Packages, ReadPackageCache(q)
          PROVE  p \in reader'.names \/ NewerThan(reader.found[p], r)'
      <4>1. /\ reader.at = "read" /\ reader.pattern = Functions
            /\ reader'.names = reader.names \ {q}
            /\ reader'.found[p] = IF p = q THEN dir[p] ELSE reader.found[p]
        BY <1>2, <3>5 DEF ReadPackageCache, TypeOK
      <4> QED
        BY <1>2, <2>2, <3>1, <3>2, <4>1 DEF ProgressInv, NewerThan
    <3> QED
      BY <2>1, <3>3, <3>4, <3>5, ReaderStep
  <2> QED
    BY <2>1, <2>2, ReaderStep
<1>3. reader'.at = "ok" => reader'.names = {}
  BY ReaderStep DEF ProgressInv, List, ReadFails, ReadEnds, ReadPackageCache
<1>4. \A r \in Runs : pc'[r] \in {"write", "ok"} =>
        \A p \in Collected(r)' : p \in left'[r] \/ NewerThan(dir[p], r)'
  BY <1>1, StepTypeOK, CollectedLater
<1>5. reader'.at \in {"read", "ok"} /\ reader'.pattern = Functions =>
        \A r \in before'[Reader] : pc'[r] = "ok" =>
          \A p \in Collected(r)' : p \in reader'.names \/ NewerThan(reader.found[p], r)'
  <2>1. before'[Reader] \subseteq Runs /\ \A r \in Runs : Collected(r)' \subseteq Packages
    BY StepTypeOK, CollectedLater DEF TypeOK, Reader
  <2> QED
    BY <1>2, <2>1
<1> QED
  BY <1>3, <1>4, <1>5 DEF ProgressInv

(* Together they are inductive.                                             *)
LEMMA StepIInv == IInv /\ [Next]_vars => IInv'
BY StepTypeOK, StepTimes, StepWrite, StepBefore, StepFiles, StepProgress DEF IInv

-----------------------------------------------------------------------------
(* What a run that has all its rows collects: each package that the second  *)
(* query saw.                                                               *)
LEMMA CollectsAll ==
  ASSUME TypeOK, TimesInv, WriteInv, NEW r \in Runs, pc[r] = "ok", r \notin broken
  PROVE  Collected(r) = There(rows[r])
<1>1. Collected(r) = PackagesOf(RowsOf(r))
  BY DEF WriteInv, WriteOf, Collected
<1>2. PackagesOf(RowsOf(r)) \subseteq There(rows[r])
  BY DEF PackagesOf, RowsOf
<1>3. ASSUME NEW p \in There(rows[r]) PROVE p \in PackagesOf(RowsOf(r))
  <2>1. PICK f \in pattern[r] : PackageOf[f] = p
    BY <1>3 DEF TimesInv, Queried, PackagesOf, There
  <2> QED
    BY <1>3, <2>1 DEF PackagesOf, RowsOf
<1> QED
  BY <1>1, <1>2, <1>3

(* The types, the pending files' included: a run has at most one, and none  *)
(* once it has ended in good order.                                         *)
THEOREM TypeCorrect == Spec => []TypeOK
<1>1. IInv => TypeOK
  BY DEF IInv
<1> QED
  BY <1>1, InitIInv, StepIInv, PTL DEF Spec

(* Whatever runs overlap, fail, are cut off or are killed, a file has what  *)
(* one run collected, all of what it asked for if its rows did not break    *)
(* off, and a run that ends well leaves nothing older.                      *)
THEOREM WholeFilesHolds == Spec => []WholeFiles
<1>1. IInv => WholeFiles
  <2> SUFFICES ASSUME IInv PROVE WholeFiles
    OBVIOUS
  <2>1. ASSUME NEW p \in Packages, NEW file \in {dir[p], reader.found[p]}, file # NoFile
        PROVE  /\ file = [by |-> file.by, lastDDL |-> times[file.by][p], args |-> rows[file.by][p],
                          functions |-> {f \in pkgUAs[file.by] : PackageOf[f] = p},
                          part |-> {f \in part[file.by] : PackageOf[f] = p}]
               /\ file.by \notin broken =>
                    /\ file.functions = {f \in pattern[file.by] : PackageOf[f] = p}
                    /\ file.part = {}
    BY <2>1 DEF IInv, FileInv, IsWhole
  <2>2. ASSUME NEW r \in Runs, pc[r] = "ok", NEW p \in Collected(r)
        PROVE  p \in Listed /\ dir[p].by \notin before[r]
    <3>1. Collected(r) \subseteq Packages
      BY CollectedPackages DEF IInv
    <3> QED
      BY <2>2, <3>1 DEF IInv, ProgressInv, WriteInv, WriteOf, NewerThan, Listed
  <2>3. ASSUME NEW r \in Runs, pc[r] = "ok", r \notin broken
        PROVE  Collected(r) = There(rows[r])
    BY <2>3, CollectsAll DEF IInv
  <2> QED
    BY <2>1, <2>2, <2>3 DEF WholeFiles
<1> QED
  BY <1>1, InitIInv, StepIInv, PTL DEF Spec

(* LastDDL is read before the arguments, so that a change between makes it  *)
(* older than they are, never newer.                                        *)
THEOREM StampNotNewerHolds == Spec => []StampNotNewer
<1>1. IInv => StampNotNewer
  <2> SUFFICES ASSUME IInv, NEW p \in Packages, dir[p] # NoFile
               PROVE  dir[p].lastDDL <= dir[p].args
    BY DEF StampNotNewer, Listed
  <2> DEFINE r == dir[p].by
  <2>1. r \in Runs /\ rows[r][p] # 0 /\ dir[p].lastDDL = times[r][p] /\ dir[p].args = rows[r][p]
    <3>1. IsWhole(dir[p], p)
      BY DEF IInv, FileInv
    <3>2. /\ r \in Runs /\ p \in There(rows[r])
          /\ dir[p] = [by |-> r, lastDDL |-> times[r][p], args |-> rows[r][p],
                       functions |-> {f \in pkgUAs[r] : PackageOf[f] = p},
                       part |-> {f \in part[r] : PackageOf[f] = p}]
      BY <3>1 DEF IsWhole
    <3>3. dir[p].lastDDL = times[r][p] /\ dir[p].args = rows[r][p]
      BY <3>2
    <3> QED
      BY <3>2, <3>3 DEF There
  <2> QED
    BY <2>1 DEF IInv, TimesInv, Queried
<1> QED
  BY <1>1, InitIInv, StepIInv, PTL DEF Spec

(* A run of ParsePackageCaches that begins after the last writing run ended *)
(* finds of every package what that run wrote, and all of it if the run had *)
(* all its rows.                                                            *)
THEOREM ReadsLastUpdateHolds == Spec => []ReadsLastUpdate
<1>1. IInv => ReadsLastUpdate
  <2> SUFFICES ASSUME IInv, NEW r \in Runs, QuietReader(r), NEW p \in Packages
               PROVE  /\ IF p \in Collected(r) THEN reader.found[p] = FileOf(r, p)
                         ELSE reader.found[p] # NoFile => reader.found[p].by \in before[r]
                      /\ r \notin broken /\ p \in There(rows[r]) =>
                           /\ reader.found[p] # NoFile
                           /\ reader.found[p].functions = {f \in Functions : PackageOf[f] = p}
                           /\ reader.found[p].part = {}
    BY DEF ReadsLastUpdate
  <2> DEFINE file == reader.found[p]
  <2>1. file # NoFile => IsWhole(file, p)
    BY DEF IInv, FileInv
  <2>2. file # NoFile => file.by = r \/ file.by \in before[r]
    BY <2>1 DEF IsWhole, QuietReader
  <2>3. ASSUME p \in Collected(r) PROVE file = FileOf(r, p) /\ file # NoFile /\ file.by = r
    <3>1. file # NoFile /\ file.by = r
      BY <2>2, <2>3 DEF IInv, ProgressInv, QuietReader, NewerThan
    <3> QED
      BY <2>1, <3>1 DEF IsWhole, FileOf, Stamp
  <2>4. ASSUME p \notin Collected(r), file # NoFile PROVE file.by \in before[r]
    BY <2>1, <2>2, <2>4 DEF IsWhole
  <2>5. ASSUME r \notin broken, p \in There(rows[r])
        PROVE  file # NoFile /\ file.functions = {f \in Functions : PackageOf[f] = p} /\ file.part = {}
    <3>1. p \in Collected(r)
      BY <2>5, CollectsAll DEF IInv, QuietReader
    <3> QED
      BY <2>1, <2>3, <2>5, <3>1 DEF IsWhole, QuietReader
  <2> QED
    BY <2>3, <2>4, <2>5
<1> QED
  BY <1>1, InitIInv, StepIInv, PTL DEF Spec
=============================================================================
