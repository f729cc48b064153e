------------------------------ MODULE ParseDB ------------------------------
(***************************************************************************)
(* parseDB of main.go: reading the stored procedures' argument rows from   *)
(* the database with three goroutines and the calling one.                 *)
(*                                                                         *)
(*   producer --dbCh--> converter --userArgs--> grouper --filteredArgs-->  *)
(*   ParseArguments (in the caller), then grp.Wait().                      *)
(*                                                                         *)
(* dbCh is unbuffered: a send and its receive are one step (Handover). The *)
(* goroutines belong to one errgroup: the first error cancels the group's  *)
(* context, and so does the caller's timeout or interrupt; Wait returns    *)
(* that first error. The grouper and the parser are module ArgGroups.      *)
(***************************************************************************)
EXTENDS ArgGroups

CONSTANTS
  Packages,   (* the stored packages                                        *)
  NoPackage,  (* the package of a standalone subprogram: NULL               *)
  PackageOf,  (* the package of every program                               *)
  Tables      (* the results the arguments query may have, rows in ORDER BY *)
              (* order, every composite row followed by its expansion       *)

TableRow == [prog : Programs, plus : BOOLEAN]

(* ORDER BY object_id, subprogram_id, seq: the rows of a program follow each*)
(* other, so do those of a package (one object_id), and the rows expandArgs*)
(* adds follow the composite row they expand.                              *)
Ordered(t) ==
  /\ \A i, j, k \in DOMAIN t : i < j /\ j < k =>
       /\ t[i].prog = t[k].prog => t[j].prog = t[i].prog
       /\ PackageOf[t[i].prog] = PackageOf[t[k].prog] /\ PackageOf[t[i].prog] # NoPackage
            => PackageOf[t[j].prog] = PackageOf[t[i].prog]
  /\ \A i \in DOMAIN t : t[i].plus => i > 1 /\ t[i-1].prog = t[i].prog

ASSUME TablesAssumption ==
  /\ NoPackage \notin Packages
  /\ PackageOf \in [Programs -> Packages \cup {NoPackage}]
  /\ Tables \subseteq Seq(TableRow)
  /\ \A t \in Tables : Ordered(t)

VARIABLES
  table,       (* the rows of this run's query, with their expansions       *)
  known,       (* the packages in pkgs, as the earlier transaction saw them *)
  resolver,    (* resolveTypeShort # nil                                    *)
  producer,    (* where the reading goroutine is                            *)
  next,        (* the rows it has taken from the query so far               *)
  converter,   (* where the converting goroutine is                         *)
  held,        (* the converter's ua, at most one                           *)
  prevPackage, (* the package whose source was looked at last               *)
  cached,      (* pkgUAs: the rows kept for the per-package cache           *)
  retErr,      (* what the goroutines returned                              *)
  groupErr,    (* the errgroup holds an error                               *)
  cancelled,   (* grpCtx is done                                            *)
  caller,      (* where parseDB itself is                                   *)
  outcome,     (* what parseDB returned                                     *)
  cut          (* history: the iteration over the rows ended on an error    *)

producerVars == <<resolver, producer, next, cut>>
converterVars == <<converter, held, prevPackage, cached>>
callerVars == <<retErr, groupErr, cancelled, caller, outcome>>
vars == <<groupVars, table, known, producerVars, converterVars, callerVars>>

Goroutines == {"producer", "converter"}

TypeOK ==
  /\ GroupTypeOK
  /\ table \in Tables
  /\ known \subseteq Packages
  /\ resolver \in BOOLEAN
  /\ producer \in {"prepare", "query", "next", "send", "resolve", "returned", "done", "dead"}
  /\ next \in 0..Len(table)
  /\ converter \in {"idle", "receive", "source", "fill", "send", "returned", "done", "dead"}
  /\ held \in Seq(Row) /\ Len(held) <= 1
  /\ prevPackage \in Packages \cup {NoPackage}
  /\ cached \in Seq(Row)
  /\ retErr \in [Goroutines -> {"none", "nil", "error"}]
  /\ groupErr \in BOOLEAN
  /\ cancelled \in BOOLEAN
  /\ caller \in {"setup", "parse", "wait", "returned", "dead"}
  /\ outcome \in {"none", "ok", "error"}
  /\ cut \in BOOLEAN

(* parseDB has read pkgs through tx1 and opened tx2; a package created in   *)
(* between, or missed by the unchecked iteration of the first query, is in *)
(* the argument rows but not in pkgs.                                      *)
Init ==
  /\ GroupInit
  /\ table \in Tables
  /\ known \in SUBSET Packages
  /\ resolver = FALSE
  /\ producer = "prepare"
  /\ next = 0
  /\ converter = "idle"
  /\ held = <<>>
  /\ prevPackage = NoPackage
  /\ cached = <<>>
  /\ retErr = [g \in Goroutines |-> "none"]
  /\ groupErr = FALSE
  /\ cancelled = FALSE
  /\ caller = "setup"
  /\ outcome = "none"
  /\ cut = FALSE

-----------------------------------------------------------------------------
(* The producer.                                                           *)

ProducerReturns(err) ==
  /\ producer' = "returned"
  /\ retErr' = [retErr EXCEPT !["producer"] = err]

(* Preparing and trying the two type queries: any failure is only logged,   *)
(* and leaves resolveTypeShort nil.                                        *)
Prepare ==
  /\ producer = "prepare"
  /\ resolver' \in BOOLEAN
  /\ producer' = "query"
  /\ UNCHANGED <<groupVars, table, known, next, cut, converterVars, callerVars>>

Query ==
  /\ producer = "query"
  /\ \/ /\ producer' = "next"
        /\ UNCHANGED retErr
     \/ ProducerReturns("error")
  /\ UNCHANGED <<groupVars, table, known, resolver, next, cut, converterVars,
                 groupErr, cancelled, caller, outcome>>

(* rows.Next() is true: row i is the next row of the query itself; without  *)
(* a resolver the expansions between are skipped. Scan may fail.            *)
IsNextFetched(i) ==
  /\ i > next
  /\ ~table[i].plus
  /\ \A j \in (next+1)..(i-1) : table[j].plus

NextRow ==
  /\ producer = "next"
  /\ \E i \in DOMAIN table :
       /\ IsNextFetched(i)
       /\ \/ /\ next' = i
             /\ producer' = "send"
             /\ UNCHANGED retErr
          \/ /\ ProducerReturns("error")
             /\ UNCHANGED next
  /\ UNCHANGED <<groupVars, table, known, resolver, cut, converterVars,
                 groupErr, cancelled, caller, outcome>>

(* rows.Next() is false because the rows are over. rows.Close may fail.     *)
NoMoreRows ==
  /\ producer = "next"
  /\ \A i \in DOMAIN table : ~IsNextFetched(i)
  /\ \E err \in {"nil", "error"} : ProducerReturns(err)
  /\ UNCHANGED <<groupVars, table, known, resolver, next, cut, converterVars,
                 groupErr, cancelled, caller, outcome>>

(* rows.Next() is false because of an error - the connection's, or the done *)
(* context's - which only rows.Err() would tell: Close returns nil.         *)
RowsCut ==
  /\ producer = "next"
  /\ cut' = TRUE
  /\ ProducerReturns("nil")
  /\ UNCHANGED <<groupVars, table, known, resolver, next, converterVars,
                 groupErr, cancelled, caller, outcome>>

(* The types of a composite row are resolved and expanded before the first  *)
(* of its parts is sent.                                                   *)
Resolve ==
  /\ producer = "resolve"
  /\ \/ /\ next' = next + 1
        /\ producer' = "send"
        /\ UNCHANGED retErr
     \/ /\ ProducerReturns("error")
        /\ UNCHANGED next
  /\ UNCHANGED <<groupVars, table, known, resolver, cut, converterVars,
                 groupErr, cancelled, caller, outcome>>

(* select: the group's context is done while dbCh <- row waits.             *)
SendIgnoresContext == FALSE                                    \* faulty variant
SendSeesContext == cancelled

ProducerCancelled ==
  /\ producer = "send"
  /\ SendSeesContext
  /\ ProducerReturns("error")
  /\ UNCHANGED <<groupVars, table, known, resolver, next, cut, converterVars,
                 groupErr, cancelled, caller, outcome>>

-----------------------------------------------------------------------------
(* dbCh <- row meets row = <-dbCh. The producer goes on with the next part  *)
(* of the composite row, resolves it first if this was the row itself, or  *)
(* returns to the query. The converter skips rows without package, and     *)
(* looks at the package's source when the package changes.                 *)

HasPart == next < Len(table) /\ table[next+1].plus

AfterSend ==
  IF resolver /\ HasPart
  THEN IF table[next].plus THEN "send" ELSE "resolve"
  ELSE "next"

Handover ==
  /\ producer = "send"
  /\ converter = "receive"
  /\ producer' = AfterSend
  /\ next' = IF AfterSend = "send" THEN next + 1 ELSE next
  /\ LET row == [prog |-> table[next].prog, pos |-> next]
         pkg == PackageOf[row.prog]
     IN \/ /\ pkg = NoPackage
           /\ UNCHANGED <<converter, held, prevPackage>>
        \/ /\ pkg # NoPackage
           /\ held' = <<row>>
           /\ prevPackage' = pkg
           /\ converter' = IF pkg = prevPackage THEN "fill" ELSE "source"
  /\ UNCHANGED <<groupVars, table, known, resolver, cut, cached, callerVars>>

-----------------------------------------------------------------------------
(* The converter.                                                          *)

ConverterReturns(err) ==
  /\ converter' = "returned"
  /\ held' = <<>>
  /\ retErr' = [retErr EXCEPT !["converter"] = err]

(* getSource and source.Parse for a new package: no source is only logged;  *)
(* a parse error other than the deadline's ends the goroutine.              *)
Source ==
  /\ converter = "source"
  /\ \/ /\ converter' = "fill"
        /\ UNCHANGED <<held, retErr>>
     \/ ConverterReturns("error")
  /\ UNCHANGED <<groupVars, table, known, producerVars, prevPackage, cached,
                 groupErr, cancelled, caller, outcome>>

(* pkgs[ua.PackageName] is there; writing the row to the dump may fail.     *)
Fill ==
  /\ converter = "fill"
  /\ PackageOf[held[1].prog] \in known
  /\ \/ /\ converter' = "send"
        /\ UNCHANGED <<held, retErr>>
     \/ ConverterReturns("error")
  /\ UNCHANGED <<groupVars, table, known, producerVars, prevPackage, cached,
                 groupErr, cancelled, caller, outcome>>

(* "no time for": pkg is nil, and pkg.Time panics; the process is gone.     *)
Panic ==
  /\ converter = "fill"
  /\ PackageOf[held[1].prog] \notin known
  /\ producer' = "dead" /\ converter' = "dead" /\ grouper' = "dead" /\ caller' = "dead"
  /\ UNCHANGED <<userArgs, group, opener, filteredArgs, functions, table, known,
                 resolver, next, cut, held, prevPackage, cached,
                 retErr, groupErr, cancelled, outcome>>

(* userArgs <- ua, outside any select, then the row is kept for the cache.  *)
CacheRow(row) == Append(cached, row)

Send ==
  /\ converter = "send"
  /\ RoomFor(userArgs, UACap)
  /\ userArgs' = Append(userArgs, held[1])
  /\ cached' = CacheRow(held[1])
  /\ held' = <<>>
  /\ converter' = "receive"
  /\ UNCHANGED <<grouper, group, opener, filteredArgs, functions, table, known,
                 producerVars, prevPackage, callerVars>>

(* dbCh is closed by the producer's deferred close, before the errgroup     *)
(* learns what the producer returned.                                      *)
DBClosed == producer \in {"returned", "done"}

ConverterEnd ==
  /\ converter = "receive"
  /\ DBClosed
  /\ ConverterReturns("nil")
  /\ UNCHANGED <<groupVars, table, known, producerVars, prevPackage, cached,
                 groupErr, cancelled, caller, outcome>>

ConverterCancelled ==
  /\ converter = "receive"
  /\ cancelled
  /\ ConverterReturns("error")
  /\ UNCHANGED <<groupVars, table, known, producerVars, prevPackage, cached,
                 groupErr, cancelled, caller, outcome>>

UAClosed == converter \in {"returned", "done"}

-----------------------------------------------------------------------------
(* The errgroup: after a goroutine returned, its first error is kept and    *)
(* cancels the context.                                                    *)

KeepsNoError(err) == groupErr                                  \* faulty variant
KeepsError(err) == groupErr \/ err = "error"

GroupDone(g) ==
  /\ g = "producer"  => producer = "returned"  /\ producer' = "done"  /\ UNCHANGED converter
  /\ g = "converter" => converter = "returned" /\ converter' = "done" /\ UNCHANGED producer
  /\ groupErr' = KeepsError(retErr[g])
  /\ cancelled' = (cancelled \/ retErr[g] = "error")
  /\ UNCHANGED <<groupVars, table, known, resolver, next, cut, held, prevPackage,
                 cached, retErr, caller, outcome>>

(* The ten minutes are over, or the user interrupts.                       *)
Interrupt ==
  /\ ~cancelled
  /\ caller \in {"setup", "parse", "wait"}
  /\ cancelled' = TRUE
  /\ UNCHANGED <<groupVars, table, known, producerVars, converterVars, retErr, groupErr,
                 caller, outcome>>

-----------------------------------------------------------------------------
(* parseDB's own goroutine.                                                *)

(* The dump file cannot be created: an early return, while the producer     *)
(* runs; the deferred cancel is what ends it.                              *)
CancelOnReturn == TRUE

DumpFails ==
  /\ caller = "setup"
  /\ caller' = "returned"
  /\ outcome' = "error"
  /\ cancelled' = CancelOnReturn
  /\ UNCHANGED <<groupVars, table, known, producerVars, converterVars, retErr, groupErr>>

Start ==
  /\ caller = "setup"
  /\ caller' = "parse"
  /\ converter' = "receive"
  /\ grouper' = "receive"
  /\ UNCHANGED <<userArgs, group, opener, filteredArgs, functions, table, known,
                 producerVars, held, prevPackage, cached,
                 retErr, groupErr, cancelled, outcome>>

Parse ==
  /\ caller = "parse"
  /\ ParseGroup
  /\ UNCHANGED <<table, known, producerVars, converterVars, callerVars>>

ParseEnd ==
  /\ caller = "parse"
  /\ filteredArgs = <<>>
  /\ FilteredClosed
  /\ caller' = "wait"
  /\ UNCHANGED <<groupVars, table, known, producerVars, converterVars, retErr,
                 groupErr, cancelled, outcome>>

(* grp.Wait(): all three are done; parseDB returns the group's error, or    *)
(* the one of writing the cache files (module PackageCache).                *)
AllDone == producer = "done" /\ converter = "done" /\ grouper = "closed"

Return ==
  /\ caller = "wait"
  /\ AllDone
  /\ caller' = "returned"
  /\ \/ ~groupErr /\ outcome' = "ok"
     \/ outcome' = "error"
  /\ cancelled' = TRUE
  /\ UNCHANGED <<groupVars, table, known, producerVars, converterVars, retErr, groupErr>>

-----------------------------------------------------------------------------
Producer ==
  \/ Prepare \/ Query \/ NextRow \/ NoMoreRows \/ RowsCut \/ Resolve
  \/ ProducerCancelled \/ GroupDone("producer")

Converter ==
  \/ Source \/ Fill \/ Panic \/ Send
  \/ ConverterEnd \/ ConverterCancelled \/ GroupDone("converter")

Grouping == GroupReceive \/ GroupYield \/ GroupEnd(UAClosed) \/ GroupFlush

Grouper ==
  /\ Grouping
  /\ UNCHANGED <<table, known, producerVars, converterVars, callerVars>>

Caller == DumpFails \/ Start \/ Parse \/ ParseEnd \/ Return

Terminated ==
  /\ caller \in {"returned", "dead"}
  /\ UNCHANGED vars

Next == Producer \/ Handover \/ Converter \/ Grouper \/ Caller \/ Interrupt \/ Terminated

(* Every goroutine that can move is scheduled; the database answers every   *)
(* call, or the context's deadline makes the driver answer.                *)
Fairness ==
  /\ WF_vars(Producer)
  /\ WF_vars(Handover)
  /\ WF_vars(Converter)
  /\ WF_vars(Grouper)
  /\ WF_vars(Caller)

Spec == Init /\ [][Next]_vars /\ Fairness

-----------------------------------------------------------------------------
(* The rows parseDB has to deal with: those of packages, and without a      *)
(* resolver only the ones the query itself returns.                         *)
RowAt(i) == [prog |-> table[i].prog, pos |-> i]

Packaged == {RowAt(i) : i \in {j \in DOMAIN table : PackageOf[table[j].prog] # NoPackage}}

Streamed == {r \in Packaged : resolver \/ ~table[r.pos].plus}

(* No Function mixes programs, loses the order of the arguments, or shares  *)
(* a row with another, and when parseDB is interrupted or fails anywhere in *)
(* its pipeline, at most the last one it hands out lacks arguments: the     *)
(* channels are closed downstream only after everything before was passed   *)
(* on. The cache gets its rows in their order too.                          *)
FunctionsInOrder ==
  /\ InOrder(functions)
  /\ \A k \in DOMAIN functions : k < Len(functions) => Whole(functions, k, Streamed)
  /\ \A i, j \in DOMAIN cached : i < j => cached[i].pos < cached[j].pos

(* If parseDB succeeds and no iteration error was swallowed, it returns     *)
(* every wanted Function with all the arguments the producer could see, and *)
(* what the cache files are written from is the whole stream, unfiltered: a *)
(* later run with other filters reads it.                                   *)
SuccessComplete ==
  outcome = "ok" /\ ~cut =>
    /\ Complete(functions, Streamed)
    /\ {cached[i] : i \in DOMAIN cached} = Streamed

(* parseDB always comes back, and no goroutine outlives it for long, not    *)
(* even after an early return: no channel keeps anyone waiting for ever.    *)
CallerReturns == <>(caller \in {"returned", "dead"})

NoGoroutineLeft ==
  <>[](/\ producer \in {"done", "dead"}
       /\ converter \in {"idle", "done", "dead"}
       /\ grouper \in {"idle", "closed", "dead"})

EverythingEnds == CallerReturns /\ NoGoroutineLeft

(* README.md:33: "it reads the functions, procedures' names and their       *)
(* arguments' types from the given database": when the types could be      *)
(* resolved and the run succeeds, it returns what the dictionary holds.     *)
ReadsTheDefinitions == outcome = "ok" /\ resolver => Complete(functions, Packaged)
=============================================================================
