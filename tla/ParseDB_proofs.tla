--------------------------- MODULE ParseDB_proofs ---------------------------
(***************************************************************************)
(* Theorems about ParseDB, for any programs and packages, any result of    *)
(* the query, any filters and any capacities of the channels.              *)
(***************************************************************************)
EXTENDS ParseDB, SequenceTheorems, WellFoundedInduction, TLAPS

-----------------------------------------------------------------------------
(* The producer: what it has handed over, and when it ends.                 *)
ProducerInv ==
  /\ producer \in {"prepare", "query"} => next = 0
  /\ producer = "send" => next > 0 /\ (resolver \/ ~table[next].plus)
  /\ producer = "resolve" => resolver /\ HasPart
  /\ producer = "next" /\ resolver => ~HasPart
  /\ producer \in {"returned", "done"} => retErr["producer"] # "none"
  /\ retErr["producer"] # "none" => producer \in {"returned", "done", "dead"}
  /\ retErr["producer"] = "nil" /\ ~cut => \A r \in Streamed : r.pos <= next

(* The converter: the row it holds, and when it ends.                       *)
ConverterInv ==
  /\ converter \in {"source", "fill", "send"} => Len(held) = 1
  /\ converter \in {"idle", "receive", "returned", "done"} => held = <<>>
  /\ converter \in {"returned", "done"} => retErr["converter"] # "none"
  /\ retErr["converter"] # "none" => converter \in {"returned", "done"}
  /\ retErr["converter"] = "nil" => DBClosed

(* The caller and the errgroup.                                             *)
CallerInv ==
  /\ caller = "setup" => converter = "idle"
  /\ converter = "idle" => grouper = "idle" /\ cached = <<>>
  /\ caller = "wait" => filteredArgs = <<>> /\ grouper = "closed"
  /\ outcome = "ok" => caller = "returned" /\ filteredArgs = <<>> /\ AllDone /\ ~groupErr
  /\ producer = "done" /\ retErr["producer"] = "error" => groupErr
  /\ converter = "done" /\ retErr["converter"] = "error" => groupErr

(* The rows the converter passed on are those of the query, in their order  *)
(* and without a gap; it has or has passed on all it was handed, unless it  *)
(* failed.                                                                  *)
MayHave(p) == p < next \/ (p = next /\ producer # "send")
MustHave(p) == p < next \/ (p = next /\ (producer \in {"next", "resolve"} \/ retErr["producer"] = "nil"))

RowsOf(s) == {s[i] : i \in DOMAIN s}

CacheInv ==
  /\ \A r \in RowsOf(cached) \cup RowsOf(held) : r \in Streamed /\ MayHave(r.pos)
  /\ \A i, j \in DOMAIN cached : i < j => cached[i].pos < cached[j].pos
  /\ \A r \in RowsOf(cached), h \in RowsOf(held) : r.pos < h.pos
  /\ \A r \in Streamed, c \in RowsOf(cached) : r.pos < c.pos => r \in RowsOf(cached)
  /\ converter # "dead" /\ retErr["converter"] # "error" =>
       \A r \in Streamed : MustHave(r.pos) => r \in RowsOf(cached) \cup RowsOf(held)

(* The channel userArgs holds the last of the rows kept for the cache.      *)
Taken == Len(cached) - Len(userArgs)

QueueInv ==
  /\ Taken \in Nat
  /\ \A i \in DOMAIN userArgs : userArgs[i] = cached[Taken + i]

Consumed == {cached[j] : j \in 1..Taken}

-----------------------------------------------------------------------------
(* The groups, from the first Function to the group being collected, and    *)
(* the row that ends that one: each is of one program, and each before the  *)
(* next.                                                                    *)
Block(s) ==
  /\ \A i \in DOMAIN s : s[i] \in Consumed /\ s[i].prog \in Accepted /\ s[i].prog = s[1].prog
  /\ \A i, j \in DOMAIN s : i < j => s[i].pos < s[j].pos

Before(s, t) == \A i \in DOMAIN s, j \in DOMAIN t : s[i].pos < t[j].pos

BlockInv ==
  /\ \A k \in DOMAIN functions : Block(functions[k]) /\ functions[k][1].prog \notin Hidden
  /\ \A k \in DOMAIN filteredArgs : Block(filteredArgs[k])
  /\ Block(group) /\ Block(opener)

OrderInv ==
  /\ \A k, m \in DOMAIN functions : k < m => Before(functions[k], functions[m])
  /\ \A k, m \in DOMAIN filteredArgs : k < m => Before(filteredArgs[k], filteredArgs[m])
  /\ \A k \in DOMAIN functions, m \in DOMAIN filteredArgs : Before(functions[k], filteredArgs[m])
  /\ \A k \in DOMAIN functions : Before(functions[k], group) /\ Before(functions[k], opener)
  /\ \A k \in DOMAIN filteredArgs : Before(filteredArgs[k], group) /\ Before(filteredArgs[k], opener)
  /\ Before(group, opener)

(* A group that another one follows has all the rows of its program.        *)
HasAll(s) == \A r \in Streamed : r.prog = s[1].prog => r \in RowsOf(s)

WholeInv ==
  /\ \A k \in DOMAIN functions :
       HasAll(functions[k]) \/ (k = Len(functions) /\ filteredArgs = <<>> /\ grouper \in {"closed", "dead"})
  /\ \A k \in DOMAIN filteredArgs :
       HasAll(filteredArgs[k]) \/ (k = Len(filteredArgs) /\ grouper \in {"closed", "dead"})

(* Where the grouper is, and what it has then.                              *)
GroupInv ==
  /\ grouper = "yield" => opener # <<>> /\ group # <<>> /\ opener[1].prog # group[1].prog
  /\ grouper \in {"idle", "receive", "flush", "closed"} => opener = <<>>
  /\ grouper = "flush" => group # <<>>
  /\ grouper = "idle" => converter = "idle"
  /\ grouper = "closed" => group = <<>>
  /\ grouper \in {"flush", "closed"} => userArgs = <<>> /\ UAClosed

(* The group being collected is that of the last accepted rows, and has all *)
(* the consumed rows of its program.                                       *)
CollectInv ==
  grouper \in {"receive", "yield", "flush"} =>
    /\ \A r \in Consumed : r.prog \in Accepted =>
         r \in RowsOf(opener) \/ \E i \in DOMAIN group : r.pos <= group[i].pos
    /\ \A r \in Consumed : group # <<>> /\ r.prog = group[1].prog => r \in RowsOf(group)

(* No row that was consumed is lost but by a filter.                        *)
FoundIn(r) ==
  \/ r \in RowsOf(group) \cup RowsOf(opener)
  \/ \E k \in DOMAIN functions : r \in RowsOf(functions[k])
  \/ \E k \in DOMAIN filteredArgs : r \in RowsOf(filteredArgs[k])

FoundInv == \A r \in Consumed : r.prog \in Wanted => FoundIn(r)

UpInv == ProducerInv /\ ConverterInv /\ CallerInv /\ CacheInv
DownInv ==
  QueueInv /\ BlockInv /\ OrderInv /\ WholeInv /\ GroupInv /\ CollectInv /\ FoundInv

IInv == TypeOK /\ UpInv /\ DownInv

-----------------------------------------------------------------------------
(* The rows of the query.                                                   *)

(* A row of the stream is that of its place in the table.                   *)
LEMMA StreamedRows ==
  ASSUME TypeOK, NEW r \in Streamed
  PROVE  /\ r \in Row
         /\ r.pos \in DOMAIN table /\ r.pos \in Nat \ {0}
         /\ r = RowAt(r.pos)
         /\ r.prog = table[r.pos].prog
         /\ PackageOf[r.prog] # NoPackage
         /\ resolver \/ ~table[r.pos].plus
<1>1. table \in Seq(TableRow)
  BY TablesAssumption DEF TypeOK
<1>2. PICK i \in DOMAIN table : r = RowAt(i) /\ PackageOf[table[i].prog] # NoPackage
  BY DEF Streamed, Packaged
<1>3. resolver \/ ~table[r.pos].plus
  BY DEF Streamed
<1>4. i \in Nat \ {0} /\ table[i] \in TableRow
  BY <1>1
<1> QED
  BY <1>2, <1>3, <1>4 DEF RowAt, Row, TableRow

(* A row of the table is of the stream if it has a package, and a resolver  *)
(* when it is an expansion.                                                *)
LEMMA RowStreamed ==
  ASSUME TypeOK, NEW i \in DOMAIN table, PackageOf[table[i].prog] # NoPackage,
         resolver \/ ~table[i].plus
  PROVE  RowAt(i) \in Streamed
BY DEF Streamed, Packaged, RowAt

(* Two rows of the stream at one place are one.                             *)
LEMMA SameRow ==
  ASSUME TypeOK, NEW r \in Streamed, NEW s \in Streamed, r.pos = s.pos
  PROVE  r = s
BY StreamedRows

(* What lies between two rows of a program is of that program.              *)
LEMMA Between ==
  ASSUME TypeOK, NEW r1 \in Streamed, NEW r2 \in Streamed, NEW r3 \in Streamed,
         r1.pos < r2.pos, r2.pos < r3.pos, r1.prog = r3.prog
  PROVE  r2.prog = r1.prog
<1>1. Ordered(table)
  BY TablesAssumption DEF TypeOK
<1> QED
  BY <1>1, StreamedRows DEF Ordered

(* The table is fixed; the stream is fixed once the resolver is known.      *)
LEMMA StreamFixed ==
  ASSUME [Next]_vars
  PROVE  table' = table /\ (resolver' = resolver \/ Prepare)
<1> USE DEF producerVars, converterVars, callerVars
<1>1. CASE Producer
  <2>1. CASE Query \/ NextRow \/ NoMoreRows \/ RowsCut
    BY <2>1 DEF Query, NextRow, NoMoreRows, RowsCut
  <2>2. CASE Resolve \/ ProducerCancelled \/ GroupDone("producer") \/ Prepare
    BY <2>2 DEF Resolve, ProducerCancelled, GroupDone, Prepare
  <2> QED
    BY <1>1, <2>1, <2>2 DEF Producer
<1>2. CASE Handover
  BY <1>2 DEF Handover
<1>3. CASE Converter
  <2>1. CASE Source \/ Fill \/ Panic \/ Send
    BY <2>1 DEF Source, Fill, Panic, Send
  <2>2. CASE ConverterEnd \/ ConverterCancelled \/ GroupDone("converter")
    BY <2>2 DEF ConverterEnd, ConverterCancelled, GroupDone
  <2> QED
    BY <1>3, <2>1, <2>2 DEF Converter
<1>4. CASE Grouper
  BY <1>4 DEF Grouper
<1>5. CASE Caller
  BY <1>5 DEF Caller, DumpFails, Start, Parse, ParseEnd, Return
<1>6. CASE Interrupt \/ UNCHANGED vars
  BY <1>6 DEF Interrupt, vars
<1> QED
  BY <1>1, <1>2, <1>3, <1>4, <1>5, <1>6 DEF Next, Terminated

-----------------------------------------------------------------------------
(* The invariant holds of a run that has not begun.                         *)
LEMMA InitIInv == Init => IInv
<1> SUFFICES ASSUME Init PROVE IInv
  OBVIOUS
<1>1. TypeOK
  <2>1. table \in Seq(TableRow)
    BY TablesAssumption DEF Init
  <2>2. 0 \in 0..Len(table)
    BY <2>1
  <2>3. GroupTypeOK
    BY GroupAssumption DEF Init, GroupInit, GroupTypeOK
  <2>4. /\ held \in Seq(Row) /\ Len(held) <= 1 /\ cached \in Seq(Row)
        /\ retErr \in [Goroutines -> {"none", "nil", "error"}]
    BY DEF Init
  <2> QED
    BY <2>2, <2>3, <2>4 DEF Init, TypeOK
<1>2. UpInv
  <2>1. ProducerInv /\ ConverterInv /\ CallerInv
    BY DEF Init, GroupInit, ProducerInv, ConverterInv, CallerInv, Goroutines
  <2>2. \A r \in Streamed : ~MustHave(r.pos)
    BY <1>1, StreamedRows DEF Init, MustHave, Goroutines
  <2>3. CacheInv
    BY <2>2 DEF Init, CacheInv, RowsOf
  <2> QED
    BY <2>1, <2>3 DEF UpInv
<1>3. QueueInv /\ Consumed = {}
  BY DEF Init, GroupInit, QueueInv, Consumed, Taken
<1>4. DownInv
  BY <1>3 DEF Init, GroupInit, DownInv, BlockInv, OrderInv, WholeInv, GroupInv,
              CollectInv, FoundInv, Block, Before, RowsOf
<1> QED
  BY <1>1, <1>2, <1>4 DEF IInv

(* The rows of the table, and the one that is handed over.                  *)
LEMMA HandedRow ==
  ASSUME TypeOK, ProducerInv, producer = "send"
  PROVE  /\ next \in DOMAIN table
         /\ [prog |-> table[next].prog, pos |-> next] \in Row
         /\ PackageOf[table[next].prog] \in Packages \cup {NoPackage}
<1>1. table \in Seq(TableRow) /\ next \in 1..Len(table)
  BY TablesAssumption DEF TypeOK, ProducerInv
<1>2. next \in DOMAIN table /\ table[next] \in TableRow
  BY <1>1
<1> QED
  BY <1>1, <1>2, TablesAssumption DEF TableRow, Row

(* A row alone, and a row of a sequence of one.                             *)
LEMMA OneRow ==
  ASSUME NEW S, NEW x \in S
  PROVE  /\ <<x>> \in Seq(S) /\ Len(<<x>>) = 1 /\ <<x>>[1] = x
         /\ <<>> \in Seq(S) /\ Len(<<>>) = 0
OBVIOUS

(* A slot for a row: left alone, emptied or filled.                         *)
LEMMA Slot ==
  ASSUME NEW s \in Seq(Row), Len(s) <= 1, NEW x \in Row,
         NEW t, t = s \/ t = <<>> \/ t = <<x>>
  PROVE  t \in Seq(Row) /\ Len(t) <= 1
<1>1. CASE t = s
  BY <1>1
<1>2. CASE t = <<>>
  <2>1. <<>> \in Seq(Row) /\ Len(<<>>) <= 1
    OBVIOUS
  <2> QED
    BY <1>2, <2>1, Zenon
<1>3. CASE t = <<x>>
  <2>1. <<x>> \in Seq(Row) /\ Len(<<x>>) <= 1
    OBVIOUS
  <2> QED
    BY <1>3, <2>1, Zenon
<1> QED
  BY <1>1, <1>2, <1>3

LEMMA HeldRow ==
  ASSUME TypeOK, ConverterInv, converter \in {"source", "fill", "send"}
  PROVE  Len(held) = 1 /\ held[1] \in Row
BY DEF TypeOK, ConverterInv

(* The types of the database side.                                          *)
UpTypeOK ==
  /\ table \in Tables
  /\ known \subseteq Packages
  /\ resolver \in BOOLEAN
  /\ producer \in {"prepare", "query", "next", "send", "resolve", "returned", "done", "dead"}
  /\ next \in 0..Len(table)
  /\ converter \in {"idle", "receive", "source", "fill", "send", "returned", "done", "dead"}
  /\ held \in Seq(Row) /\ Len(held) <= 1
  /\ prevPackage \in Packages \cup {NoPackage}
  /\ cached \in Seq(Row)
  /\ retErr \in [Goroutines -> {"none", "nil", "error"}]
  /\ groupErr \in BOOLEAN
  /\ cancelled \in BOOLEAN
  /\ caller \in {"setup", "parse", "wait", "returned", "dead"}
  /\ outcome \in {"none", "ok", "error"}
  /\ cut \in BOOLEAN

(* Every step keeps the types of the database side.                         *)
LEMMA StepUpType == IInv /\ [Next]_vars => UpTypeOK'
<1> SUFFICES ASSUME IInv, [Next]_vars PROVE UpTypeOK'
  OBVIOUS
<1>0. /\ TypeOK /\ UpTypeOK /\ ProducerInv /\ ConverterInv
      /\ table \in Seq(TableRow) /\ Len(table) \in Nat
      /\ <<>> \in Seq(Row) /\ Len(<<>>) = 0
  BY TablesAssumption DEF IInv, UpInv, TypeOK, UpTypeOK
<1> USE DEF UpTypeOK, Goroutines, producerVars, converterVars, callerVars
<1>1. CASE Producer
  <2>1. CASE Prepare
    BY <1>0, <2>1 DEF Prepare
  <2>2. CASE Query
    BY <1>0, <2>2 DEF Query, ProducerReturns
  <2>3. CASE NextRow
    <3>1. PICK i \in DOMAIN table :
            \/ next' = i /\ producer' = "send" /\ UNCHANGED retErr
            \/ ProducerReturns("error") /\ UNCHANGED next
      BY <2>3 DEF NextRow
    <3>2. i \in 0..Len(table)
      BY <1>0
    <3> QED
      BY <1>0, <2>3, <3>1, <3>2 DEF NextRow, ProducerReturns
  <2>4. CASE NoMoreRows
    BY <1>0, <2>4 DEF NoMoreRows, ProducerReturns
  <2>5. CASE RowsCut
    BY <1>0, <2>5 DEF RowsCut, ProducerReturns
  <2>6. CASE Resolve
    <3>1. next + 1 \in 0..Len(table)
      BY <1>0, <2>6 DEF Resolve, ProducerInv, HasPart
    <3> QED
      BY <1>0, <2>6, <3>1 DEF Resolve, ProducerReturns
  <2>7. CASE ProducerCancelled
    BY <1>0, <2>7 DEF ProducerCancelled, ProducerReturns
  <2>8. CASE GroupDone("producer")
    BY <1>0, <2>8 DEF GroupDone, KeepsError
  <2> QED
    BY <1>1, <2>1, <2>2, <2>3, <2>4, <2>5, <2>6, <2>7, <2>8 DEF Producer
<1>2. CASE Handover
  <2>1. next' \in 0..Len(table) /\ producer' \in {"send", "resolve", "next"}
    BY <1>0, <1>2 DEF Handover, AfterSend, HasPart
  <2>2. held' = held \/ held' = <<[prog |-> table[next].prog, pos |-> next]>>
    BY <1>2 DEF Handover, converterVars
  <2>3. prevPackage' = prevPackage \/ prevPackage' = PackageOf[table[next].prog]
    BY <1>2 DEF Handover, converterVars
  <2>4. /\ [prog |-> table[next].prog, pos |-> next] \in Row
        /\ PackageOf[table[next].prog] \in Packages \cup {NoPackage}
    BY <1>0, <1>2, HandedRow DEF Handover
  <2>5. held' \in Seq(Row) /\ Len(held') <= 1 /\ prevPackage' \in Packages \cup {NoPackage}
    BY <1>0, <2>2, <2>3, <2>4, Slot
  <2>6. converter' \in {"receive", "fill", "source"}
    BY <1>2 DEF Handover
  <2> QED
    BY <1>0, <1>2, <2>1, <2>5, <2>6 DEF Handover
<1>3. CASE Converter
  <2>0. converter \in {"source", "fill", "send"} => held[1] \in Row
    BY <1>0, HeldRow
  <2>1. CASE Source
    <3>1. held' = held \/ held' = <<>>
      BY <2>1 DEF Source, ConverterReturns
    <3>2. held' \in Seq(Row) /\ Len(held') <= 1
      BY <1>0, <3>1, <2>0, <2>1, Slot DEF Source
    <3>3. retErr' \in [Goroutines -> {"none", "nil", "error"}]
      BY <1>0, <2>1 DEF Source, ConverterReturns
    <3> QED
      BY <1>0, <2>1, <3>2, <3>3 DEF Source, ConverterReturns
  <2>2. CASE Fill
    <3>1. held' = held \/ held' = <<>>
      BY <2>2 DEF Fill, ConverterReturns
    <3>2. held' \in Seq(Row) /\ Len(held') <= 1
      BY <1>0, <3>1, <2>0, <2>2, Slot DEF Fill
    <3>3. retErr' \in [Goroutines -> {"none", "nil", "error"}]
      BY <1>0, <2>2 DEF Fill, ConverterReturns
    <3> QED
      BY <1>0, <2>2, <3>2, <3>3 DEF Fill, ConverterReturns
  <2>3. CASE Panic
    BY <1>0, <2>3 DEF Panic
  <2>4. CASE Send
    <3>1. held[1] \in Row
      BY <1>0, <2>4, HeldRow DEF Send
    <3>2. cached' \in Seq(Row)
      BY <1>0, <2>4, <3>1 DEF Send, CacheRow
    <3> QED
      BY <1>0, <2>4, <3>2 DEF Send
  <2>5. CASE ConverterEnd \/ ConverterCancelled
    <3>1. \E err \in {"nil", "error"} : ConverterReturns(err)
      BY <2>5 DEF ConverterEnd, ConverterCancelled
    <3> QED
      BY <1>0, <2>5, <3>1 DEF ConverterEnd, ConverterCancelled, ConverterReturns
  <2>6. CASE GroupDone("converter")
    BY <1>0, <2>6 DEF GroupDone, KeepsError
  <2> QED
    BY <1>3, <2>1, <2>2, <2>3, <2>4, <2>5, <2>6 DEF Converter
<1>4. CASE Grouper
  BY <1>0, <1>4 DEF Grouper
<1>5. CASE Caller
  BY <1>0, <1>5 DEF Caller, DumpFails, Start, Parse, ParseEnd, Return, CancelOnReturn
<1>6. CASE Interrupt
  BY <1>0, <1>6 DEF Interrupt
<1>7. CASE UNCHANGED vars
  BY <1>0, <1>7 DEF vars
<1> QED
  BY <1>1, <1>2, <1>3, <1>4, <1>5, <1>6, <1>7 DEF Next, Terminated

(* What leaves the channels and the groups alone.                           *)
Beside ==
  \/ Prepare \/ Query \/ NextRow \/ NoMoreRows \/ RowsCut \/ Resolve \/ ProducerCancelled
  \/ GroupDone("producer") \/ GroupDone("converter") \/ Handover
  \/ Source \/ Fill \/ ConverterEnd \/ ConverterCancelled
  \/ DumpFails \/ ParseEnd \/ Return \/ Interrupt \/ UNCHANGED vars

LEMMA BesideFrame ==
  ASSUME Beside
  PROVE  /\ UNCHANGED <<groupVars, cached>>
         /\ UAClosed => UAClosed'
         /\ converter = "idle" => converter' = "idle"
<1> USE DEF UAClosed, converterVars
<1>1. CASE Prepare \/ Query \/ NextRow \/ NoMoreRows \/ RowsCut \/ Resolve
  BY <1>1 DEF Prepare, Query, NextRow, NoMoreRows, RowsCut, Resolve
<1>2. CASE ProducerCancelled \/ Handover
  BY <1>2 DEF ProducerCancelled, Handover
<1>3. CASE GroupDone("producer") \/ GroupDone("converter")
  BY <1>3 DEF GroupDone
<1>4. CASE Source \/ Fill \/ ConverterEnd \/ ConverterCancelled
  BY <1>4 DEF Source, Fill, ConverterEnd, ConverterCancelled, ConverterReturns
<1>5. CASE DumpFails \/ ParseEnd \/ Return \/ Interrupt \/ UNCHANGED vars
  BY <1>5 DEF DumpFails, ParseEnd, Return, Interrupt, vars
<1> QED
  BY <1>1, <1>2, <1>3, <1>4, <1>5 DEF Beside

(* Every step is one of those, or acts on the channels or the groups.       *)
LEMMA Steps ==
  ASSUME [Next]_vars
  PROVE  \/ Beside \/ Panic \/ Send \/ Start \/ Parse
         \/ Grouper /\ (GroupReceive \/ GroupYield \/ GroupEnd(UAClosed) \/ GroupFlush)
<1>1. CASE Producer
  BY <1>1 DEF Producer, Beside
<1>2. CASE Converter
  BY <1>2 DEF Converter, Beside
<1>3. CASE Caller
  BY <1>3 DEF Caller, Beside
<1>4. CASE Grouper
  BY <1>4 DEF Grouper, Grouping
<1> QED
  BY <1>1, <1>2, <1>3, <1>4 DEF Next, Beside, Terminated

(* Every step keeps the types of the groups.                                *)
LEMMA StepGroupType == IInv /\ [Next]_vars => GroupTypeOK'
<1> SUFFICES ASSUME IInv, [Next]_vars PROVE GroupTypeOK'
  OBVIOUS
<1>0. TypeOK /\ GroupTypeOK /\ ConverterInv /\ GroupInv /\ held \in Seq(Row)
  BY DEF IInv, UpInv, DownInv, TypeOK
<1> USE GroupAssumption DEF GroupTypeOK
<1>1. CASE Beside
  BY <1>0, <1>1, BesideFrame DEF groupVars
<1>2. CASE Panic \/ Start
  BY <1>0, <1>2 DEF Panic, Start
<1>3. CASE Send
  <2>1. held[1] \in Row /\ Len(userArgs) < UACap
    BY <1>0, <1>3, HeldRow DEF Send, RoomFor
  <2>2. userArgs' \in Seq(Row) /\ Len(userArgs') <= UACap
    BY <1>0, <1>3, <2>1 DEF Send
  <2> QED
    BY <1>0, <1>3, <2>2 DEF Send
<1>4. CASE Parse
  <2>1. Head(filteredArgs) \in Seq(Row) \ {<<>>} /\ Tail(filteredArgs) \in Seq(Seq(Row) \ {<<>>})
        /\ Len(Tail(filteredArgs)) <= FACap
    BY <1>0, <1>4, HeadTailProperties DEF Parse, ParseGroup
  <2> QED
    BY <1>0, <1>4, <2>1 DEF Parse, ParseGroup
<1>5. CASE GroupReceive
  <2>1. Head(userArgs) \in Row /\ Tail(userArgs) \in Seq(Row) /\ Len(Tail(userArgs)) <= UACap
    BY <1>0, <1>5, HeadTailProperties DEF GroupReceive
  <2>2. \/ UNCHANGED <<group, opener>>
        \/ group' = Append(group, Head(userArgs)) /\ UNCHANGED opener
        \/ opener' = <<Head(userArgs)>> /\ UNCHANGED group
    BY <1>5 DEF GroupReceive
  <2>3. group' \in Seq(Row) /\ opener' \in Seq(Row) /\ Len(opener') <= 1
    <3>1. CASE group' = Append(group, Head(userArgs)) /\ UNCHANGED opener
      BY <1>0, <2>1, <3>1
    <3> QED
      BY <1>0, <2>1, <2>2, <3>1, Slot
  <2> QED
    BY <1>0, <1>5, <2>1, <2>3 DEF GroupReceive
<1>6. CASE GroupYield
  BY <1>0, <1>6 DEF GroupYield, GroupInv, RoomFor, FirstOfNext
<1>7. CASE GroupEnd(UAClosed)
  BY <1>0, <1>7 DEF GroupEnd, AfterLastRow
<1>8. CASE GroupFlush
  BY <1>0, <1>8 DEF GroupFlush, GroupInv, RoomFor
<1> QED
  BY <1>1, <1>2, <1>3, <1>4, <1>5, <1>6, <1>7, <1>8, Steps

(* Every step keeps the types.                                              *)
LEMMA StepType == IInv /\ [Next]_vars => TypeOK'
BY StepUpType, StepGroupType DEF TypeOK, UpTypeOK

-----------------------------------------------------------------------------
(* The database side.                                                       *)

(* As long as the resolver stays, so does the stream.                       *)
LEMMA StreamSame ==
  ASSUME [Next]_vars, ~Prepare
  PROVE  Streamed' = Streamed
BY StreamFixed DEF Streamed, Packaged, RowAt

(* Positions begin at 1, whatever the resolver is.                          *)
LEMMA StreamPositive ==
  ASSUME TypeOK, [Next]_vars
  PROVE  \A r \in Streamed' : r.pos \in Nat \ {0}
<1>1. table' = table /\ table \in Seq(TableRow)
  BY StreamFixed, TablesAssumption DEF TypeOK
<1> QED
  BY <1>1 DEF Streamed, Packaged, RowAt

(* While the query has a row of its own left, the next such row is fetched. *)
LEMMA SomeNextFetched ==
  ASSUME TypeOK, NEW i \in DOMAIN table, i > next, ~table[i].plus
  PROVE  \E m \in DOMAIN table : IsNextFetched(m)
<1> DEFINE T == {j \in DOMAIN table : j > next /\ ~table[j].plus}
           R == {ss \in Nat \X Nat : ss[1] < ss[2]}
<1>0. table \in Seq(TableRow) /\ next \in Nat
  BY TablesAssumption DEF TypeOK
<1>1. T \subseteq Nat /\ T # {}
  BY <1>0
<1>2. IsWellFoundedOn(R, Nat)
  BY NatLessThanWellFounded DEF OpToRel
<1>3. PICK m \in T : \A y \in T : ~(<<y, m>> \in R)
  <2> HIDE DEF T, R
  <2> QED
    BY <1>1, <1>2, WFMin
<1>4. \A y \in T : ~(y < m)
  BY <1>1, <1>3
<1>5. \A j \in (next+1)..(m-1) : table[j].plus
  <2> SUFFICES ASSUME NEW j \in (next+1)..(m-1), ~table[j].plus PROVE FALSE
    OBVIOUS
  <2>1. j \in DOMAIN table /\ j > next /\ j < m
    BY <1>0
  <2> QED
    BY <1>4, <2>1
<1> QED
  BY <1>5 DEF IsNextFetched

(* Rows over, all of the stream was fetched.                                *)
LEMMA AllFetched ==
  ASSUME TypeOK, ProducerInv, producer = "next", \A i \in DOMAIN table : ~IsNextFetched(i),
         NEW r \in Streamed
  PROVE  r.pos <= next
<1>0. table \in Seq(TableRow) /\ next \in 0..Len(table)
  BY TablesAssumption DEF TypeOK
<1>1. SUFFICES ASSUME r.pos > next PROVE FALSE
  BY <1>0, StreamedRows
<1>2. r.pos \in DOMAIN table /\ (resolver \/ ~table[r.pos].plus)
  BY StreamedRows
<1>3. CASE ~table[r.pos].plus
  BY <1>1, <1>2, <1>3, SomeNextFetched
<1>4. CASE resolver
  <2>1. next + 1 \in DOMAIN table
    BY <1>0, <1>1, <1>2
  <2>2. ~table[next+1].plus
    BY <1>0, <1>4, <2>1 DEF ProducerInv, HasPart
  <2> QED
    BY <1>0, <2>1, <2>2, SomeNextFetched
<1> QED
  BY <1>2, <1>3, <1>4

(* With a resolver no row is passed over, without one only those that are   *)
(* not of the stream.                                                      *)
LEMMA NonePassed ==
  ASSUME TypeOK, ProducerInv, producer = "next", NEW i \in DOMAIN table, IsNextFetched(i),
         NEW r \in Streamed, r.pos < i
  PROVE  r.pos <= next
<1>0. table \in Seq(TableRow) /\ next \in 0..Len(table)
  BY TablesAssumption DEF TypeOK
<1>1. SUFFICES ASSUME r.pos > next PROVE FALSE
  BY <1>0, StreamedRows
<1>2. r.pos \in DOMAIN table /\ (resolver \/ ~table[r.pos].plus)
  BY StreamedRows
<1>3. r.pos \in (next+1)..(i-1) /\ next+1 \in (next+1)..(i-1)
  BY <1>0, <1>1, <1>2
<1>4. table[r.pos].plus /\ table[next+1].plus
  BY <1>3 DEF IsNextFetched
<1>5. HasPart
  BY <1>0, <1>3, <1>4 DEF HasPart
<1> QED
  BY <1>2, <1>4, <1>5 DEF ProducerInv

(* Every step keeps the producer's part.                                    *)
LEMMA StepProducer == IInv /\ [Next]_vars => ProducerInv'
<1> SUFFICES ASSUME IInv, [Next]_vars PROVE ProducerInv'
  OBVIOUS
<1>0. /\ TypeOK /\ ProducerInv /\ ConverterInv
      /\ table \in Seq(TableRow) /\ next \in 0..Len(table)
      /\ retErr \in [Goroutines -> {"none", "nil", "error"}]
      /\ resolver \in BOOLEAN
  BY TablesAssumption DEF IInv, UpInv, TypeOK
<1>1. \A r \in Streamed : r.pos \in Nat \ {0}
  BY <1>0, StreamedRows
<1>2. table' = table
  BY StreamFixed
<1>3. ~Prepare => Streamed' = Streamed
  BY StreamSame
<1> USE DEF ProducerInv, Goroutines, HasPart
<1>4. CASE Prepare
  BY <1>0, <1>4 DEF Prepare, callerVars
<1>5. CASE Query
  <2>1. /\ next' = 0 /\ producer' \in {"next", "returned"} /\ UNCHANGED <<table, resolver>>
        /\ producer' = "next" => UNCHANGED retErr
        /\ producer' = "returned" => retErr' = [retErr EXCEPT !["producer"] = "error"]
        /\ retErr["producer"] = "none"
    BY <1>0, <1>5 DEF Query, ProducerReturns
  <2>2. 0 < Len(table) => ~table[0+1].plus
    BY <1>0, TablesAssumption DEF TypeOK, Ordered
  <2> QED
    BY <1>0, <2>1, <2>2
<1>6. CASE NextRow
  <2>1. PICK i \in DOMAIN table :
          /\ IsNextFetched(i)
          /\ \/ next' = i /\ producer' = "send" /\ UNCHANGED retErr
             \/ ProducerReturns("error") /\ UNCHANGED next
    BY <1>6 DEF NextRow
  <2>2. i \in Nat /\ i > 0 /\ ~table[i].plus
    BY <1>0, <2>1 DEF IsNextFetched
  <2>3. producer = "next" /\ retErr["producer"] = "none" /\ resolver' = resolver
    BY <1>0, <1>6 DEF NextRow
  <2>4. CASE ProducerReturns("error")
    BY <1>0, <2>3, <2>4 DEF ProducerReturns
  <2> QED
    BY <1>0, <1>2, <2>1, <2>2, <2>3, <2>4
<1>7. CASE NoMoreRows
  <2>1. \A r \in Streamed' : r.pos <= next'
    BY <1>0, <1>3, <1>7, AllFetched DEF NoMoreRows, Prepare
  <2> QED
    BY <1>0, <1>7, <2>1 DEF NoMoreRows, ProducerReturns
<1>8. CASE RowsCut
  BY <1>0, <1>8 DEF RowsCut, ProducerReturns
<1>9. CASE Resolve
  <2>1. table[next+1].plus /\ next < Len(table) /\ resolver /\ retErr["producer"] = "none"
    BY <1>0, <1>9 DEF Resolve
  <2> QED
    BY <1>0, <1>2, <1>9, <2>1 DEF Resolve, ProducerReturns
<1>10. CASE ProducerCancelled
  BY <1>0, <1>10 DEF ProducerCancelled, ProducerReturns
<1>11. CASE GroupDone("producer") \/ GroupDone("converter")
  BY <1>0, <1>2, <1>3, <1>11 DEF GroupDone, Prepare
<1>12. CASE Handover
  <2>1. producer = "send" /\ producer' = AfterSend /\ UNCHANGED <<resolver, retErr>>
    BY <1>12 DEF Handover, callerVars
  <2>2. next' = IF AfterSend = "send" THEN next + 1 ELSE next
    BY <1>12 DEF Handover
  <2> QED
    BY <1>0, <1>2, <2>1, <2>2 DEF AfterSend
<1>13. CASE Source \/ Fill
  <2>1. retErr'["producer"] = retErr["producer"] /\ UNCHANGED producerVars
    BY <1>0, <1>13 DEF Source, Fill, ConverterReturns
  <2> QED
    BY <1>0, <1>2, <1>3, <1>13, <2>1 DEF Source, Fill, Prepare, producerVars
<1>14. CASE ConverterEnd \/ ConverterCancelled
  <2>1. retErr'["producer"] = retErr["producer"] /\ UNCHANGED producerVars
    BY <1>0, <1>14 DEF ConverterEnd, ConverterCancelled, ConverterReturns
  <2> QED
    BY <1>0, <1>2, <1>3, <2>1, StreamFixed DEF producerVars, Prepare
<1>15. CASE Panic
  BY <1>0, <1>2, <1>3, <1>15 DEF Panic, Prepare
<1>16. CASE UNCHANGED <<producerVars, retErr>>
  BY <1>0, <1>2, <1>3, <1>16 DEF producerVars, Prepare
<1>17. CASE Send \/ Grouper \/ Caller \/ Interrupt \/ UNCHANGED vars
  <2>1. UNCHANGED <<producerVars, retErr>>
    <3>1. CASE Caller
      BY <3>1 DEF Caller, DumpFails, Start, Parse, ParseEnd, Return, callerVars, producerVars
    <3> QED
      BY <1>17, <3>1 DEF Send, Grouper, Interrupt, vars, callerVars, producerVars
  <2> QED
    BY <1>16, <2>1
<1> QED
  BY <1>4, <1>5, <1>6, <1>7, <1>8, <1>9, <1>10, <1>11, <1>12, <1>13, <1>14, <1>15, <1>17
     DEF Next, Producer, Converter, Terminated

(* Every step keeps the converter's part.                                   *)
LEMMA StepConverter == IInv /\ [Next]_vars => ConverterInv'
<1> SUFFICES ASSUME IInv, [Next]_vars PROVE ConverterInv'
  OBVIOUS
<1>0. /\ ProducerInv /\ ConverterInv /\ CallerInv
      /\ retErr \in [Goroutines -> {"none", "nil", "error"}]
      /\ <<>> \in Seq(Row) /\ Len(<<>>) = 0
  BY DEF IInv, UpInv, TypeOK
<1> USE DEF ConverterInv, Goroutines, DBClosed, converterVars, callerVars
<1>1. CASE Prepare \/ Query \/ NextRow \/ NoMoreRows
  <2>1. PICK err \in {"none", "nil", "error"} :
          \/ ProducerReturns(err)
          \/ UNCHANGED retErr /\ producer' \in {"query", "next", "send"}
    BY <1>1 DEF Prepare, Query, NextRow, NoMoreRows
  <2>2. UNCHANGED <<converter, held>> /\ producer \in {"prepare", "query", "next"}
    BY <1>1 DEF Prepare, Query, NextRow, NoMoreRows
  <2>3. retErr'["converter"] = retErr["converter"]
    BY <1>0, <2>1 DEF ProducerReturns
  <2> QED
    BY <1>0, <2>1, <2>2, <2>3 DEF ProducerReturns
<1>2. CASE RowsCut \/ Resolve \/ ProducerCancelled
  <2>1. PICK err \in {"none", "nil", "error"} :
          \/ ProducerReturns(err)
          \/ UNCHANGED retErr /\ producer' \in {"query", "next", "send"}
    BY <1>2 DEF RowsCut, Resolve, ProducerCancelled
  <2>2. UNCHANGED <<converter, held>> /\ producer \in {"next", "resolve", "send"}
    BY <1>2 DEF RowsCut, Resolve, ProducerCancelled
  <2>3. retErr'["converter"] = retErr["converter"]
    BY <1>0, <2>1 DEF ProducerReturns
  <2> QED
    BY <1>0, <2>1, <2>2, <2>3 DEF ProducerReturns
<1>3. CASE GroupDone("producer") \/ GroupDone("converter")
  BY <1>0, <1>3 DEF GroupDone
<1>4. CASE Handover
  <2>1. /\ converter = "receive" /\ held = <<>> /\ retErr["converter"] = "none"
        /\ UNCHANGED retErr
    BY <1>0, <1>4 DEF Handover
  <2>2. \/ converter' = "receive" /\ held' = <<>>
        \/ converter' \in {"fill", "source"} /\ Len(held') = 1
    <3>1. \/ UNCHANGED <<converter, held>>
          \/ /\ converter' \in {"fill", "source"}
             /\ held' = <<[prog |-> table[next].prog, pos |-> next]>>
      BY <1>4 DEF Handover
    <3> QED
      BY <2>1, <3>1
  <2> QED
    BY <2>1, <2>2
<1>5. CASE Source \/ Fill
  <2>1. retErr["converter"] = "none" /\ converter \in {"source", "fill"}
    BY <1>0, <1>5 DEF Source, Fill
  <2>2. \/ converter' \in {"fill", "send"} /\ UNCHANGED <<held, retErr>>
        \/ ConverterReturns("error")
    BY <1>5 DEF Source, Fill
  <2>3. CASE ConverterReturns("error")
    BY <1>0, <2>3 DEF ConverterReturns
  <2> QED
    BY <1>0, <2>1, <2>2, <2>3
<1>6. CASE ConverterEnd
  BY <1>0, <1>6 DEF ConverterEnd, ConverterReturns, producerVars
<1>7. CASE ConverterCancelled
  BY <1>0, <1>7 DEF ConverterCancelled, ConverterReturns
<1>8. CASE Panic
  BY <1>0, <1>8 DEF Panic
<1>9. CASE Send
  BY <1>0, <1>9 DEF Send
<1>10. CASE Start
  BY <1>0, <1>10 DEF Start, CallerInv, producerVars
<1>11. CASE Grouper \/ Interrupt \/ UNCHANGED vars
  BY <1>0, <1>11 DEF Grouper, Interrupt, vars, producerVars
<1>12. CASE DumpFails \/ Parse \/ ParseEnd \/ Return
  BY <1>0, <1>12 DEF DumpFails, Parse, ParseEnd, Return, producerVars
<1> QED
  BY <1>1, <1>2, <1>3, <1>4, <1>5, <1>6, <1>7, <1>8, <1>9, <1>10, <1>11, <1>12
     DEF Next, Producer, Converter, Caller, Terminated

(* Every step keeps the caller's part.                                      *)
LEMMA StepCaller == IInv /\ [Next]_vars => CallerInv'
<1> SUFFICES ASSUME IInv, [Next]_vars PROVE CallerInv'
  OBVIOUS
<1>0. /\ ProducerInv /\ ConverterInv /\ CallerInv /\ GroupInv
      /\ retErr \in [Goroutines -> {"none", "nil", "error"}]
  BY DEF IInv, UpInv, DownInv, TypeOK
<1> USE DEF CallerInv, Goroutines, AllDone, converterVars, callerVars, groupVars
<1>1. CASE Prepare \/ Query \/ NextRow \/ NoMoreRows
  <2>1. /\ UNCHANGED <<groupVars, converterVars, groupErr, caller, outcome>>
        /\ retErr'["converter"] = retErr["converter"] /\ producer' # "done" /\ producer # "done"
    BY <1>0, <1>1 DEF Prepare, Query, NextRow, NoMoreRows, ProducerReturns
  <2> QED
    BY <1>0, <2>1
<1>2. CASE RowsCut \/ Resolve \/ ProducerCancelled
  <2>1. /\ UNCHANGED <<groupVars, converterVars, groupErr, caller, outcome>>
        /\ retErr'["converter"] = retErr["converter"] /\ producer' # "done" /\ producer # "done"
    BY <1>0, <1>2 DEF RowsCut, Resolve, ProducerCancelled, ProducerReturns
  <2> QED
    BY <1>0, <2>1
<1>3. CASE GroupDone("producer") \/ GroupDone("converter")
  BY <1>0, <1>3 DEF GroupDone, KeepsError
<1>4. CASE Handover
  <2>1. /\ UNCHANGED <<groupVars, cached, retErr, groupErr, caller, outcome>>
        /\ producer' # "done" /\ producer # "done" /\ converter = "receive"
        /\ converter' \in {"receive", "fill", "source"}
    BY <1>4 DEF Handover, AfterSend
  <2> QED
    BY <1>0, <2>1
<1>5. CASE Source \/ Fill
  <2>1. /\ UNCHANGED <<groupVars, producer, cached, groupErr, caller, outcome>>
        /\ retErr'["producer"] = retErr["producer"]
        /\ converter \in {"source", "fill"} /\ converter' \in {"returned", "fill", "send"}
    BY <1>0, <1>5 DEF Source, Fill, ConverterReturns, producerVars
  <2> QED
    BY <1>0, <2>1
<1>6. CASE ConverterEnd \/ ConverterCancelled
  <2>1. /\ UNCHANGED <<groupVars, producer, cached, groupErr, caller, outcome>>
        /\ retErr'["producer"] = retErr["producer"]
        /\ converter = "receive" /\ converter' = "returned"
    BY <1>0, <1>6 DEF ConverterEnd, ConverterCancelled, ConverterReturns, producerVars
  <2> QED
    BY <1>0, <2>1
<1>7. CASE Panic
  BY <1>0, <1>7 DEF Panic
<1>8. CASE Send
  BY <1>0, <1>8 DEF Send, producerVars
<1>9. CASE Start
  BY <1>0, <1>9 DEF Start, producerVars
<1>10. CASE Grouper
  BY <1>0, <1>10 DEF Grouper, Grouping, GroupReceive, GroupYield, GroupEnd, GroupFlush,
                     AfterLastRow, UAClosed, GroupInv, producerVars
<1>11. CASE DumpFails
  BY <1>0, <1>11 DEF DumpFails, producerVars
<1>12. CASE Parse
  BY <1>0, <1>12 DEF Parse, ParseGroup, producerVars
<1>13. CASE ParseEnd
  BY <1>0, <1>13 DEF ParseEnd, FilteredClosed, producerVars
<1>14. CASE Return
  BY <1>0, <1>14 DEF Return, producerVars
<1>15. CASE Interrupt \/ UNCHANGED vars
  BY <1>0, <1>15 DEF Interrupt, vars, producerVars
<1> QED
  BY <1>1, <1>2, <1>3, <1>4, <1>5, <1>6, <1>7, <1>8, <1>9, <1>10, <1>11, <1>12, <1>13,
     <1>14, <1>15 DEF Next, Producer, Converter, Caller, Terminated

(* Nothing is kept before the query ran.                                    *)
LEMMA NothingYet ==
  ASSUME TypeOK, ProducerInv, CacheInv, producer \in {"prepare", "query"}
  PROVE  held = <<>> /\ cached = <<>>
<1>1. next = 0
  BY DEF ProducerInv
<1>2. \A r \in RowsOf(cached) \cup RowsOf(held) : r.pos \in Nat \ {0} /\ r.pos <= next
  BY <1>1, StreamedRows DEF CacheInv, MayHave
<1>3. RowsOf(cached) = {} /\ RowsOf(held) = {}
  BY <1>1, <1>2
<1>4. cached \in Seq(Row) /\ held \in Seq(Row)
  BY DEF TypeOK
<1>5. DOMAIN cached = {} /\ DOMAIN held = {}
  BY <1>3 DEF RowsOf
<1> QED
  BY <1>4, <1>5

(* Handing a row over, skipping it or passing it on keeps the rows kept so. *)
LEMMA HandoverCache ==
  ASSUME IInv, [Next]_vars, Handover
  PROVE  CacheInv'
<1>0. /\ TypeOK /\ ProducerInv /\ ConverterInv /\ CacheInv
      /\ next \in DOMAIN table
      /\ retErr \in [Goroutines -> {"none", "nil", "error"}]
  BY HandedRow DEF IInv, UpInv, TypeOK, Handover
<1>1. PICK row \in Row : row = RowAt(next) /\ row = [prog |-> table[next].prog, pos |-> next]
  BY <1>0, HandedRow DEF Handover, RowAt
<1>2. /\ producer = "send" /\ producer' = AfterSend /\ converter = "receive"
      /\ UNCHANGED <<table, resolver, cached, retErr>>
  BY DEF Handover, callerVars
<1>3. next' = (IF AfterSend = "send" THEN next + 1 ELSE next)
  BY DEF Handover
<1>4. held = <<>> /\ retErr["converter"] = "none" /\ retErr["producer"] = "none"
  BY <1>0, <1>2 DEF ConverterInv, ProducerInv, Goroutines
<1>5. Streamed' = Streamed
  BY <1>2 DEF Streamed, Packaged, RowAt
<1>6. next \in Nat \ {0} /\ \A r \in Streamed : r.pos \in Nat \ {0}
  BY <1>0, <1>1, StreamedRows DEF Row
<1>7. \A r \in Streamed : (MustHave(r.pos))' => r.pos < next \/ r = row
  <2> SUFFICES ASSUME NEW r \in Streamed, (MustHave(r.pos))', ~(r.pos < next) PROVE r = row
    OBVIOUS
  <2>1. r.pos = next
    BY <1>2, <1>3, <1>4, <1>6 DEF MustHave, AfterSend
  <2> QED
    BY <1>0, <1>1, <2>1, StreamedRows
<1>8. \A r \in Streamed : r.pos < next => r \in RowsOf(cached)
  BY <1>0, <1>2, <1>4 DEF CacheInv, MustHave, RowsOf
<1>9. \A r \in RowsOf(cached) : r \in Streamed /\ r.pos < next /\ (MayHave(r.pos))'
  BY <1>0, <1>2, <1>3, <1>6 DEF CacheInv, MayHave, AfterSend
<1>10. CASE PackageOf[row.prog] = NoPackage /\ UNCHANGED held
  <2>1. row \notin Streamed
    BY <1>0, <1>10, StreamedRows
  <2> QED
    BY <1>0, <1>2, <1>4, <1>5, <1>7, <1>8, <1>9, <1>10, <2>1 DEF CacheInv, RowsOf
<1>11. CASE PackageOf[row.prog] # NoPackage /\ held' = <<row>>
  <2>1. row \in Streamed
    <3>1. PackageOf[table[next].prog] # NoPackage
      BY <1>1, <1>11
    <3>2. resolver \/ ~table[next].plus
      BY <1>0, <1>2 DEF ProducerInv
    <3> QED
      BY <1>0, <1>1, <3>1, <3>2, RowStreamed
  <2>2. (RowsOf(held))' = {row}
    BY <1>11 DEF RowsOf
  <2>3. (MayHave(row.pos))'
    BY <1>1, <1>2, <1>3, <1>6 DEF MayHave, AfterSend
  <2>4. (RowsOf(cached))' = RowsOf(cached)
    BY <1>2 DEF RowsOf
  <2>5. row.pos = next
    BY <1>1
  <2> QED
    BY <1>0, <1>2, <1>4, <1>5, <1>7, <1>8, <1>9, <2>1, <2>2, <2>3, <2>4, <2>5 DEF CacheInv
<1> QED
  BY <1>1, <1>10, <1>11 DEF Handover

(* So does keeping the row after it was passed on.                          *)
LEMMA SendCache ==
  ASSUME IInv, [Next]_vars, Send
  PROVE  CacheInv'
<1>0. /\ TypeOK /\ ProducerInv /\ ConverterInv /\ CacheInv
      /\ cached \in Seq(Row)
      /\ retErr \in [Goroutines -> {"none", "nil", "error"}]
  BY DEF IInv, UpInv, TypeOK
<1>1. converter = "send"
  BY DEF Send
<1>2. PICK row \in Row : row = held[1]
  BY <1>0, <1>1, HeldRow
<1>3. /\ RowsOf(held) = {row} /\ retErr["converter"] = "none"
  BY <1>0, <1>1, <1>2 DEF ConverterInv, RowsOf, TypeOK, Goroutines
<1>4. cached' = Append(cached, row) /\ held' = <<>> /\ UNCHANGED <<producerVars, table, retErr>>
  BY <1>2 DEF Send, CacheRow, callerVars
<1>5. Streamed' = Streamed
  BY <1>4 DEF Streamed, Packaged, RowAt, producerVars
<1>6. (RowsOf(cached))' = RowsOf(cached) \cup {row} /\ (RowsOf(held))' = {}
  BY <1>0, <1>4 DEF RowsOf
<1>7. \A i, j \in DOMAIN cached' : i < j => cached'[i].pos < cached'[j].pos
  <2>1. \A i, j \in DOMAIN cached : i < j => cached[i].pos < cached[j].pos
    BY <1>0 DEF CacheInv
  <2>2. \A i \in DOMAIN cached : cached[i].pos < row.pos
    BY <1>0, <1>3 DEF CacheInv, RowsOf
  <2> QED
    BY <1>0, <1>4, <2>1, <2>2
<1>8. \A r \in Streamed : \A p : MustHave(p) <=> (MustHave(p))'
  BY <1>4 DEF MustHave, producerVars
<1>9. \A p : MayHave(p) => (MayHave(p))'
  BY <1>4 DEF MayHave, producerVars
<1>10. row \in Streamed /\ MayHave(row.pos) /\ row.pos \in Nat
  BY <1>0, <1>3, StreamedRows DEF CacheInv
<1>11. \A r \in Streamed : MustHave(r.pos) => r \in RowsOf(cached) \/ r = row
  BY <1>0, <1>1, <1>3 DEF CacheInv
<1>12. \A r \in Streamed : r.pos < row.pos => r \in RowsOf(cached)
  BY <1>0, <1>10, <1>11, StreamedRows DEF MustHave, MayHave, TypeOK
<1> QED
  BY <1>0, <1>5, <1>6, <1>7, <1>8, <1>9, <1>10, <1>11, <1>12 DEF CacheInv

(* A step that keeps the rows, and asks the converter for no more, keeps    *)
(* what is known of them.                                                  *)
LEMMA CacheStays ==
  ASSUME CacheInv, Streamed' = Streamed, UNCHANGED cached, held' = held \/ held' = <<>>,
         \A r \in Streamed : MayHave(r.pos) => (MayHave(r.pos))',
         converter' # "dead" /\ retErr'["converter"] # "error" =>
           /\ UNCHANGED held /\ converter # "dead" /\ retErr["converter"] # "error"
           /\ \A r \in Streamed : (MustHave(r.pos))' => MustHave(r.pos)
  PROVE  CacheInv'
<1>1. (RowsOf(cached))' = RowsOf(cached) /\ (RowsOf(held))' \subseteq RowsOf(held)
  BY DEF RowsOf
<1>2. UNCHANGED held => (RowsOf(held))' = RowsOf(held)
  BY DEF RowsOf
<1> QED
  BY <1>1, <1>2 DEF CacheInv

(* Every step keeps what is known of the rows kept.                         *)
LEMMA StepCache == IInv /\ [Next]_vars => CacheInv'
<1> SUFFICES ASSUME IInv, [Next]_vars PROVE CacheInv'
  OBVIOUS
<1>0. /\ TypeOK /\ ProducerInv /\ ConverterInv /\ CallerInv /\ CacheInv
      /\ next \in Nat
      /\ retErr \in [Goroutines -> {"none", "nil", "error"}]
  BY TablesAssumption DEF IInv, UpInv, TypeOK
<1>1. \A r \in Streamed : r.pos \in Nat \ {0}
  BY <1>0, StreamedRows
<1>2. ~Prepare => Streamed' = Streamed
  BY StreamSame
<1> USE DEF Goroutines
<1>3. CASE Prepare \/ Query
  <2>1. held' = <<>> /\ cached' = <<>> /\ producer' \in {"query", "next", "returned"} /\ next' = 0
    BY <1>0, <1>3, NothingYet DEF Prepare, Query, ProducerReturns, ProducerInv, converterVars
  <2>2. \A r \in Streamed' : r.pos \in Nat \ {0}
    BY <1>0, StreamPositive
  <2>3. \A r \in Streamed' : ~(MustHave(r.pos))'
    BY <2>1, <2>2 DEF MustHave
  <2> QED
    BY <2>1, <2>3 DEF CacheInv, RowsOf
<1>4. CASE NextRow
  <2>1. PICK i \in DOMAIN table :
          /\ IsNextFetched(i)
          /\ \/ next' = i /\ producer' = "send" /\ UNCHANGED retErr
             \/ ProducerReturns("error") /\ UNCHANGED next
    BY <1>4 DEF NextRow
  <2>2. /\ producer = "next" /\ i \in Nat /\ i > next
        /\ retErr'["converter"] = retErr["converter"] /\ UNCHANGED <<converter, held, cached>>
    BY <1>0, <1>4, <2>1, TablesAssumption
       DEF NextRow, ProducerReturns, IsNextFetched, TypeOK, converterVars
  <2>3. \A r \in Streamed : r.pos < i => r.pos <= next
    BY <1>0, <2>1, <2>2, NonePassed
  <2>4. \A r \in Streamed : MayHave(r.pos) => (MayHave(r.pos))'
    BY <1>0, <1>1, <2>1, <2>2 DEF MayHave, ProducerReturns
  <2>5. \A r \in Streamed : (MustHave(r.pos))' => MustHave(r.pos)
    BY <1>0, <1>1, <2>1, <2>2, <2>3 DEF MustHave, ProducerReturns, ProducerInv
  <2>6. Streamed' = Streamed
    BY <1>2, <2>2 DEF Prepare
  <2> QED
    BY <1>0, <2>2, <2>4, <2>5, <2>6, CacheStays
<1>5. CASE NoMoreRows \/ RowsCut \/ ProducerCancelled
  <2>1. /\ retErr'["converter"] = retErr["converter"] /\ UNCHANGED <<converter, held, cached, next>>
        /\ producer' = "returned" /\ producer \in {"next", "send"} /\ retErr'["producer"] # "none"
        /\ producer = "send" => retErr'["producer"] = "error"
    BY <1>0, <1>5 DEF NoMoreRows, RowsCut, ProducerCancelled, ProducerReturns, converterVars
  <2>2. \A r \in Streamed : MayHave(r.pos) => (MayHave(r.pos))'
    BY <1>0, <1>1, <2>1 DEF MayHave
  <2>3. \A r \in Streamed : (MustHave(r.pos))' => MustHave(r.pos)
    BY <1>0, <1>1, <2>1 DEF MustHave
  <2>4. Streamed' = Streamed
    BY <1>2, <2>1 DEF Prepare
  <2> QED
    BY <1>0, <2>1, <2>2, <2>3, <2>4, CacheStays
<1>6. CASE Resolve
  <2>1. /\ retErr'["converter"] = retErr["converter"] /\ UNCHANGED <<converter, held, cached>>
        /\ producer = "resolve" /\ retErr["producer"] = "none"
    BY <1>0, <1>6 DEF Resolve, ProducerReturns, ProducerInv, converterVars
  <2>2. \/ next' = next + 1 /\ producer' = "send" /\ UNCHANGED retErr
        \/ next' = next /\ producer' = "returned" /\ retErr'["producer"] = "error"
    BY <1>0, <1>6 DEF Resolve, ProducerReturns
  <2>3. \A r \in Streamed : MayHave(r.pos) => (MayHave(r.pos))'
    BY <1>0, <1>1, <2>1, <2>2 DEF MayHave
  <2>4. \A r \in Streamed : (MustHave(r.pos))' => MustHave(r.pos)
    BY <1>0, <1>1, <2>1, <2>2 DEF MustHave
  <2>5. Streamed' = Streamed
    BY <1>2, <2>1 DEF Prepare
  <2> QED
    BY <1>0, <2>1, <2>3, <2>4, <2>5, CacheStays
<1>7. CASE GroupDone("producer") \/ GroupDone("converter")
  <2>1. /\ UNCHANGED <<held, cached, next, retErr>>
        /\ converter' = "dead" <=> converter = "dead"
        /\ producer' = producer \/ (producer = "returned" /\ producer' = "done")
    BY <1>0, <1>7 DEF GroupDone
  <2>2. Streamed' = Streamed
    BY <1>2, <1>7 DEF GroupDone, Prepare
  <2> QED
    BY <1>0, <1>1, <2>1, <2>2, CacheStays DEF MayHave, MustHave
<1>8. CASE Source \/ Fill
  <2>1. /\ UNCHANGED <<cached, next, producer>> /\ converter' # "dead" /\ converter # "dead"
        /\ retErr'["producer"] = retErr["producer"]
        /\ \/ UNCHANGED <<held, retErr>>
           \/ held' = <<>> /\ retErr'["converter"] = "error"
    BY <1>0, <1>8 DEF Source, Fill, ConverterReturns, producerVars
  <2>2. Streamed' = Streamed
    BY <1>2, <1>8 DEF Source, Fill, Prepare, producerVars
  <2> QED
    BY <1>0, <1>1, <2>1, <2>2, CacheStays DEF MayHave, MustHave
<1>9. CASE ConverterEnd \/ ConverterCancelled
  <2>1. /\ UNCHANGED <<cached, next, producer>> /\ converter' # "dead" /\ converter # "dead"
        /\ retErr'["producer"] = retErr["producer"]
        /\ held' = <<>> /\ held = <<>> /\ retErr["converter"] = "none"
    BY <1>0, <1>9 DEF ConverterEnd, ConverterCancelled, ConverterReturns, ConverterInv, producerVars
  <2>2. Streamed' = Streamed
    BY <1>2, <1>9 DEF ConverterEnd, ConverterCancelled, Prepare, producerVars
  <2> QED
    BY <1>0, <1>1, <2>1, <2>2, CacheStays DEF MayHave, MustHave
<1>10. CASE Panic
  <2>1. UNCHANGED <<held, cached, next>> /\ converter' = "dead" /\ producer' = "dead"
    BY <1>10 DEF Panic
  <2>2. Streamed' = Streamed
    BY <1>2, <1>10 DEF Panic, Prepare
  <2> QED
    BY <1>0, <1>1, <2>1, <2>2, CacheStays DEF MayHave
<1>11. CASE Grouper \/ Caller \/ Interrupt \/ UNCHANGED vars
  <2>1. /\ UNCHANGED <<held, cached, next, producer, retErr>>
        /\ converter' = "dead" <=> converter = "dead"
    <3>1. CASE Caller
      BY <1>0, <3>1 DEF Caller, DumpFails, Start, Parse, ParseEnd, Return, CallerInv,
                        producerVars, converterVars, callerVars
    <3> QED
      BY <1>11, <3>1 DEF Grouper, Interrupt, vars, producerVars, converterVars, callerVars
  <2>2. Streamed' = Streamed
    BY <1>2, <2>1 DEF Prepare
  <2> QED
    BY <1>0, <1>1, <2>1, <2>2, CacheStays DEF MayHave, MustHave
<1> QED
  BY <1>3, <1>4, <1>5, <1>6, <1>7, <1>8, <1>9, <1>10, <1>11, HandoverCache, SendCache
     DEF Next, Producer, Converter, Terminated

LEMMA StepUp == IInv /\ [Next]_vars => UpInv'
BY StepProducer, StepConverter, StepCaller, StepCache DEF UpInv

-----------------------------------------------------------------------------
(* The groups' side.                                                        *)

(* What was taken from userArgs is a beginning of the stream.               *)
LEMMA ConsumedRows ==
  ASSUME TypeOK, CacheInv, QueueInv
  PROVE  /\ Consumed \subseteq Streamed
         /\ \A r \in Streamed, c \in Consumed : r.pos < c.pos => r \in Consumed
<1>1. cached \in Seq(Row) /\ userArgs \in Seq(Row) /\ Taken \in Nat /\ Taken <= Len(cached)
  BY DEF TypeOK, GroupTypeOK, QueueInv, Taken
<1>2. \A j \in 1..Taken : j \in DOMAIN cached
  BY <1>1
<1>3. Consumed \subseteq Streamed
  BY <1>2 DEF Consumed, CacheInv, RowsOf
<1>4. ASSUME NEW r \in Streamed, NEW c \in Consumed, r.pos < c.pos PROVE r \in Consumed
  <2>1. PICK j \in 1..Taken : c = cached[j]
    BY DEF Consumed
  <2>2. r \in RowsOf(cached)
    BY <1>2, <1>4, <2>1 DEF CacheInv, RowsOf
  <2>3. PICK i \in DOMAIN cached : r = cached[i]
    BY <2>2 DEF RowsOf
  <2>4. r.pos \in Nat /\ c.pos \in Nat
    BY <1>3, StreamedRows
  <2>5. ~(j < i) /\ i # j
    BY <1>2, <1>4, <2>1, <2>3, <2>4 DEF CacheInv
  <2>6. i \in 1..Taken
    BY <1>1, <2>1, <2>3, <2>5
  <2> QED
    BY <2>3, <2>6 DEF Consumed
<1> QED
  BY <1>3, <1>4

(* Blocks stay blocks when more rows are consumed, and keep having all of   *)
(* their program.                                                          *)
LEMMA BlocksStay ==
  ASSUME Consumed \subseteq Consumed', Streamed' = Streamed, NEW s
  PROVE  /\ Block(s) => (Block(s))'
         /\ HasAll(s) <=> (HasAll(s))'
BY DEF Block, HasAll

(* The invariant of the groups stays when they and what was consumed do.    *)
LEMMA GroupsStay ==
  ASSUME DownInv, Streamed' = Streamed, Consumed' = Consumed,
         UNCHANGED <<grouper, group, opener, filteredArgs, functions>>
  PROVE  BlockInv' /\ OrderInv' /\ WholeInv' /\ CollectInv' /\ FoundInv'
<1>1. BlockInv'
  BY BlocksStay DEF DownInv, BlockInv
<1>2. OrderInv'
  BY DEF DownInv, OrderInv
<1>3. WholeInv'
  BY BlocksStay DEF DownInv, WholeInv
<1>4. CollectInv'
  BY DEF DownInv, CollectInv
<1>5. FoundInv'
  BY DEF DownInv, FoundInv, FoundIn
<1> QED
  BY <1>1, <1>2, <1>3, <1>4, <1>5

(* No group is there before a row was consumed.                             *)
LEMMA NoGroups ==
  ASSUME TypeOK, BlockInv, QueueInv, cached = <<>>
  PROVE  /\ userArgs = <<>> /\ Consumed = {}
         /\ group = <<>> /\ opener = <<>> /\ filteredArgs = <<>> /\ functions = <<>>
<1>1. Len(userArgs) = 0 /\ Taken = 0
  BY DEF TypeOK, GroupTypeOK, QueueInv, Taken
<1>2. Consumed = {}
  BY <1>1 DEF Consumed
<1>3. \A s : Block(s) => DOMAIN s = {}
  BY <1>2 DEF Block
<1>4. group \in Seq(Row) /\ opener \in Seq(Row) /\ userArgs \in Seq(Row)
  BY DEF TypeOK, GroupTypeOK
<1>5. DOMAIN group = {} /\ DOMAIN opener = {}
  BY <1>3 DEF BlockInv
<1>6. filteredArgs \in Seq(Seq(Row) \ {<<>>}) /\ functions \in Seq(Seq(Row) \ {<<>>})
  BY DEF TypeOK, GroupTypeOK
<1>7. \A s \in Seq(Row) \ {<<>>} : DOMAIN s # {}
  <2> SUFFICES ASSUME NEW s \in Seq(Row), DOMAIN s = {} PROVE s = <<>>
    OBVIOUS
  <2>1. Len(s) = 0
    OBVIOUS
  <2> QED
    BY <2>1
<1>8. DOMAIN filteredArgs = {}
  BY <1>3, <1>6, <1>7 DEF BlockInv
<1>9. DOMAIN functions = {}
  BY <1>3, <1>6, <1>7 DEF BlockInv
<1> QED
  BY <1>1, <1>2, <1>4, <1>5, <1>6, <1>8, <1>9

(* What acts beside the groups keeps their invariant.                       *)
LEMMA BesideDown ==
  ASSUME IInv, [Next]_vars, Beside
  PROVE  DownInv'
<1>0. UNCHANGED <<groupVars, cached>> /\ (UAClosed => UAClosed')
      /\ (converter = "idle" => converter' = "idle")
  BY BesideFrame
<1>1. Consumed' = Consumed /\ QueueInv'
  BY <1>0 DEF IInv, DownInv, Consumed, QueueInv, Taken, groupVars
<1>2. GroupInv'
  BY <1>0 DEF IInv, DownInv, GroupInv, groupVars
<1>3. CASE ~Prepare
  <2>1. Streamed' = Streamed
    BY <1>3, StreamSame
  <2> QED
    BY <1>0, <1>1, <1>2, <2>1, GroupsStay DEF IInv, DownInv, groupVars
<1>4. CASE Prepare
  <2>1. cached = <<>>
    BY <1>4, NothingYet DEF IInv, UpInv, Prepare
  <2>2. /\ Consumed = {} /\ group = <<>> /\ opener = <<>> /\ filteredArgs = <<>> /\ functions = <<>>
    BY <2>1, NoGroups DEF IInv, DownInv
  <2>3. /\ Consumed' = {} /\ group' = <<>> /\ opener' = <<>> /\ filteredArgs' = <<>>
        /\ functions' = <<>>
    BY <1>0, <1>1, <2>2 DEF groupVars
  <2>4. BlockInv' /\ OrderInv' /\ WholeInv' /\ CollectInv' /\ FoundInv'
    BY <2>3 DEF BlockInv, OrderInv, WholeInv, CollectInv, FoundInv, Block, Before
  <2> QED
    BY <1>1, <1>2, <2>4 DEF DownInv
<1> QED
  BY <1>3, <1>4

(* So does a panic, which stops the grouper.                                *)
LEMMA PanicDown ==
  ASSUME IInv, [Next]_vars, Panic
  PROVE  DownInv'
<1>0. /\ UNCHANGED <<userArgs, group, opener, filteredArgs, functions, cached>>
      /\ grouper' = "dead"
  BY DEF Panic
<1>1. Consumed' = Consumed /\ QueueInv'
  BY <1>0 DEF IInv, DownInv, Consumed, QueueInv, Taken
<1>2. Streamed' = Streamed
  BY StreamSame DEF Panic, Prepare
<1>3. BlockInv'
  BY <1>0, <1>1, <1>2, BlocksStay DEF IInv, DownInv, BlockInv
<1>4. OrderInv'
  BY <1>0 DEF IInv, DownInv, OrderInv
<1>5. WholeInv'
  BY <1>0, <1>1, <1>2, BlocksStay DEF IInv, DownInv, WholeInv
<1>6. GroupInv' /\ CollectInv'
  BY <1>0 DEF GroupInv, CollectInv
<1>7. FoundInv'
  BY <1>0, <1>1 DEF IInv, DownInv, FoundInv, FoundIn
<1> QED
  BY <1>1, <1>3, <1>4, <1>5, <1>6, <1>7 DEF DownInv

(* The grouper starts with nothing.                                         *)
LEMMA StartDown ==
  ASSUME IInv, [Next]_vars, Start
  PROVE  DownInv'
<1>0. /\ UNCHANGED <<userArgs, group, opener, filteredArgs, functions, cached>>
      /\ grouper' = "receive" /\ grouper = "idle" /\ cached = <<>>
  BY DEF Start, IInv, UpInv, CallerInv, converterVars
<1>1. Consumed' = Consumed /\ QueueInv'
  BY <1>0 DEF IInv, DownInv, Consumed, QueueInv, Taken
<1>2. /\ Consumed = {} /\ group = <<>> /\ opener = <<>> /\ filteredArgs = <<>> /\ functions = <<>>
  BY <1>0, NoGroups DEF IInv, DownInv
<1>3. /\ Consumed' = {} /\ group' = <<>> /\ opener' = <<>> /\ filteredArgs' = <<>>
      /\ functions' = <<>>
  BY <1>0, <1>1, <1>2
<1>4. BlockInv' /\ OrderInv' /\ WholeInv' /\ CollectInv' /\ FoundInv'
  BY <1>3 DEF BlockInv, OrderInv, WholeInv, CollectInv, FoundInv, Block, Before
<1>5. GroupInv'
  BY <1>0, <1>3 DEF GroupInv
<1> QED
  BY <1>1, <1>4, <1>5 DEF DownInv

(* The converter's send consumes nothing.                                   *)
LEMMA SendDown ==
  ASSUME IInv, [Next]_vars, Send
  PROVE  DownInv'
<1>0. /\ TypeOK /\ QueueInv /\ GroupInv /\ cached \in Seq(Row) /\ userArgs \in Seq(Row)
      /\ converter = "send"
  BY DEF IInv, UpInv, DownInv, TypeOK, GroupTypeOK, Send
<1>1. PICK row \in Row : row = held[1]
  BY <1>0, HeldRow DEF IInv, UpInv
<1>2. /\ cached' = Append(cached, row) /\ userArgs' = Append(userArgs, row)
      /\ UNCHANGED <<grouper, group, opener, filteredArgs, functions>>
  BY <1>1 DEF Send, CacheRow
<1>3. Taken' = Taken /\ Taken \in Nat /\ Taken <= Len(cached)
  BY <1>0, <1>2 DEF Taken, QueueInv
<1>4. \A j \in 1..Taken : cached'[j] = cached[j]
  BY <1>0, <1>2, <1>3
<1>5. Consumed' = Consumed
  BY <1>3, <1>4 DEF Consumed
<1>6. QueueInv'
  <2>1. \A i \in DOMAIN userArgs : userArgs[i] = cached[Taken + i]
    BY <1>0 DEF QueueInv
  <2>2. Taken + Len(userArgs) = Len(cached)
    BY <1>0, <1>3 DEF Taken
  <2>3. ASSUME NEW i \in DOMAIN userArgs' PROVE userArgs'[i] = cached'[Taken + i]
    <3>1. CASE i \in DOMAIN userArgs
      <4>1. Taken + i \in DOMAIN cached
        BY <1>0, <1>3, <2>2, <3>1
      <4> QED
        BY <1>0, <1>2, <2>1, <3>1, <4>1
    <3>2. CASE i = Len(userArgs) + 1
      <4>1. Taken + i = Len(cached) + 1
        BY <1>0, <1>3, <2>2, <3>2
      <4> QED
        BY <1>0, <1>2, <3>2, <4>1
    <3>3. i \in 1..(Len(userArgs) + 1)
      BY <1>0, <1>2
    <3> QED
      BY <1>0, <3>1, <3>2, <3>3
  <2> QED
    BY <1>3, <2>3 DEF QueueInv
<1>7. Streamed' = Streamed
  BY StreamSame DEF Send, Prepare, producerVars
<1>8. GroupInv'
  BY <1>0, <1>2 DEF GroupInv, UAClosed
<1> QED
  BY <1>2, <1>5, <1>6, <1>7, <1>8, GroupsStay DEF IInv, DownInv

-----------------------------------------------------------------------------
(* The grouper's steps.                                                     *)

(* The row the grouper takes comes after all it has taken.                  *)
LEMMA NextConsumed ==
  ASSUME IInv, [Next]_vars, Grouper, GroupReceive
  PROVE  \E ua \in Row :
           /\ ua = Head(userArgs) /\ ua \in Streamed
           /\ Consumed' = Consumed \cup {ua}
           /\ \A c \in Consumed : c.pos < ua.pos
           /\ QueueInv'
<1>0. /\ TypeOK /\ QueueInv /\ CacheInv /\ cached \in Seq(Row) /\ userArgs \in Seq(Row)
      /\ userArgs # <<>> /\ userArgs' = Tail(userArgs) /\ cached' = cached
  BY DEF IInv, UpInv, DownInv, TypeOK, GroupTypeOK, GroupReceive, Grouper, converterVars
<1>1. PICK ua \in Row : ua = Head(userArgs)
  BY <1>0
<1>2. /\ Len(userArgs) > 0 /\ Len(userArgs') = Len(userArgs) - 1
      /\ \A i \in 1..Len(userArgs') : userArgs'[i] = userArgs[i+1]
  BY <1>0
<1>3. Taken' = Taken + 1 /\ Taken \in Nat /\ Taken + Len(userArgs) = Len(cached)
  BY <1>0, <1>2 DEF Taken, QueueInv
<1>4. ua = cached[Taken + 1] /\ Taken + 1 \in DOMAIN cached
  BY <1>0, <1>1, <1>2, <1>3 DEF QueueInv
<1>5. Consumed' = Consumed \cup {ua}
  <2>1. 1..(Taken + 1) = (1..Taken) \cup {Taken + 1}
    BY <1>3
  <2> QED
    BY <1>0, <1>3, <1>4, <2>1 DEF Consumed
<1>6. \A c \in Consumed : c.pos < ua.pos
  <2>1. \A j \in 1..Taken : j \in DOMAIN cached /\ j < Taken + 1
    BY <1>0, <1>3
  <2> QED
    BY <1>0, <1>4, <2>1 DEF Consumed, CacheInv
<1>7. ua \in Streamed
  BY <1>0, <1>4 DEF CacheInv, RowsOf
<1>8. QueueInv'
  <2>1. \A i \in 1..Len(userArgs') : i + 1 \in DOMAIN userArgs /\ Taken + (i + 1) = (Taken + 1) + i
    BY <1>0, <1>2, <1>3
  <2>2. \A i \in 1..Len(userArgs') : userArgs'[i] = cached'[(Taken + 1) + i]
    BY <1>0, <1>2, <2>1 DEF QueueInv
  <2>3. DOMAIN userArgs' = 1..Len(userArgs')
    BY <1>0
  <2> QED
    BY <1>3, <2>2, <2>3 DEF QueueInv
<1> QED
  BY <1>1, <1>5, <1>6, <1>7, <1>8

(* A group grows by the row that was taken.                                 *)
LEMMA BlockGrows ==
  ASSUME NEW s \in Seq(Row), NEW ua \in Row, Block(s), ua.prog \in Accepted, SameProgram(s, ua),
         Consumed' = Consumed \cup {ua}, \A c \in Consumed : c.pos < ua.pos
  PROVE  (Block(Append(s, ua)))'
<1> DEFINE u == Append(s, ua)
<1>1. /\ Len(u) = Len(s) + 1 /\ DOMAIN u = 1..(Len(s) + 1) /\ DOMAIN s = 1..Len(s)
      /\ Len(s) \in Nat
      /\ \A i \in DOMAIN s : u[i] = s[i]
      /\ u[Len(s) + 1] = ua
  OBVIOUS
<1>2. \A i \in DOMAIN s : s[i] \in Consumed /\ s[i].prog = ua.prog
  BY DEF Block, SameProgram
<1>3. \A i \in DOMAIN u : i \in DOMAIN s \/ i = Len(s) + 1
  BY <1>1
<1>4. \A i \in DOMAIN u : u[i] \in Consumed' /\ u[i].prog = ua.prog
  BY <1>1, <1>2, <1>3
<1>5. 1 \in DOMAIN u
  BY <1>1
<1>6. \A i, j \in DOMAIN u : i < j => u[i].pos < u[j].pos
  <2> SUFFICES ASSUME NEW i \in DOMAIN u, NEW j \in DOMAIN u, i < j PROVE u[i].pos < u[j].pos
    OBVIOUS
  <2>1. i \in DOMAIN s
    BY <1>1
  <2>2. CASE j \in DOMAIN s
    BY <1>1, <2>1, <2>2 DEF Block
  <2>3. CASE j = Len(s) + 1
    BY <1>1, <1>2, <2>1, <2>3
  <2> QED
    BY <1>3, <2>2, <2>3
<1> QED
  BY <1>4, <1>5, <1>6 DEF Block

(* Taking a row keeps the invariant of the groups.                          *)
LEMMA ReceiveDown ==
  ASSUME IInv, [Next]_vars, Grouper, GroupReceive
  PROVE  DownInv'
<1>0. /\ TypeOK /\ GroupTypeOK /\ BlockInv /\ OrderInv /\ WholeInv /\ GroupInv /\ CollectInv
      /\ FoundInv
      /\ group \in Seq(Row) /\ grouper = "receive" /\ opener = <<>> /\ Consumed \subseteq Streamed
      /\ UNCHANGED <<filteredArgs, functions, converter, cached>>
  BY ConsumedRows DEF IInv, UpInv, DownInv, TypeOK, GroupTypeOK, GroupReceive, GroupInv, Grouper,
                      converterVars
<1>1. PICK ua \in Row :
        /\ ua = Head(userArgs) /\ ua \in Streamed
        /\ Consumed' = Consumed \cup {ua}
        /\ \A c \in Consumed : c.pos < ua.pos
        /\ QueueInv'
  BY NextConsumed
<1>2. Streamed' = Streamed
  BY StreamSame DEF Grouper, Prepare, producerVars
<1>3. \A s : (Block(s) => (Block(s))') /\ (HasAll(s) <=> (HasAll(s))')
  BY <1>1, <1>2, BlocksStay
<1>4. /\ Block(group) /\ (\A k \in DOMAIN functions : Block(functions[k]))
      /\ \A k \in DOMAIN filteredArgs : Block(filteredArgs[k])
  BY <1>0 DEF BlockInv
<1>5. WholeInv'
  <2>1. grouper' \in {"receive", "yield"}
    BY <1>0 DEF GroupReceive
  <2> QED
    BY <1>0, <1>3, <2>1 DEF WholeInv
<1>6. \A s : Block(s) => \A i \in DOMAIN s : s[i].pos < ua.pos
  BY <1>1 DEF Block
<1>7. ua.pos \in Nat
  BY DEF Row
<1>8. CASE ua.prog \notin Accepted /\ UNCHANGED <<grouper, group, opener>>
  <2>1. BlockInv'
    BY <1>0, <1>3, <1>8 DEF BlockInv
  <2>2. OrderInv'
    BY <1>0, <1>8 DEF OrderInv
  <2>3. GroupInv'
    BY <1>0, <1>8 DEF GroupInv
  <2>4. group # <<>> => group[1].prog \in Accepted
    BY <1>0, <1>4 DEF Block
  <2>5. CollectInv'
    BY <1>0, <1>1, <1>8, <2>4 DEF CollectInv
  <2>6. FoundInv'
    BY <1>0, <1>1, <1>8 DEF FoundInv, FoundIn, Wanted
  <2> QED
    BY <1>1, <1>5, <2>1, <2>2, <2>3, <2>5, <2>6 DEF DownInv
<1>9. CASE /\ ua.prog \in Accepted /\ SameProgram(group, ua)
           /\ group' = Append(group, ua) /\ UNCHANGED <<grouper, opener>>
  <2>1. (Block(group))'
    BY <1>0, <1>1, <1>4, <1>9, BlockGrows
  <2>2. BlockInv'
    BY <1>0, <1>3, <1>9, <2>1 DEF BlockInv, Block
  <2>3. /\ DOMAIN group' = (DOMAIN group) \cup {Len(group) + 1} /\ group' # <<>>
        /\ \A i \in DOMAIN group : group'[i] = group[i]
        /\ group'[Len(group) + 1] = ua
    BY <1>0, <1>9
  <2>4. \A s : Block(s) /\ Before(s, group) => Before(s, group')
    BY <1>6, <2>3 DEF Before
  <2>5. OrderInv'
    BY <1>0, <1>4, <1>9, <2>4 DEF OrderInv, Before
  <2>6. GroupInv'
    BY <1>0, <1>9 DEF GroupInv
  <2>7. (RowsOf(group))' = RowsOf(group) \cup {ua}
    BY <2>3 DEF RowsOf
  <2>8. ASSUME NEW r \in Consumed', r.prog \in Accepted
        PROVE  \E i \in DOMAIN group' : r.pos <= group'[i].pos
    <3>1. CASE r = ua
      BY <1>7, <2>3, <3>1
    <3>2. CASE r \in Consumed
      <4>1. PICK i \in DOMAIN group : r.pos <= group[i].pos
        BY <1>0, <2>8, <3>2 DEF CollectInv, RowsOf
      <4> QED
        BY <2>3, <4>1
    <3> QED
      BY <1>1, <3>1, <3>2
  <2>9. ASSUME NEW r \in Consumed', r.prog = group'[1].prog
        PROVE  r \in (RowsOf(group))'
    <3>1. CASE r = ua
      BY <2>7, <3>1
    <3>2. CASE r \in Consumed /\ group # <<>>
      <4>1. group'[1] = group[1]
        BY <1>0, <2>3, <3>2
      <4> QED
        BY <1>0, <2>7, <2>9, <3>2, <4>1 DEF CollectInv
    <3>3. CASE r \in Consumed /\ group = <<>>
      <4>1. group'[1] = ua
        BY <2>3, <3>3
      <4> QED
        BY <1>0, <1>9, <2>9, <3>3, <4>1 DEF CollectInv, RowsOf
    <3> QED
      BY <1>1, <3>1, <3>2, <3>3
  <2>10. CollectInv'
    BY <2>8, <2>9 DEF CollectInv
  <2>11. FoundInv'
    BY <1>0, <1>1, <1>9, <2>7 DEF FoundInv, FoundIn
  <2> QED
    BY <1>1, <1>5, <2>2, <2>5, <2>6, <2>10, <2>11 DEF DownInv
<1>10. CASE /\ ua.prog \in Accepted /\ ~SameProgram(group, ua)
            /\ opener' = <<ua>> /\ grouper' = "yield" /\ UNCHANGED group
  <2>1. DOMAIN opener' = {1} /\ opener'[1] = ua /\ opener' # <<>> /\ (RowsOf(opener))' = {ua}
    BY <1>10 DEF RowsOf
  <2>2. (Block(opener))'
    BY <1>1, <1>10, <2>1 DEF Block
  <2>3. BlockInv'
    BY <1>0, <1>3, <1>10, <2>2 DEF BlockInv
  <2>4. \A s : Block(s) => Before(s, opener')
    BY <1>6, <2>1 DEF Before
  <2>5. OrderInv'
    BY <1>0, <1>4, <1>10, <2>4 DEF OrderInv
  <2>6. group # <<>> /\ group[1].prog # ua.prog
    BY <1>0, <1>4, <1>10 DEF SameProgram, Block
  <2>7. GroupInv'
    BY <1>0, <1>10, <2>1, <2>6 DEF GroupInv
  <2>8. CollectInv'
    BY <1>0, <1>1, <1>10, <2>1, <2>6 DEF CollectInv, RowsOf
  <2>9. FoundInv'
    BY <1>0, <1>1, <1>10, <2>1 DEF FoundInv, FoundIn, RowsOf
  <2> QED
    BY <1>1, <1>5, <2>3, <2>5, <2>7, <2>8, <2>9 DEF DownInv
<1> QED
  BY <1>1, <1>8, <1>9, <1>10 DEF GroupReceive

(* A group that a row of another program ends has all of its own.           *)
LEMMA GroupWhole ==
  ASSUME IInv, grouper = "yield"
  PROVE  HasAll(group)
<1>0. /\ TypeOK /\ BlockInv /\ OrderInv /\ GroupInv /\ CollectInv
      /\ group \in Seq(Row) /\ opener \in Seq(Row)
      /\ group # <<>> /\ opener # <<>> /\ opener[1].prog # group[1].prog
  BY DEF IInv, DownInv, TypeOK, GroupTypeOK, GroupInv
<1>1. /\ Consumed \subseteq Streamed
      /\ \A r \in Streamed, c \in Consumed : r.pos < c.pos => r \in Consumed
  BY ConsumedRows DEF IInv, UpInv, DownInv
<1>2. 1 \in DOMAIN group /\ 1 \in DOMAIN opener
  BY <1>0
<1>3. /\ group[1] \in Streamed /\ opener[1] \in Streamed /\ opener[1] \in Consumed
      /\ group[1].pos < opener[1].pos
  BY <1>0, <1>1, <1>2 DEF BlockInv, Block, OrderInv, Before
<1>4. SUFFICES ASSUME NEW r \in Streamed, r.prog = group[1].prog PROVE r \in RowsOf(group)
  BY DEF HasAll
<1>5. r.pos \in Nat /\ opener[1].pos \in Nat
  BY <1>0, <1>3, StreamedRows
<1>6. CASE r.pos < opener[1].pos
  <2>1. r \in Consumed
    BY <1>1, <1>3, <1>6
  <2> QED
    BY <1>0, <1>4, <2>1 DEF CollectInv
<1>7. CASE r.pos = opener[1].pos
  BY <1>0, <1>3, <1>4, <1>7, SameRow
<1>8. CASE opener[1].pos < r.pos
  BY <1>0, <1>3, <1>4, <1>8, Between
<1> QED
  BY <1>5, <1>6, <1>7, <1>8

(* The row that ended the group is all that was consumed of its program.    *)
LEMMA OpenerNew ==
  ASSUME IInv, grouper = "yield"
  PROVE  /\ \A r \in Consumed : r.prog \in Accepted => \E i \in DOMAIN opener : r.pos <= opener[i].pos
         /\ \A r \in Consumed : r.prog = opener[1].prog => r \in RowsOf(opener)
<1>0. /\ TypeOK /\ BlockInv /\ OrderInv /\ GroupInv /\ CollectInv
      /\ group \in Seq(Row) /\ opener \in Seq(Row)
      /\ group # <<>> /\ opener # <<>> /\ opener[1].prog # group[1].prog
  BY DEF IInv, DownInv, TypeOK, GroupTypeOK, GroupInv
<1>1. Consumed \subseteq Streamed
  BY ConsumedRows DEF IInv, UpInv, DownInv
<1>2. /\ 1 \in DOMAIN opener /\ opener[1] \in Streamed /\ opener[1].prog \in Accepted
      /\ opener[1].pos \in Nat
  BY <1>0, <1>1, StreamedRows DEF BlockInv, Block
<1>3. \A i \in DOMAIN group : /\ group[i] \in Streamed /\ group[i].pos < opener[1].pos
                              /\ group[i].pos \in Nat /\ group[i].prog = group[1].prog
  BY <1>0, <1>1, <1>2, StreamedRows DEF BlockInv, Block, OrderInv, Before
<1>4. \A r \in Consumed : r.pos \in Nat /\ r \in Streamed
  BY <1>0, <1>1, StreamedRows
<1>5. ASSUME NEW r \in Consumed, r.prog \in Accepted, r \notin RowsOf(opener)
      PROVE  r.pos < opener[1].pos /\ r.prog # opener[1].prog
  <2>1. PICK i \in DOMAIN group : r.pos <= group[i].pos
    BY <1>0, <1>5 DEF CollectInv
  <2>2. CASE r.pos = group[i].pos
    BY <1>0, <1>3, <1>4, <2>2, SameRow
  <2>3. CASE r.pos < group[i].pos
    BY <1>0, <1>2, <1>3, <1>4, <2>3, Between
  <2> QED
    BY <1>2, <1>3, <1>4, <2>1, <2>2, <2>3
<1>6. \A r \in RowsOf(opener) : \E i \in DOMAIN opener : r.pos <= opener[i].pos
  <2>1. \A i \in DOMAIN opener : opener[i] \in Row
    BY <1>0
  <2> QED
    BY <2>1 DEF RowsOf, Row
<1> QED
  BY <1>2, <1>4, <1>5, <1>6

(* A group passed on: what holds of all the groups holds of one more.       *)
LEMMA OneMore ==
  ASSUME NEW fs \in Seq(Seq(Row)), NEW g \in Seq(Row), NEW gs, gs = Append(fs, g)
  PROVE  /\ DOMAIN gs = (DOMAIN fs) \cup {Len(fs) + 1}
         /\ Len(gs) = Len(fs) + 1 /\ Len(fs) \in Nat
         /\ \A k \in DOMAIN fs : gs[k] = fs[k] /\ k < Len(fs) + 1 /\ k \in Nat
         /\ gs[Len(fs) + 1] = g
OBVIOUS

(* Yielding a group keeps the invariant of the groups.                      *)
LEMMA YieldDown ==
  ASSUME IInv, [Next]_vars, Grouper, GroupYield
  PROVE  DownInv'
<1>0. /\ TypeOK /\ QueueInv /\ BlockInv /\ OrderInv /\ WholeInv /\ GroupInv /\ CollectInv
      /\ FoundInv
      /\ group \in Seq(Row) /\ filteredArgs \in Seq(Seq(Row)) /\ grouper = "yield"
      /\ UNCHANGED <<functions, userArgs, cached>>
      /\ filteredArgs' = Append(filteredArgs, group)
      /\ group' = opener /\ opener' = <<>> /\ grouper' = "receive"
  BY DEF IInv, DownInv, TypeOK, GroupTypeOK, GroupYield, FirstOfNext, Grouper, converterVars
<1>1. Consumed' = Consumed /\ QueueInv'
  BY <1>0 DEF Consumed, QueueInv, Taken
<1>2. Streamed' = Streamed
  BY StreamSame DEF Grouper, Prepare, producerVars
<1>3. \A s : (Block(s) => (Block(s))') /\ (HasAll(s) <=> (HasAll(s))')
  BY <1>1, <1>2, BlocksStay
<1>4. /\ DOMAIN filteredArgs' = (DOMAIN filteredArgs) \cup {Len(filteredArgs) + 1}
      /\ \A k \in DOMAIN filteredArgs :
           filteredArgs'[k] = filteredArgs[k] /\ k < Len(filteredArgs) + 1 /\ k \in Nat
      /\ filteredArgs'[Len(filteredArgs) + 1] = group
      /\ Len(filteredArgs) \in Nat
  BY <1>0, OneMore
<1>5. BlockInv'
  <2>1. \A k \in DOMAIN filteredArgs' : (Block(filteredArgs'[k]))
    BY <1>0, <1>4 DEF BlockInv
  <2>2. Block(group') /\ Block(opener') /\ \A k \in DOMAIN functions : Block(functions[k])
    BY <1>0 DEF BlockInv, Block
  <2>3. \A k \in DOMAIN functions : functions[k][1].prog \notin Hidden
    BY <1>0 DEF BlockInv
  <2> QED
    BY <1>0, <1>3, <2>1, <2>2, <2>3 DEF BlockInv
<1>6. OrderInv'
  <2>1. \A k, m \in DOMAIN filteredArgs' : k < m => Before(filteredArgs'[k], filteredArgs'[m])
    BY <1>0, <1>4 DEF OrderInv
  <2>2. \A s : Before(s, opener')
    BY <1>0 DEF Before
  <2>3. \A k \in DOMAIN functions, m \in DOMAIN filteredArgs' : Before(functions[k], filteredArgs'[m])
    BY <1>0, <1>4 DEF OrderInv
  <2>4. \A k \in DOMAIN filteredArgs' : Before(filteredArgs'[k], group')
    BY <1>0, <1>4 DEF OrderInv
  <2> QED
    BY <1>0, <2>1, <2>2, <2>3, <2>4 DEF OrderInv
<1>7. WholeInv'
  <2>1. HasAll(group)
    BY <1>0, GroupWhole
  <2>2. \A k \in DOMAIN filteredArgs' : HasAll(filteredArgs'[k])
    BY <1>0, <1>4, <2>1 DEF WholeInv
  <2>3. \A k \in DOMAIN functions : HasAll(functions[k])
    BY <1>0 DEF WholeInv
  <2> QED
    BY <1>0, <1>3, <2>2, <2>3 DEF WholeInv
<1>8. GroupInv'
  BY <1>0 DEF GroupInv
<1>9. CollectInv'
  BY <1>0, <1>1, OpenerNew DEF CollectInv
<1>10. FoundInv'
  <2> SUFFICES ASSUME NEW r \in Consumed, FoundIn(r) PROVE (FoundIn(r))'
    BY <1>0, <1>1 DEF FoundInv
  <2>1. r \in RowsOf(group) => r \in RowsOf(filteredArgs'[Len(filteredArgs) + 1])
    BY <1>4
  <2> QED
    BY <1>0, <1>4, <2>1 DEF FoundIn
<1> QED
  BY <1>1, <1>5, <1>6, <1>7, <1>8, <1>9, <1>10 DEF DownInv

(* The end of userArgs changes nothing but the grouper's place.             *)
LEMMA EndDown ==
  ASSUME IInv, [Next]_vars, Grouper, GroupEnd(UAClosed)
  PROVE  DownInv'
<1>0. /\ TypeOK /\ QueueInv /\ BlockInv /\ OrderInv /\ WholeInv /\ GroupInv /\ CollectInv
      /\ FoundInv
      /\ grouper = "receive" /\ userArgs = <<>> /\ UAClosed
      /\ grouper' = AfterLastRow
      /\ UNCHANGED <<functions, filteredArgs, userArgs, cached, group, opener, converter>>
  BY DEF IInv, DownInv, GroupEnd, Grouper, converterVars
<1>1. Consumed' = Consumed /\ QueueInv'
  BY <1>0 DEF Consumed, QueueInv, Taken
<1>2. Streamed' = Streamed
  BY StreamSame DEF Grouper, Prepare, producerVars
<1>3. \A s : (Block(s) => (Block(s))') /\ (HasAll(s) <=> (HasAll(s))')
  BY <1>1, <1>2, BlocksStay
<1>4. BlockInv'
  BY <1>0, <1>3 DEF BlockInv
<1>5. OrderInv'
  BY <1>0 DEF OrderInv
<1>6. WholeInv'
  BY <1>0, <1>3 DEF WholeInv
<1>7. GroupInv'
  BY <1>0 DEF GroupInv, AfterLastRow, UAClosed
<1>8. CollectInv'
  BY <1>0, <1>1 DEF CollectInv
<1>9. FoundInv'
  BY <1>0, <1>1 DEF FoundInv, FoundIn
<1> QED
  BY <1>1, <1>4, <1>5, <1>6, <1>7, <1>8, <1>9 DEF DownInv

(* The last group may lack rows; nothing follows it.                        *)
LEMMA FlushDown ==
  ASSUME IInv, [Next]_vars, Grouper, GroupFlush
  PROVE  DownInv'
<1>0. /\ TypeOK /\ QueueInv /\ BlockInv /\ OrderInv /\ WholeInv /\ GroupInv /\ FoundInv
      /\ group \in Seq(Row) /\ filteredArgs \in Seq(Seq(Row)) /\ grouper = "flush" /\ opener = <<>>
      /\ UNCHANGED <<functions, userArgs, cached, opener, converter>>
      /\ filteredArgs' = Append(filteredArgs, group)
      /\ group' = <<>> /\ grouper' = "closed"
  BY DEF IInv, DownInv, TypeOK, GroupTypeOK, GroupFlush, Grouper, GroupInv, converterVars
<1>1. Consumed' = Consumed /\ QueueInv'
  BY <1>0 DEF Consumed, QueueInv, Taken
<1>2. Streamed' = Streamed
  BY StreamSame DEF Grouper, Prepare, producerVars
<1>3. \A s : (Block(s) => (Block(s))') /\ (HasAll(s) <=> (HasAll(s))')
  BY <1>1, <1>2, BlocksStay
<1>4. /\ DOMAIN filteredArgs' = (DOMAIN filteredArgs) \cup {Len(filteredArgs) + 1}
      /\ \A k \in DOMAIN filteredArgs :
           filteredArgs'[k] = filteredArgs[k] /\ k < Len(filteredArgs) + 1 /\ k \in Nat
      /\ filteredArgs'[Len(filteredArgs) + 1] = group
      /\ Len(filteredArgs) \in Nat /\ Len(filteredArgs') = Len(filteredArgs) + 1
  BY <1>0, OneMore
<1>5. BlockInv'
  <2>1. \A k \in DOMAIN filteredArgs' : (Block(filteredArgs'[k]))
    BY <1>0, <1>4 DEF BlockInv
  <2>2. Block(group') /\ Block(opener') /\ \A k \in DOMAIN functions : Block(functions[k])
    BY <1>0 DEF BlockInv, Block
  <2>3. \A k \in DOMAIN functions : functions[k][1].prog \notin Hidden
    BY <1>0 DEF BlockInv
  <2> QED
    BY <1>0, <1>3, <2>1, <2>2, <2>3 DEF BlockInv
<1>6. OrderInv'
  <2>1. \A k, m \in DOMAIN filteredArgs' : k < m => Before(filteredArgs'[k], filteredArgs'[m])
    BY <1>0, <1>4 DEF OrderInv
  <2>2. \A s : Before(s, opener') /\ Before(s, group')
    BY <1>0 DEF Before
  <2>3. \A k \in DOMAIN functions, m \in DOMAIN filteredArgs' : Before(functions[k], filteredArgs'[m])
    BY <1>0, <1>4 DEF OrderInv
  <2> QED
    BY <1>0, <2>1, <2>2, <2>3 DEF OrderInv
<1>7. WholeInv'
  <2>1. \A k \in DOMAIN filteredArgs : HasAll(filteredArgs[k])
    BY <1>0 DEF WholeInv
  <2>2. \A k \in DOMAIN functions : HasAll(functions[k])
    BY <1>0 DEF WholeInv
  <2>3. \A k \in DOMAIN filteredArgs' : HasAll(filteredArgs'[k]) \/ k = Len(filteredArgs')
    BY <1>4, <2>1
  <2> QED
    BY <1>0, <1>3, <2>2, <2>3 DEF WholeInv
<1>8. GroupInv' /\ CollectInv'
  BY <1>0 DEF GroupInv, CollectInv, UAClosed
<1>9. FoundInv'
  <2> SUFFICES ASSUME NEW r \in Consumed, FoundIn(r) PROVE (FoundIn(r))'
    BY <1>0, <1>1 DEF FoundInv
  <2>1. r \in RowsOf(group) => r \in RowsOf(filteredArgs'[Len(filteredArgs) + 1])
    BY <1>4
  <2> QED
    BY <1>0, <1>4, <2>1 DEF FoundIn
<1> QED
  BY <1>1, <1>5, <1>6, <1>7, <1>8, <1>9 DEF DownInv

(* A group taken: the others move up.                                       *)
Behind(fs, gs) ==
  /\ fs[1] = Head(fs) /\ 1 \in DOMAIN fs
  /\ Len(fs) \in Nat \ {0} /\ Len(gs) = Len(fs) - 1
  /\ \A k \in DOMAIN gs :
       /\ k + 1 \in DOMAIN fs /\ gs[k] = fs[k+1]
       /\ k \in Nat \ {0} /\ 1 < k + 1
       /\ k + 1 = Len(fs) => k = Len(gs)
  /\ \A k \in DOMAIN fs : k = 1 \/ (k - 1 \in DOMAIN gs /\ gs[k-1] = fs[k])
  /\ Len(fs) = 1 => gs = <<>>

LEMMA OneLess ==
  ASSUME NEW fs \in Seq(Seq(Row)), fs # <<>>, NEW gs, gs = Tail(fs)
  PROVE  Behind(fs, gs)
<1>1. /\ Len(fs) \in Nat \ {0} /\ DOMAIN fs = 1..Len(fs) /\ fs[1] = Head(fs)
      /\ Len(gs) = Len(fs) - 1 /\ DOMAIN gs = 1..Len(gs) /\ gs \in Seq(Seq(Row))
      /\ \A k \in DOMAIN gs : gs[k] = fs[k+1]
  OBVIOUS
<1>2. \A k \in DOMAIN gs : k + 1 \in DOMAIN fs /\ k \in Nat \ {0} /\ 1 < k + 1
                            /\ (k + 1 = Len(fs) => k = Len(gs))
  BY <1>1
<1>3. ASSUME NEW k \in DOMAIN fs, k # 1
      PROVE  k - 1 \in DOMAIN gs /\ gs[k-1] = fs[k]
  <2>1. k - 1 \in DOMAIN gs /\ (k - 1) + 1 = k
    BY <1>1, <1>3
  <2>2. gs[k-1] = fs[(k-1)+1]
    BY <1>1, <2>1
  <2> QED
    BY <2>1, <2>2
<1>4. Len(fs) = 1 => gs = <<>>
  <2> SUFFICES ASSUME Len(fs) = 1 PROVE gs = <<>>
    OBVIOUS
  <2>1. Len(gs) = 0
    BY <1>1
  <2> QED
    BY <1>1, <2>1, EmptySeq
<1>5. 1 \in DOMAIN fs
  BY <1>1
<1> QED
  BY <1>1, <1>2, <1>3, <1>4, <1>5 DEF Behind

(* Parsing a group moves it to the Functions, or drops a hidden one.        *)
LEMMA ParseDown ==
  ASSUME IInv, [Next]_vars, Parse
  PROVE  DownInv'
<1>0. /\ TypeOK /\ QueueInv /\ BlockInv /\ OrderInv /\ WholeInv /\ GroupInv /\ CollectInv
      /\ FoundInv
      /\ filteredArgs \in Seq(Seq(Row)) /\ functions \in Seq(Seq(Row)) /\ filteredArgs # <<>>
      /\ UNCHANGED <<userArgs, cached, group, opener, grouper, converter>>
      /\ filteredArgs' = Tail(filteredArgs)
  BY SMTT(20) DEF IInv, DownInv, TypeOK, GroupTypeOK, Parse, ParseGroup, converterVars
<1>1. Consumed' = Consumed /\ QueueInv'
  BY <1>0 DEF Consumed, QueueInv, Taken
<1>2. Streamed' = Streamed
  BY StreamSame DEF Parse, Prepare, producerVars
<1>3. \A s : (Block(s) => (Block(s))') /\ (HasAll(s) <=> (HasAll(s))')
  BY <1>1, <1>2, BlocksStay
<1>4. PICK h \in Seq(Row) : h = Head(filteredArgs)
  BY <1>0
<1>5. /\ filteredArgs[1] = h /\ 1 \in DOMAIN filteredArgs
      /\ Len(filteredArgs) \in Nat \ {0} /\ Len(filteredArgs') = Len(filteredArgs) - 1
      /\ \A k \in DOMAIN filteredArgs' :
           /\ k + 1 \in DOMAIN filteredArgs /\ filteredArgs'[k] = filteredArgs[k+1]
           /\ k \in Nat \ {0} /\ 1 < k + 1
           /\ k + 1 = Len(filteredArgs) => k = Len(filteredArgs')
      /\ \A k \in DOMAIN filteredArgs : k = 1 \/ (k - 1 \in DOMAIN filteredArgs'
                                                  /\ filteredArgs'[k-1] = filteredArgs[k])
      /\ Len(filteredArgs) = 1 => filteredArgs' = <<>>
  <2>1. Behind(filteredArgs, filteredArgs')
    BY <1>0, OneLess
  <2> QED
    BY <1>4, <2>1 DEF Behind
<1>6. \/ functions' = functions /\ h[1].prog \in Hidden
      \/ functions' = Append(functions, h) /\ h[1].prog \notin Hidden
  BY <1>4 DEF Parse, ParseGroup
<1>7. /\ \A k \in DOMAIN functions : k \in DOMAIN functions' /\ functions'[k] = functions[k]
      /\ \A k \in DOMAIN functions' :
           \/ k \in DOMAIN functions
           \/ k = Len(functions) + 1 /\ k = Len(functions') /\ functions'[k] = h /\ h[1].prog \notin Hidden
      /\ h[1].prog \notin Hidden => /\ Len(functions) + 1 \in DOMAIN functions'
                                    /\ functions'[Len(functions) + 1] = h
      /\ \A k, m \in DOMAIN functions' : k < m => k \in DOMAIN functions
  <2>1. CASE functions' = functions /\ h[1].prog \in Hidden
    BY <2>1
  <2>2. CASE functions' = Append(functions, h) /\ h[1].prog \notin Hidden
    BY <1>0, <2>2, OneMore
  <2> QED
    BY <1>6, <2>1, <2>2
<1>8. BlockInv'
  <2>1. \A k \in DOMAIN functions' : Block(functions'[k]) /\ functions'[k][1].prog \notin Hidden
    BY <1>0, <1>5, <1>7 DEF BlockInv
  <2>2. \A k \in DOMAIN filteredArgs' : Block(filteredArgs'[k])
    BY <1>0, <1>5 DEF BlockInv
  <2>3. Block(group') /\ Block(opener')
    BY <1>0 DEF BlockInv
  <2> QED
    BY <1>3, <2>1, <2>2, <2>3 DEF BlockInv
<1>9. OrderInv'
  <2>1. \A k, m \in DOMAIN functions' : k < m => Before(functions'[k], functions'[m])
    BY SMTT(20), <1>0, <1>5, <1>7 DEF OrderInv
  <2>2. \A k, m \in DOMAIN filteredArgs' : k < m => Before(filteredArgs'[k], filteredArgs'[m])
    <3> SUFFICES ASSUME NEW k \in DOMAIN filteredArgs', NEW m \in DOMAIN filteredArgs', k < m
                 PROVE  Before(filteredArgs'[k], filteredArgs'[m])
      OBVIOUS
    <3>1. k + 1 < m + 1
      BY <1>5
    <3> QED
      BY <1>0, <1>5, <3>1 DEF OrderInv
  <2>3. \A k \in DOMAIN functions', m \in DOMAIN filteredArgs' : Before(functions'[k], filteredArgs'[m])
    <3> SUFFICES ASSUME NEW k \in DOMAIN functions', NEW m \in DOMAIN filteredArgs'
                 PROVE  Before(functions'[k], filteredArgs'[m])
      OBVIOUS
    <3>1. m + 1 \in DOMAIN filteredArgs /\ filteredArgs'[m] = filteredArgs[m+1] /\ 1 < m + 1
      BY <1>5
    <3>2. CASE k \in DOMAIN functions
      <4>1. Before(functions[k], filteredArgs[m+1])
        BY <1>0, <3>1, <3>2 DEF OrderInv
      <4> QED
        BY <1>7, <3>1, <3>2, <4>1
    <3>3. CASE functions'[k] = h
      <4>1. Before(filteredArgs[1], filteredArgs[m+1])
        BY <1>0, <1>5, <3>1 DEF OrderInv
      <4> QED
        BY <1>5, <3>1, <3>3, <4>1
    <3> QED
      BY <1>7, <3>2, <3>3
  <2>4. \A k \in DOMAIN functions' : Before(functions'[k], group') /\ Before(functions'[k], opener')
    BY <1>0, <1>5, <1>7 DEF OrderInv
  <2>5. \A k \in DOMAIN filteredArgs' : Before(filteredArgs'[k], group')
                                        /\ Before(filteredArgs'[k], opener')
    BY <1>0, <1>5 DEF OrderInv
  <2> QED
    BY <1>0, <2>1, <2>2, <2>3, <2>4, <2>5 DEF OrderInv
<1>10. WholeInv'
  <2>1. \A k \in DOMAIN functions : HasAll(functions[k])
    BY <1>0 DEF WholeInv
  <2>2. HasAll(h) \/ (filteredArgs' = <<>> /\ grouper \in {"closed", "dead"})
    BY <1>0, <1>5 DEF WholeInv
  <2>3. \A k \in DOMAIN functions' :
          \/ HasAll(functions'[k])
          \/ k = Len(functions') /\ filteredArgs' = <<>> /\ grouper' \in {"closed", "dead"}
    BY <1>0, <1>7, <2>1, <2>2
  <2>4. \A k \in DOMAIN filteredArgs' :
          HasAll(filteredArgs'[k]) \/ (k = Len(filteredArgs') /\ grouper' \in {"closed", "dead"})
    BY <1>0, <1>5 DEF WholeInv
  <2> QED
    BY <1>3, <2>3, <2>4 DEF WholeInv
<1>11. GroupInv'
  BY <1>0 DEF GroupInv, UAClosed
<1>12. CollectInv'
  BY <1>0, <1>1 DEF CollectInv
<1>13. FoundInv'
  <2> SUFFICES ASSUME NEW r \in Consumed, r.prog \in Wanted, FoundIn(r) PROVE (FoundIn(r))'
    BY <1>0, <1>1 DEF FoundInv
  <2>1. CASE r \in RowsOf(group) \cup RowsOf(opener)
    BY <1>0, <2>1 DEF FoundIn
  <2>2. CASE \E k \in DOMAIN functions : r \in RowsOf(functions[k])
    BY <1>7, <2>2 DEF FoundIn
  <2>3. CASE r \in RowsOf(h)
    <3>1. h[1].prog = r.prog
      <4>1. Block(h)
        BY <1>0, <1>5 DEF BlockInv
      <4> QED
        BY <2>3, <4>1 DEF Block, RowsOf
    <3>2. h[1].prog \notin Hidden
      BY <3>1 DEF Wanted
    <3> QED
      BY <1>7, <2>3, <3>2 DEF FoundIn
  <2>4. CASE \E k \in DOMAIN filteredArgs : k # 1 /\ r \in RowsOf(filteredArgs[k])
    BY <1>5, <2>4 DEF FoundIn
  <2> QED
    BY <1>5, <2>1, <2>2, <2>3, <2>4 DEF FoundIn
<1> QED
  BY <1>1, <1>8, <1>9, <1>10, <1>11, <1>12, <1>13 DEF DownInv

(* Every step keeps the invariant.                                          *)
LEMMA StepIInv == IInv /\ [Next]_vars => IInv'
<1> SUFFICES ASSUME IInv, [Next]_vars PROVE IInv'
  OBVIOUS
<1>1. DownInv'
  BY Steps, BesideDown, PanicDown, SendDown, StartDown, ParseDown, ReceiveDown, YieldDown, EndDown,
     FlushDown
<1> QED
  BY <1>1, StepType, StepUp DEF IInv

-----------------------------------------------------------------------------
(* The theorems.                                                            *)

(* A group that has all of its program holds exactly its positions.         *)
LEMMA AllIsWhole ==
  ASSUME IInv, NEW k \in DOMAIN functions, HasAll(functions[k])
  PROVE  Whole(functions, k, Streamed)
<1>1. Block(functions[k]) /\ Consumed \subseteq Streamed
  BY ConsumedRows DEF IInv, UpInv, DownInv, BlockInv
<1>2. \A i \in DOMAIN functions[k] :
        functions[k][i] \in Streamed /\ functions[k][i].prog = functions[k][1].prog
  BY <1>1 DEF Block
<1> QED
  BY <1>2 DEF Whole, Positions, HasAll, RowsOf

(* The invariant says that Functions come in order, whole but for the last. *)
LEMMA IInvInOrder == IInv => FunctionsInOrder
<1> SUFFICES ASSUME IInv PROVE FunctionsInOrder
  OBVIOUS
<1>0. /\ functions \in Seq(Seq(Row) \ {<<>>}) /\ BlockInv /\ OrderInv /\ WholeInv /\ CacheInv
  BY DEF IInv, UpInv, DownInv, TypeOK, GroupTypeOK
<1>1. \A k \in DOMAIN functions : functions[k] # <<>> /\ Block(functions[k])
  BY <1>0 DEF BlockInv
<1>2. \A k, m \in DOMAIN functions : k < m =>
        \A p \in Positions(functions[k]), q \in Positions(functions[m]) : p < q
  BY <1>0 DEF OrderInv, Before, Positions
<1>3. InOrder(functions)
  BY <1>1, <1>2 DEF InOrder, Block
<1>4. \A k \in DOMAIN functions : k < Len(functions) => Whole(functions, k, Streamed)
  <2> SUFFICES ASSUME NEW k \in DOMAIN functions, k < Len(functions)
               PROVE  Whole(functions, k, Streamed)
    OBVIOUS
  <2>1. k # Len(functions)
    BY <1>0
  <2> QED
    BY <1>0, <2>1, AllIsWhole DEF WholeInv
<1> QED
  BY <1>0, <1>3, <1>4 DEF FunctionsInOrder, CacheInv

(* When parseDB succeeds and no iteration error was swallowed, all of the   *)
(* stream was kept for the cache, and consumed by the grouper.              *)
LEMMA AllConsumed ==
  ASSUME IInv, outcome = "ok", ~cut
  PROVE  RowsOf(cached) = Streamed /\ Consumed = Streamed
<1>0. /\ TypeOK /\ ProducerInv /\ ConverterInv /\ CallerInv /\ CacheInv /\ QueueInv /\ GroupInv
      /\ cached \in Seq(Row) /\ next \in Nat
      /\ retErr \in [Goroutines -> {"none", "nil", "error"}]
  BY TablesAssumption DEF IInv, UpInv, DownInv, TypeOK
<1>1. producer = "done" /\ converter = "done" /\ grouper = "closed" /\ ~groupErr
  BY <1>0 DEF CallerInv, AllDone
<1>2. retErr["producer"] = "nil" /\ retErr["converter"] = "nil"
  BY <1>0, <1>1 DEF CallerInv, ProducerInv, ConverterInv, Goroutines
<1>3. \A r \in Streamed : r.pos <= next /\ r.pos \in Nat
  BY <1>0, <1>2, StreamedRows DEF ProducerInv
<1>4. \A r \in Streamed : MustHave(r.pos)
  BY <1>0, <1>2, <1>3 DEF MustHave
<1>5. RowsOf(held) = {}
  BY <1>0, <1>1 DEF ConverterInv, RowsOf
<1>6. RowsOf(cached) = Streamed
  BY <1>0, <1>1, <1>2, <1>4, <1>5 DEF CacheInv
<1>7. Taken = Len(cached)
  BY <1>0, <1>1 DEF GroupInv, Taken
<1>8. Consumed = RowsOf(cached)
  BY <1>0, <1>7 DEF Consumed, RowsOf
<1> QED
  BY <1>6, <1>8

(* The invariant says that a success is complete.                           *)
LEMMA IInvSuccess == IInv => SuccessComplete
<1> SUFFICES ASSUME IInv, outcome = "ok", ~cut
             PROVE  Complete(functions, Streamed) /\ {cached[i] : i \in DOMAIN cached} = Streamed
  BY DEF SuccessComplete
<1>0. /\ functions \in Seq(Seq(Row) \ {<<>>}) /\ BlockInv /\ OrderInv /\ WholeInv /\ GroupInv
      /\ FoundInv /\ CallerInv /\ TypeOK
  BY DEF IInv, UpInv, DownInv, TypeOK, GroupTypeOK
<1>1. RowsOf(cached) = Streamed /\ Consumed = Streamed
  BY AllConsumed
<1>2. group = <<>> /\ opener = <<>> /\ filteredArgs = <<>>
  BY <1>0 DEF CallerInv, AllDone, GroupInv
<1>3. \A k \in DOMAIN functions : Block(functions[k]) /\ 1 \in DOMAIN functions[k]
  <2>1. \A s \in Seq(Row) \ {<<>>} : 1 \in DOMAIN s
    OBVIOUS
  <2> QED
    BY <1>0, <2>1 DEF BlockInv
<1>4. \A k \in DOMAIN functions :
        functions[k][1] \in Streamed /\ functions[k][1].prog \in Wanted
  BY <1>0, <1>1, <1>3 DEF BlockInv, Block, Wanted
<1>5. \A r \in Streamed : r.prog \in Wanted => \E k \in DOMAIN functions : r \in RowsOf(functions[k])
  BY <1>0, <1>1, <1>2 DEF FoundInv, FoundIn, RowsOf
<1>6. \A k \in DOMAIN functions : \A r \in RowsOf(functions[k]) : r.prog = functions[k][1].prog
  BY <1>3 DEF Block, RowsOf
<1>7. {functions[k][1].prog : k \in DOMAIN functions} = {r.prog : r \in Streamed} \cap Wanted
  <2>1. ASSUME NEW r \in Streamed, r.prog \in Wanted
        PROVE  \E k \in DOMAIN functions : functions[k][1].prog = r.prog
    BY <1>5, <1>6, <2>1
  <2> QED
    BY <1>4, <2>1
<1>8. ASSUME NEW k \in DOMAIN functions PROVE HasAll(functions[k])
  <2> SUFFICES ASSUME NEW r \in Streamed, r.prog = functions[k][1].prog
               PROVE  r \in RowsOf(functions[k])
    BY DEF HasAll
  <2>1. PICK m \in DOMAIN functions : r \in RowsOf(functions[m])
    BY <1>4, <1>5
  <2>2. functions[m][1].prog = functions[k][1].prog
    BY <1>6, <2>1
  <2>3. CASE k < m
    <3>1. k # Len(functions)
      BY <1>0, <2>3
    <3> QED
      BY <1>0, <3>1 DEF WholeInv, HasAll
  <2>4. CASE m < k
    <3>1. m # Len(functions)
      BY <1>0, <2>4
    <3>2. functions[k][1] \in RowsOf(functions[m])
      BY <1>0, <1>4, <2>2, <3>1 DEF WholeInv, HasAll
    <3>3. functions[k][1].pos < functions[k][1].pos
      BY <1>0, <1>3, <2>4, <3>2 DEF OrderInv, Before, RowsOf
    <3>4. functions[k][1].pos \in Nat
      BY <1>0, <1>4, StreamedRows
    <3> QED
      BY <3>3, <3>4
  <2>5. CASE k = m
    BY <2>1, <2>5
  <2>6. k \in Nat /\ m \in Nat
    BY <1>0
  <2> QED
    BY <2>3, <2>4, <2>5, <2>6
<1> QED
  BY <1>1, <1>7, <1>8, AllIsWhole DEF Complete, RowsOf

(* The invariant holds of every behaviour.                                  *)
LEMMA Invariant == Spec => []IInv
BY InitIInv, StepIInv, PTL DEF Spec

(* Everything keeps its type, and the channels their capacities.            *)
THEOREM TypeCorrect == Spec => []TypeOK
<1>1. IInv => TypeOK
  BY DEF IInv
<1> QED
  BY <1>1, Invariant, PTL

(* However the goroutines interleave, fail or are cancelled, for any result *)
(* of the query, any filters and any capacities: the Functions parseDB has *)
(* handed out so far are in order, share no row, and all but the last have *)
(* all their arguments.                                                    *)
THEOREM FunctionsInOrderHolds == Spec => []FunctionsInOrder
BY Invariant, IInvInOrder, PTL

(* A parseDB that returns without an error, and whose query was not cut,    *)
(* returned exactly the wanted Functions with all their arguments, and kept *)
(* exactly the stream for the cache.                                       *)
THEOREM SuccessCompleteHolds == Spec => []SuccessComplete
BY Invariant, IInvSuccess, PTL
=============================================================================
