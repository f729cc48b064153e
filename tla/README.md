# A verification development of oracall

oracall reads the definitions of Oracle stored procedures from the data
dictionary and generates from them a `.proto` file and a Go gRPC server that
calls them. This directory holds TLA+ modules that model its parts, TLC
configurations that check them, and theorems about them checked by TLAPS.

`tlc -config X.cfg M` runs a configuration, `tlapm M.tla` checks the proofs.
`PROJECT.json` maps every definition to the lines it models, names for every
property a fault of the code that breaks it, and lists the hazards and findings.

## 1. The system's parts

    database ──parseDB──> Functions ──ApplyAnnotations──> oracall call ──> files
       │  ▲                  ▲                              │ SaveFunctions
       │  └─getSource,lexer  │                              │ SaveFunctionTests
       └──────> package cache┘                              │ SaveProtobuf, protoc, sed
                                                            ▼
    client <──gRPC──> interceptors (orasrv) ──> generated handler ──> database

| Part | State | Operations | What is hard |
|---|---|---|---|
| `parseDB` (main.go) | three channels, one errgroup, maps of packages, docs and cache entries | producer, converter, grouper, the parsing caller | early returns, cancellation in the middle, full channels, who tells of an error, order |
| grouping (lib/readcsv.go) | the open group | filter, group, send | the first row of the next group, the last group |
| generated handler (text in lib/plsql.go) | transaction, iterators, one output message | begin, prepare, log, execute (twice), convert, stream, commit | retries, lost answers, cancellation, partial batches |
| gRPC server (orasrv) | `erroredMethods` under a RWMutex | interceptors, `StatusError` | read at the begin, written at the end, calls overlap |
| lexer (source/lex.go) | position, start, channel of items | state functions, `Iter` | arithmetic of positions, a channel with one goroutine at both ends |
| docs and annotations (source/parse.go) | current comment | `Parse` over the lexer's items | which comment belongs to which declaration |
| object types (lib/objects) | the map, its lock, a shared `err` | `Names`, `Get`, recursive `get` | unlocked reads, races on `err`, recursion, a partial map taken for a whole one |
| package cache (lib/pkgcache.go, main.go) | one file per package | write, list, read | crashes, overlapping runs, a database that changes, narrow patterns |
| `.proto` generation (lib/proto.go) | `seen`, the function's text, the file's text | recursion over records, skipping | a skip in the middle |
| `oracall call` (main.go), Go generation (lib/writestructs.go) | pending files, errgroup limited to two | three tasks, protoc, sed, replace | error variables shared by everything, replacement on failure |
| type resolver (main.go) | `plus`, a list that grows while it is walked | `resolveType`, `expandArgs` | flattening nested types into rows with levels |
| argument tree (lib/readcsv.go) | the last composite argument of each level | `ParseArgumentsIter` | the tree is built back from levels only; what a level held before |
| `ApplyAnnotations` (lib/readcsv.go) | map from names to functions | private, rename, replace, handle, max-table-size, tag | order of the annotations, functions under two names |
| anonymous block (lib/plsql.go, struct.go, types.go) | the parts of the block, placeholders and their parameters | `prepareCall`, `demap`, conversions in and out | declarations, placeholders and binds that must agree although they are made apart |
| conversions, formatting (the rest) | none | | |

What makes each part correct is what its properties say; sections 3 and 4.

## 2. Modules

| Module | Models | How state and actions correspond |
|---|---|---|
| `ArgGroups` | filter, grouping and receiving | `userArgs`, `filteredArgs` are the channels, `group` is `args`, `opener` the row in hand while `yield` blocks in a send |
| `ParseDB` (extends `ArgGroups`) | `parseDB` | one program counter per goroutine; the unbuffered `dbCh` makes send and receive one action, `Handover`; `cancelled` is the group's context, `groupErr` its first error; `cut` is a history variable for an error of the rows that nobody asks for |
| `CallHandler` | the handler `PlsqlBlock` generates | one action per call that can fail: `Begin`, `Prepare`, `Log`, `Exec`, `Retry`, ...; `Fetch`/`SendBatch`/`EndRound` are the loop over the cursors; `Cancel` and `AwaitDone` are the client and database/sql's goroutine |
| `CallPromise` | what the client of a method may rely on | abstract: transaction, rows delivered, reply |
| `OraServer` | the interceptors | one action per access of `erroredMethods`; `history` orders begins and ends |
| `Lexer` | source/lex.go | the state functions are functions of the lexer's record; an item is a pair of positions; `fate` is a panic or a send nobody receives |
| `SourceDocs` (extends `Lexer`) | the parser behind the lexer | one action per item it receives; `buf` is its buffer, `docs` and `annotations` what it returns; a documentation is the positions of its characters |
| `ArgTree` | producer's rows, `expandArgs`, `ParseArgumentsIter` | `plus`, `at`, `lastArgs` are the code's; `nodes` are the Arguments in the order they are made, each with its place in the tree |
| `Annotations` (extends `ArgTree`) | `ApplyAnnotations` and `-replace` | one action per kind of annotation; `funcs` is the map, a function its index, so that one may stand under two names |
| `PlsqlBlock` (extends `Annotations`) | the block of a function, its parameters, and what becomes of the values when it runs | one action per argument of `prepareCall`, then `demap`, the Go code it leaves (`WriteCode`), the input's conversion, one per statement of the block, the conversion back; a value is where it comes from |
| `ObjectTypes` | `Names` and `get` | one worker per goroutine, `mu` the lock, `stack` the recursion, with a `next` of 0 where the basic type info is still to be read; a type in the map is resolved, a placeholder, or `"partial"` if the rows of its attributes broke off (`lost` says which did); `err` per call, shared with its workers as the closure shares it |
| `PackageCache` | cache files, runs, reader, database | a file is who wrote it, its DDL time, the version of its arguments, its subprograms and the one it has a part of; `part` and the history variable `broken` are for the rows that broke off; `temp` are the pending files; a run that ends before it writes forgets what it has read (`Forgets`) |
| `ProtoMessages` | `SaveProtobuf` | `stack` is the recursion of `protoWriteMessageTyp`, `local` the function's buffer, `buf` the file's; a message knows what it was written for, and `NameOf` is the name it is written under |
| `Generate` | the `call` command | one action per write of `SaveFunctions`, per pending file, per program run; `hole` marks a file with a lost write, `Dies` is a kill or a panic at any moment |
| `ParseDB_proofs`, `CallHandler_proofs`, `OraServer_proofs`, `SourceDocs_proofs`, `ObjectTypes_proofs`, `PackageCache_proofs`, `ProtoMessages_proofs`, `Generate_proofs` | theorems about the module of that name | section 4 |

The `MC*` modules give the constants that a configuration cannot express.
How they fit together. `ParseDB` ends where `PackageCache` begins (`Return`,
`AfterParse`). `SourceDocs` is what the converter's `Source` step calls.
`ArgTree` opens the rows that are opaque in `ParseDB`: that the groups arrive
whole and in order (`FunctionsInOrder`) is why it may parse a subprogram's rows
when they are all there. `ArgTree`, `Annotations` and `PlsqlBlock` are one
program in three modules, each adding its variables to the one before, and the
run `functions` goes through all of it. `PlsqlBlock` is in detail the two steps
`Convert` and `Exec` of `CallHandler`, which keeps what may fail around them.
`ProtoMessages` is one step of `Generate` with the outcomes that module finds
(`SaveProtobuf`, `Panics`).

Abstractions. A row is its program and position (in `ArgTree` its level, name
and type), a message its type, a file whole or part. In `PlsqlBlock` PL/SQL,
the procedure and godror are external: the procedure leaves any rows in its
outputs, and statements and `sql.Out` do what they say. Text, logging and formatting are left out. What the database
answers is nondeterministic within what it can answer. `rows.Next` that
ends on an error is an action of its own, which sets `cut` (`ParseDB`,
`ObjectTypes`), `lost` (`ObjectTypes`) or `broken` (`PackageCache`). The operators marked "faulty
variant" are not used by any module: they are the plausible faults of the code
that `PROJECT.json` lists under "mutants", and each breaks the property it is
listed with.

## 3. Runs

| Run | Configuration | Shows | Bounds |
|---|---|---|---|
| `parse` | `MCParseDB` | order, wholeness, the cache, and that everything ends, under every interleaving of the goroutines, failures and cancellation | tables of one and four rows and one of five, over six programs of two packages and none, one filtered out before and one after the grouping; channels of one slot instead of 16, so that each fills. With them every wait, and each pair of neighbouring groups, occurs |
| `call` | `CallHandler` | safety, refinement of `CallPromise`, termination | two cursors, up to three rows, two per message: full, partial and empty last batches, rounds with one and two live cursors |
| `server` | `MCOraServer` | what `erroredMethods` tells | four calls, three of one method: enough for one to begin, and two to end, within another |
| `lexer` | `MCSourceDocs` | no blocking, each character given out once but the ends of line comments and what a comment without an end hides, the comments and strings found, and each declaration given the comments in front of it | every text of up to six characters over the delimiters: six hold an opened and closed block comment with something after it, and two strings. And every sequence of up to four parts out of comments of all kinds, one that is not closed too, annotations, a malformed one, two declarations, strings and blank lines: four hold two declarations with a comment before each |
| `objects` | `MCObjectTypes` | two calls of `Names`: errors told, answers complete, entries left unresolved or cut off only for a reason, everyone through | five types: one made of another and of a collection that is not supported, the other of a JSON type that it calls by another name; limit two instead of four so that it is reached; workers left behind by the first call |
| `cache` | `MCPackageCache` | two runs that overlap, fail, crash and lose rows, and a reader among them | two packages, created, replaced and dropped around the runs, one of them with two subprograms; rows that break off in front of any subprogram or in it; patterns for everything and for one subprogram. The database changes while a run is yet to read: what changed before is in its first state, and what changes later nobody sees |
| `proto` | `MCProtoMessages` | lists of functions over nested and shared records | up to three functions with two names, so that some share one; one record shared, one nested, one unknown, in both directions |
| `functions` | `MCPlsqlBlock` | from the dictionary to the answered call: the tree is the type's, annotations do what they say, values arrive in the procedure and come back | three families. Trees: a result and two arguments of types nested to depth three, with and without the resolver. Annotations: every sequence of up to three out of those of every kind over three functions, of up to two where one is overloaded; three are needed to rename, replace and hide in a row. Blocks: one argument of every kind and direction, with every kind of argument, or none, behind it (a cursor with a record that is input and output behind it too), inputs of no to two rows, outputs of as many: shorter, equal and longer than the input |
| `generate` | `Generate` | the three tasks, protoc and sed, the replacement | two functions of each kind, three tasks under a limit of two; each write, program and pending file may fail |

Deadlock is checked where the system ends in a state of its own (`Terminated`):
for `objects`, `proto`, `lexer`, `functions`, `generate`, whose behaviours cannot go round,
that is also that they come to an end. `MCOraServer`'s calls simply stop, and in
`MCParseDB` being stuck is to be found as a violation of `EverythingEnds`.

Fairness. The goroutines of `ParseDB` and the handler are weakly fair: the Go
scheduler runs whoever can run, and every call of the database returns, if only
because the context has a deadline (main.go:381 and 491, the server's
`Timeout`). No fairness is assumed of cancellations, failures, crashes or the
database's changes.

Three runs are expected to find a violation of what a comment, a flag's
description or the repository's README says:

| Run | Configuration | Statement | What happens |
|---|---|---|---|
| `parse_reads` | `MCParseDBReads` | `ReadsTheDefinitions` | an error while the rows are read ends the run in success, with functions missing (main.go:620) |
| `proto_used` | `MCProtoMessagesUsed` | `EveryMessageDefined` | a record first met in a skipped function is never defined (lib/proto.go:219) |
| `functions_stale` | `MCPlsqlBlockStale` | `NoStaleRows` | the arrays of a table of records are not emptied before the rows are copied back (lib/plsql.go:692, against lib/structs_test.go:151): a table that the procedure shortened comes back with rows of the input |

The models show more of the kind, which the passing properties leave room for.

Reading and generating:

* a package whose time the first query did not find is warned of, and then its
  nil entry is dereferenced (main.go:767): `ParseDB`'s converter ends `"dead"`,
  as do the runs of `PackageCache` (`NilTime`); the first query's loop does not
  ask `rows.Err` either (main.go:441), so that a row it lost is enough;
* the rows that break off (main.go:620, `parse_reads`) are written to the cache as
  if they were all: the last package's file may lack subprograms or hold a part
  of one, those behind it keep an older file or none, and the run ends well. It
  is the exception `broken` of `WholeFiles` and `ReadsLastUpdate`;
* a doubled quote ends a string (source/lex.go:107): the texts `Tractable`
  leaves out;
* a run with a pattern for a part of a package replaces the package's file by
  that part (main.go:897): `WholeFiles` speaks of the pattern of the run;
* a table without its element type panics before it can be skipped
  (lib/proto.go:169): the first half of `StopsForAReason`;
* the failure of a type may be overtaken by `err = rows.Close()`
  (lib/objects/objects.go:309): the exception `raced` of `FailureTold`;
* the attributes of a type end as quietly (lib/objects/objects.go:472): it is
  stored with those that came before the error, no call of `Names` tells, and
  later ones take it for complete (`"partial"`, in `ListsWhatIsAsked`; without
  any attribute `get` fails);
* a type that is found under another name is resolved there, and the entry of the
  first name stays as it was (lib/objects/objects.go:400); a JSON type is
  returned unresolved (lib/objects/objects.go:403). `NeverResolved` has them;
* two functions of one name, overloads or one that is in the list twice, give
  their messages the same names (lib/proto.go:155), which protoc refuses:
  `DefinedOnce` excepts them;
* the error of a function that is skipped stays in `err` and is returned if it
  was the last one (lib/writestructs.go:167): `OkMeansWhole` says nothing of
  runs that fail;
* the source that a `replace_docs` annotation fetches is not what is parsed
  next, but the text of the first package again (main.go:720); docs are kept
  under the names as they are written and then looked up in lower case
  (main.go:751); overloads share one entry of the cached arguments
  (main.go:830).

Comments of the source:

* a text that ends right after a block comment makes the lexer panic, and up to
  two characters after one at the end are never given out (source/lex.go:154):
  the texts `Tractable` leaves out;
* a comment that is not closed ends the text silently: the error item is given
  to nobody;
* blank text between `--` comments empties the buffer, so that of several
  indented lines only the last is documentation (`DocsPrecede` defines what
  precedes a declaration accordingly);
* one malformed annotation makes the parser return no documentation at all.

Annotations and blocks:

* `-replace pkg.f=>pkg.g` leaves the dot before `g` (main.go:208): no function
  has such a name, and the replacement is not found (`Nowhere`);
* a function that is renamed and then replaced is in the map twice, and is
  generated twice: `OnceOrForAReason`;
* a function that is replaced by itself, or two by each other, make `RealName`
  recurse without end (lib/struct.go:90): phase "panic" of the model;
* the second placeholders of an argument are unbound if the last argument is an
  absent record or an empty table (lib/plsql.go:373): `BoundUnlessAbsent`;
* if there is a cursor, they are bound right behind it (lib/plsql.go:373 to 397):
  for a record behind it that is input and output, before its `output.Q = new()`
  (lib/plsql.go:536), so that every call of the handler panics; for a table of
  records, or a Lob in a record, before the variable is declared
  (lib/plsql.go:1081), which does not compile. These are the reasons that
  `BoundUnlessAbsent` allows for the phases "panic" and "uncompilable";
* an input table that is longer than the maximum panics (lib/plsql.go:1077);
* a nested table is extended once for every field of its rows
  (lib/plsql.go:711), and a Lob that is input and output is not sent
  (lib/types.go:152): the exceptions of `CalleeSeesTheInput`;
* a result that is a table or record is overwritten by a variable nothing was
  assigned to, or does not compile (lib/plsql.go:749): the last exception of
  `OutputIsWhatWasLeft`.

Calling:

* a client that hears "ok" may lack the last batch of a cursor
  (lib/plsql.go:255): `LossOnlyInLastBatch` says of what it lacks no more than
  that.

## 4. Proofs

Every safety property that a run checks of `ParseDB`, `CallHandler`,
`OraServer`, `Lexer`, `ObjectTypes`, `PackageCache`, `ProtoMessages` and
`Generate` is also a theorem, for every value of the constants that satisfies the
module's assumption, and so is that `CallHandler` implements `CallPromise`. TLC evaluates
the assumptions in the runs. The theorem about a property `P` is `PHolds ==
Spec => []P`, the one about `TypeOK` is `TypeCorrect`.

None of these properties is inductive as it stands. Each module of proofs states
an invariant `IInv` with named parts, which TLC checked before it was proved,
then `Init => IInv` and `IInv /\ [Next]_vars => IInv'`, with one step per action
and under it one per part.

| Theorems | For any | Beside `TypeOK`, the invariant says |
|---|---|---|
| `ParseDB_proofs`: `FunctionsInOrderHolds`, `SuccessCompleteHolds` | programs and packages, rows that the query's `ORDER BY` allows, filters, channel capacities | of everything before the cache (`UpInv`): what producer and converter hold, that no row the converter was handed is missing from the cache unless it failed, and who has which error; of everything behind it (`DownInv`): `userArgs` is the end of what was kept for the cache, functions, groups in the channel, open group and the row that closed it are blocks of one program each, one before the other (`OrderInv`), all but the last of them whole (`WholeInv`), and no consumed row is lost but by a filter (`FoundInv`) |
| `CallHandler_proofs`: `ExactlyOnceHolds`, `OutcomeToldHolds`, `ReceivedInOrderHolds`, `LostMeansGoneHolds`, `LossOnlyInLastBatchHolds`, `KeepsPromiseHolds` | cursors, batch size, number of rows | `ExecInv`: no effects before `Exec` and exactly one after it; `ReplyInv`: the error in hand fits the transaction at the return; `RowsInv`: what is in the message are the rows right after what the client has, unless the stream is broken; and for the last two theorems `TxInv`, `LeftInv` (no cursor with rows left is forgotten between the rounds) and `BatchInv` (what was sent is whole batches until the last) |
| `OraServer_proofs`: `StaleOnlyByOverlapHolds` | calls and methods | `ReadInv`: what a running call has read of `erroredMethods` is still so, or a call of the method has ended since it began |
| `SourceDocs_proofs`: `NeverBlocksHolds`, `LosslessHolds` | texts of any length that end with a line end (`Lex` adds it), over any characters | `LexerTypeOK`: where each field stands in the text; `ItemsInv`: what was given out and what waits in the channel are in order, not empty, in front of `start`, between them are only line ends that close a line comment, and the lexer returns only at the end of the text or behind the opening of a comment that is never closed; `NeverBlocks`, which says why a send finds room |
| `SourceDocs_proofs`: `TellsTheSyntaxHolds` | the same | `SyntaxInv`: of whatever assigns to each character what the rules of the language make of it from the one before: each item so far holds what it says, and a text and a comment all of a stretch of it; no comment or text before `start` is in none; where a state function begins, the rules are where the state says; and an end that was given out is the last item |
| `SourceDocs_proofs`: `CommentsToldOnceHolds` | the same, any names | `DocsInv`: the buffer and every documentation are ascending positions in comments that were received, no position in two of them, the buffer behind all of the documentation, and none in an annotation |
| `SourceDocs_proofs`: `DocsPrecedeHolds` | the same | both of these, and `WholeInv`, which says in items what the property says in characters: the buffer holds all of the comments behind the last text that was received (`FrontOf`), each name the comments in front of the last text that declares it, the package those in front of all of its headings, and every annotation is there, unless a malformed one has stopped it all |
| `ObjectTypes_proofs`: `FailureToldHolds`, `ListsWhatIsAskedHolds` | finite set of types that need each other in any way, recursive ones too, arguments, limit of workers, number of calls | `LockInv`: who has the lock, and that the recursion is theirs; `ErrInv`: a failure is on its way, with the lock held, or has reached the group, but for calls that raced; `CoverInv`: a row that was passed is in the map or has a worker; `StackInv`: without a failure a placeholder is on the stack, under the name that is looked for or the one it has, or one of `NeverResolved`; `MadeInv`: what a type is made of is in the map when it is resolved, and so far as the recursion has gone through it; and one that is cut off lost rows |
| `PackageCache_proofs`: `WholeFilesHolds`, `StampNotNewerHolds`, `ReadsLastUpdateHolds` | packages, patterns, runs, readers, number of changes | `TimesInv`: of a package the second query saw nothing older than the first; `FileInv`: a file is what a run that came to writing knows of the package, all of it unless its rows broke off; `ProgressInv`: what is not left to be written, or read, is there and newer than everything that was over when the run began |
| `ProtoMessages_proofs`: `DefinedOnceHolds`, `NothingOfTheSkippedHolds`, `StopsForAReasonHolds` | finite set of record types that refer to each other in any way, lists of functions | `OnceInv`: the messages in the file, in the function's text and in every call of the recursion are for different records or functions, which is what their names then depend on; `OwnInv`: and belong to a service or to the function being saved; `RefsInv`: what they refer to is in `seen`; `SeenInv`: and what is in `seen` has its message, or is blamed on a function that was skipped before any service needed it |
| `Generate_proofs`: `OkMeansWholeHolds`, `ErrorReturnedHolds`, `ReplacedOnlyAtTheEndHolds` | number of functions | `TaskInv`: no task asked for is forgotten, and none runs after the group; `ErrInv`: a task's error is in its variable, then in the group, then returned; `SaveInv`, `PendingInv`, `ProtoInv`: how each file becomes whole |

Some of the arguments:

* *The refinement.* `KeepsPromiseHolds` maps every step of the handler to a step
  of `CallPromise` or to a stutter under the mapping of `CallHandler`; that the
  abstract reply is allowed needs `PInv`, since only there is it known that a
  commit comes after the last cursor's end.
* *Depth.* Part of `TypeOK` of `ProtoMessages` is that the recursion over
  records ends: it is never deeper than there are types, and one. By `OnceInv`
  the names on the stack are different, so it follows by the pigeonhole
  principle, for records that contain each other too.
* *Blame.* A function's skip leaves the types it met in `seen` without a
  message. That no service then needs a type that is missing for another reason
  is a statement about closures: the set of the types that are written or blamed
  is closed under the fields of records, hence contains all that a saved
  function needs (`WrittenNeeds`).
* *Closures.* What a type or a function needs is the least set with its types
  that is closed under what they are made of. That something is needed is shown
  for an arbitrary closed set, and that nothing else is by naming a closed set.
* *The lexer and the language.* `Syntax` is a recursive function on the positions
  of a text, and the lexer does not go through it one by one: it searches for the
  next delimiter and jumps. The lemmas behind `TellsTheSyntaxHolds` say of each
  jump (to a string's end, a line's, a block comment's, the next opening) what
  the rules do on the way: they stay as they are, since none of the characters
  that change them is in between. This is an induction over the stretch. The induction
  theorems of the library take an operator as a parameter, which the provers
  cannot instantiate; `SetInduction` takes a set instead, and is proved from the
  well-foundedness of the order on the naturals. `Tractable`, a condition on the
  text, is used where the lexer and the language part: at a doubled quote, at a
  string left open, and at the two characters behind a block comment.
* *Comments told once.* `CommentsToldOnce` is checked by no run, and says of the
  parser what no test asks: no character of a comment is documentation of two
  things, the package's own documentation, which grows, included; none of an
  annotation's is documentation; both keep the order of the source; and, for
  texts the lexer can cope with, all of it is comment under the language's
  rules.

* *The comments in front.* `DocsPrecede` never mentions an item: it cuts the text
  into stretches by the language's rules, and has each declaration take the
  comments between it and the stretch of text before. The proof has three parts.
  `WholeInv` counts in items and needs no rules. `ReadToTheEnd` says that at the
  end of a tractable text the items of comments and texts are exactly those
  stretches (`Stretches`, `FrontIs`), which is where it matters that an item is as
  long as it can be: two items for one stretch would give a declaration half of
  its comments. And since an ascending sequence is determined by its members
  (`AscendingOne`), what was appended piece by piece is what `Sorted` and
  `FlattenSeq` make of the sets (`SortedFacts`, `FlattenAscends`, by induction on
  the recursive functions behind them).

What is assumed of the constants is what the code provides: the names of types
are finitely many and, as `user_types UNION ALL user_plsql_types` gives them,
listed once (`TypesAssumption`); a record's name is none of the model's words
for other fields (`ProtoAssumption`), and its message's name none of a function's
(`NameOf` keeps them apart; the names of functions need not differ); the rows
are in the order of the query (`TablesAssumption`); a batch, a limit and a
capacity are at least one. No set of programs, runs, calls, cursors or packages
is assumed to be finite.

Only model-checked:

* termination and all liveness (`CallEnds`, `EverythingEnds`, and the absence of
  deadlock): fairness and ENABLED are beyond the prover;
* the chain from `ArgTree` to `PlsqlBlock` (`TreeOfTheType`, `OnceOrForAReason`,
  `DoesWhatItSays`, `TypeOK`, `BoundUnlessAbsent`, `CalleeSeesTheInput`,
  `OutputIsWhatWasLeft`): it goes through the trees of types, by operators that
  are recursive over them, which the prover cannot reason about in any module
  that reaches them;
* the statements that a run refutes.

## 5. Not modelled

The text of what is generated (`SaveStruct`, goType, protoType, the plug-in,
model.go, lib/objects/type.go and procedure.go), conversions of single values
(custom), the dictionary queries, TLS and ports. They are functions from values
to text without steps between which something could happen. See `PROJECT.json`,
"components".

Left out of `ArgTree` and `PlsqlBlock`: `getSubtypes`, the lengths of types,
tables inside records (lib/plsql.go:1016), Lobs inside tables, records inside
records, and composite arguments that are hidden by a name ending in `#` (their
names and those of the placeholders disagree, lib/plsql.go:469). What is
generated for the last three cannot be bound or compiled, so that there is no
call to speak of.

## 6. Plan

Done, in order of importance: the reading pipeline and the handler (they decide
what is called and whether it is called once), the server, the lexer, the object
types, the cache, the `.proto` file and the command; then what happens to one
function on its way through them: the documentation, the tree of its arguments,
its annotations, and the block that calls it.

Next, to model:

1. `TempFiles`: `ReadAll` and `Mmap` of custom with the collector's choice (the
   cleanup of custom/mmap_posix.go:39).
2. The cached answer of `goType`, as `ProtoMessages` and `Generate` see it.
3. `replace_docs`, with two packages in `SourceDocs`.
4. Tables in records in `PlsqlBlock`, and records in records, once the code can
   bind them.

Next, to prove: `OnceOrForAReason`, the property of `Annotations` that does not
rest on the trees. For it `Annotations` must not reach the recursive operator of
`ArgTree` any more: what it takes from there, the functions and their names,
would be a module of its own.
