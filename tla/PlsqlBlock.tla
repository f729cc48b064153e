---------------------------- MODULE PlsqlBlock -----------------------------
(***************************************************************************)
(* The anonymous block that prepareCall (lib/plsql.go) generates for one   *)
(* of the functions of module Annotations, the parameters that demap binds *)
(* to its placeholders, and what happens to the values when the generated  *)
(* code runs: input message -> binds -> variables of the block ->          *)
(* procedure -> variables -> binds -> output message.                      *)
(*                                                                         *)
(* A value is symbolic: where it comes from, and its place there. The key  *)
(* of a placeholder is the argument it belongs to and the field, "" for a  *)
(* whole argument; so are the variables of the block, whose names          *)
(* getVarName makes. PL/SQL and godror are external: they do what the      *)
(* statements and sql.Out say.                                             *)
(***************************************************************************)
EXTENDS Annotations

CONSTANTS
  MaxRows,    (* rows of a table in a message, or left by the procedure     *)
  DefaultMax, (* MaxTableSize                                               *)
  Lobs,       (* the simple types that are bound as a Lob                   *)
  Scenarios   (* the subprograms, whether types are resolved, annotations   *)

ASSUME BlockAssumption == MaxRows \in Nat \ {0} /\ DefaultMax \in Nat \ {0}

VARIABLES
  fun,       (* the function that is generated and called, or 0             *)
  prepared,  (* the arguments prepareCall has been through                  *)
  decls, pre, post,   (* the parts of the block                             *)
  conv,      (* convIn's assignments to params                              *)
  block,     (* the statements, in order                                    *)
  params,    (* those assignments with the numbers demap gave them          *)
  sizes,     (* the input: rows of a table, 0 for a record that is absent   *)
  binds,     (* params when the block is executed                           *)
  memory,    (* key -> what its binds' Dest points to                       *)
  locals,    (* argument -> the variable that is passed for it              *)
  arrays,    (* key -> the block's associative array                        *)
  pc,        (* the statements that were executed                           *)
  target,    (* the procedure that was called                               *)
  seen,      (* what it was given                                           *)
  left,      (* what was in its arguments after it                          *)
  output     (* the output message                                          *)

writingVars == <<fun, prepared, decls, pre, post, conv, block, params>>
runningVars == <<sizes, binds, memory, locals, arrays, pc, target, seen, left, output>>
vars == <<treeVars, annotationVars, writingVars, runningVars, phase>>

BlockInit ==
  /\ fun = 0 /\ prepared = 0
  /\ decls = <<>> /\ pre = <<>> /\ post = <<>> /\ conv = <<>>
  /\ block = <<>> /\ params = <<>>
  /\ sizes = <<>> /\ binds = <<>> /\ memory = <<>>
  /\ locals = <<>> /\ arrays = <<>> /\ pc = 0
  /\ target = 0 /\ seen = <<>> /\ left = <<>> /\ output = <<>>

-----------------------------------------------------------------------------
(* The arguments: prepareCall's args, the result last.                      *)

Args == functions[fun].args \o functions[fun].returns
ArgNamed(n) == CHOOSE x \in {Args[i] : i \in DOMAIN Args} : x.name = n
IsInput(x) == x.dir \in {"IN", "IN/OUT"}
IsOutput(x) == x.dir \in {"OUT", "IN/OUT"}
Inputs == {x.name : x \in {y \in {Args[i] : i \in DOMAIN Args} : IsInput(y)}}
Outputs == {x.name : x \in {y \in {Args[i] : i \in DOMAIN Args} : IsOutput(y)}}

IsRecord(x) == Flavor(x.data) = "RECORD"
IsSimple(x) == Flavor(x.data) = "SIMPLE"
IsNestedTable(x) == x.data = "TABLE"
IsLob(x) == x.data \in Lobs
IsArray(x) == x.data \in Arrays
HasSimpleRows(x) == IsArray(x) /\ x.sub # <<>> /\ IsSimple(x.sub[1])
HasRecords(x) == IsArray(x) /\ x.sub # <<>> /\ IsRecord(x.sub[1])

(* The fields that have placeholders of their own.                          *)
FieldsOf(x) == CASE IsRecord(x) -> x.sub
                 [] HasRecords(x) -> x.sub[1].sub
                 [] OTHER -> <<>>

-----------------------------------------------------------------------------
(* Statements: what each does is under "Running".                          *)

Statement(op, x, field) ==
  [op |-> op, arg |-> x.name, field |-> field,
   keys |-> IF op \in {"load", "store"} THEN << <<x.name, field>> >> ELSE <<>>]

Each(op, x) == [i \in DOMAIN FieldsOf(x) |-> Statement(op, x, FieldsOf(x)[i].name)]
If(cond, seq) == IF cond THEN seq ELSE <<>>

DeclaresInOnly(x) ==                                           \* faulty variant
  If(HasSimpleRows(x) /\ x.dir = "IN", <<Statement("load", x, "")>>)
DeclsOf(x) == If(HasSimpleRows(x) /\ IsInput(x), <<Statement("load", x, "")>>)

PreOf(x) ==
  CASE IsRecord(x) -> If(IsInput(x), Each("load", x))
    [] HasSimpleRows(x) ->
         If(IsInput(x), <<Statement("clear variable", x, ""), Statement("copy in", x, "")>>)
    [] HasRecords(x) ->
         IF IsInput(x) THEN Append(Each("load", x), Statement("gather", x, ""))
                       ELSE <<Statement("clear variable", x, "")>> \o Each("clear", x)
    [] OTHER -> <<>>

KeepsTheOld(x) == <<>>                                         \* faulty variant
ClearsTheOld(x) == <<Statement("clear", x, "")>>

PostOf(x) ==
  CASE ~IsOutput(x) -> <<>>
    [] IsRecord(x) -> Each("store", x)
    [] HasSimpleRows(x) ->
         ClearsTheOld(x) \o <<Statement("copy out", x, ""), Statement("store", x, "")>>
    [] HasRecords(x) -> <<Statement("scatter", x, "")>> \o Each("store", x)
    [] OTHER -> <<>>

(* callArgs: records and arrays are passed by a variable of the block, the  *)
(* others by their placeholder, as is every result: :ret := f(a=>v001, b=>:b)*)
ByVariable(x) == IsRecord(x) \/ IsArray(x)

Call ==
  LET direct == SelectSeq(functions[fun].args, LAMBDA x : ~ByVariable(x))
      placed == functions[fun].returns \o direct
  IN [op |-> "call", arg |-> "", field |-> "",
      keys |-> [i \in DOMAIN placed |-> <<placed[i].name, "">>]]

-----------------------------------------------------------------------------
(* Assignments to params: to the placeholder of key, if the input is as     *)
(* when says, in the direction dir.                                        *)

Assign(x, field, when, dir) ==
  [key |-> <<x.name, field>>, when |-> when, arg |-> x.name, dir |-> dir]

(* getConvSimple; a Lob is not filled from the input when it is an output.  *)
ConvSimple(x) ==
  <<Assign(x, "", "always", IF IsLob(x) /\ IsOutput(x) THEN "OUT" ELSE x.dir)>>

(* getConvRec: ToOra's assignment, and one more for a Lob's variable.       *)
ConvRec(x, f) ==
  IF IsOutput(x)
  THEN <<Assign(x, f.name, "always", IF IsLob(f) THEN "OUT" ELSE x.dir)>>
         \o If(IsLob(f), <<Assign(x, f.name, "always", x.dir)>>)
  ELSE <<Assign(x, f.name, "present", "IN")>>

(* getConvSimpleTable: numbers are bound differently if there are none.     *)
ConvSimpleTable(x) ==
  IF ~IsOutput(x) /\ x.sub[1].data = "NUMBER"
  THEN <<Assign(x, "", "empty", "IN"), Assign(x, "", "present", "IN")>>
  ELSE <<Assign(x, "", "always", x.dir)>>

(* getConvTableRec                                                          *)
ConvTableRec(x, f) == <<Assign(x, f.name, "always", x.dir)>>

ConvOf(x) ==
  LET fs == FieldsOf(x) IN
  CASE IsSimple(x) -> ConvSimple(x)
    [] IsRecord(x) -> FlattenSeq([i \in DOMAIN fs |-> ConvRec(x, fs[i])])
    [] x.data = "REF CURSOR" \/ HasSimpleRows(x) -> ConvSimpleTable(x)
    [] OTHER -> FlattenSeq([i \in DOMAIN fs |-> ConvTableRec(x, fs[i])])

(* A cursor that is passed in, a table without its element, a table of      *)
(* tables: prepareCall panics.                                             *)
CannotBe(x) ==
  \/ x.data = "REF CURSOR" /\ IsInput(x)
  \/ IsArray(x) /\ ~HasSimpleRows(x) /\ ~HasRecords(x)

-----------------------------------------------------------------------------
(* Generation.                                                             *)

(* A record or a table in a record, and a Lob in a table, are arguments that*)
(* this model has no statements for: functions that have them are left out.*)
Bindable(i) ==
  \A x \in {functions[i].args[k] : k \in DOMAIN functions[i].args} :
    \A f \in {FieldsOf(x)[k] : k \in DOMAIN FieldsOf(x)} :
      IsSimple(f) /\ (HasRecords(x) => ~IsLob(f))

Choose ==
  /\ phase = "annotated"
  /\ \E i \in Ids :
       /\ Copies(i) > 0
       /\ Bindable(i)
       /\ fun' = i
       /\ phase' = IF replacement[i] = 0 THEN "prepare" ELSE "replace"
  /\ UNCHANGED <<treeVars, annotationVars, prepared, decls, pre, post, conv, block, params,
                 runningVars>>

(* One turn of prepareCall's loop over the arguments.                       *)
PrepareArg ==
  /\ phase = "prepare"
  /\ prepared < Len(Args)
  /\ prepared' = prepared + 1
  /\ LET x == Args[prepared + 1] IN
       IF CannotBe(x)
       THEN /\ phase' = "panic"
            /\ UNCHANGED <<decls, pre, post, conv>>
       ELSE /\ decls' = decls \o DeclsOf(x)
            /\ pre' = pre \o PreOf(x)
            /\ post' = post \o PostOf(x)
            /\ conv' = conv \o ConvOf(x)
            /\ UNCHANGED phase
  /\ UNCHANGED <<treeVars, annotationVars, fun, block, params, runningVars>>

WriteBlock ==
  /\ phase = "prepare"
  /\ prepared = Len(Args)
  /\ block' = decls \o pre \o <<Call>> \o post
  /\ phase' = "demap"
  /\ UNCHANGED <<treeVars, annotationVars, fun, prepared, decls, pre, post, conv, params,
                 runningVars>>

(* The keys of the placeholders, by position.                               *)
Keys == FlattenSeq([i \in DOMAIN block |-> block[i].keys])
Position(i, key) ==
  Len(FlattenSeq([k \in 1..(i-1) |-> block[k].keys]))
    + (CHOOSE j \in DOMAIN block[i].keys : block[i].keys[j] = key)
Positions(key) == SetToSortSeq({p \in DOMAIN Keys : Keys[p] = key}, <)

(* paramsIdx: a key's placeholders are given out in turn, the last one over *)
(* and over.                                                               *)
TakesTheLater(positions) == positions[Len(positions)]          \* faulty variant
Taken(positions) == Head(positions)
StillThere(positions) == IF Len(positions) > 1 THEN Tail(positions) ELSE positions

Numbered(given, a) ==
  [assigned |-> Append(given.assigned,
     [key |-> a.key, when |-> a.when, arg |-> a.arg, dir |-> a.dir,
      pos |-> Taken(given.places[a.key])]),
   places |-> [given.places EXCEPT ![a.key] = StillThere(@)]]

(* The placeholders that no assignment got are bound as another output to   *)
(* what the key's first one is. These lines come after the last assignment  *)
(* to the placeholder that was asked for last (by the reading of the        *)
(* cursors, if there are), under the same condition and whatever is behind. *)
Demap ==
  /\ phase = "demap"
  /\ LET given == FoldLeft(Numbered,
           [assigned |-> <<>>,
            places |-> [k \in {Keys[p] : p \in DOMAIN Keys} |-> Positions(k)]], conv)
         as == given.assigned
         plusIdxs == {<<p, k>> \in (DOMAIN Keys) \X (DOMAIN given.places) :
                        /\ p \in {given.places[k][j] : j \in DOMAIN given.places[k]}
                        /\ p # Positions(k)[1]}
         cursors == SelectSeq(Args, LAMBDA x : x.data = "REF CURSOR")
         lastIdx == IF cursors = <<>> THEN as[Len(as)].pos
                    ELSE Positions(<<cursors[Len(cursors)].name, "">>)[1]
         anchor == SelectLastInSeq(as, LAMBDA a : a.pos = lastIdx)
         plusOf(p, k) == [key |-> k, when |-> as[anchor].when, arg |-> as[anchor].arg,
                          dir |-> "OUT", pos |-> p]
     IN params' = IF as = <<>> THEN <<>>
                  ELSE SubSeq(as, 1, anchor)
                         \o SetToSeq({plusOf(pk[1], pk[2]) : pk \in plusIdxs})
                         \o SubSeq(as, anchor + 1, Len(as))
  /\ phase' = "write"
  /\ UNCHANGED <<treeVars, annotationVars, fun, prepared, decls, pre, post, conv, block,
                 runningVars>>

(* The second placeholders that are bound before anything of the argument   *)
(* is: in front of x__q__a := and var_c :=, which is no Go code, and of the *)
(* output.q = new() of a record.                                           *)
IsLobAt(key) ==
  LET x == ArgNamed(key[1]) IN
  IsLob(x) \/ \E i \in DOMAIN FieldsOf(x) : FieldsOf(x)[i].name = key[2] /\ IsLob(FieldsOf(x)[i])

BoundEarly ==
  {key \in {params[i].key : i \in DOMAIN params} :
     \E i \in DOMAIN params :
       /\ params[i].key = key
       /\ params[i].pos # Positions(key)[1]
       /\ \A j \in 1..(i-1) : params[j].key[1] # key[1]}
Undeclared == {key \in BoundEarly : HasRecords(ArgNamed(key[1])) \/ IsLobAt(key)}
NilOutputs == {key \in BoundEarly : IsRecord(ArgNamed(key[1]))} \ Undeclared

WriteCode ==
  /\ phase = "write"
  /\ phase' = IF Undeclared = {} THEN "convert" ELSE "uncompilable"
  /\ UNCHANGED <<treeVars, annotationVars, writingVars, runningVars>>

(* RealName follows the replacements, for ever if it comes back: 0.         *)
Follow[k \in Nat, i \in Nat] ==
  IF i = 0 \/ replacement[i] = 0 THEN i ELSE IF k = 0 THEN 0 ELSE Follow[k-1, replacement[i]]
Real(i) == Follow[Len(functions), i]

(* prepareCall for a replaced function needs an input and an output of the  *)
(* other one, or an argument of it if it has a result. A replacement with a *)
(* result is called by its own name, but is looked for by the real one.    *)
Unusable(r) ==
  LET as == functions[r].args
      outs == {i \in DOMAIN as : IsOutput(as[i])}
  IN \/ Real(r) = 0
     \/ IF functions[r].returns # <<>> THEN as = <<>> \/ Real(r) # r
                                       ELSE outs = {} \/ outs = DOMAIN as

(* The whole input goes as one CLOB, and so comes the output: nothing of    *)
(* what follows is done to them.                                           *)
WriteReplaced ==
  /\ phase = "replace"
  /\ IF Unusable(replacement[fun])
     THEN phase' = "panic" /\ UNCHANGED target
     ELSE phase' = "replaced" /\ target' = Real(replacement[fun])
  /\ UNCHANGED <<treeVars, annotationVars, writingVars,
                 sizes, binds, memory, locals, arrays, pc, seen, left, output>>

-----------------------------------------------------------------------------
(* Running.                                                                *)

Value(from, n, field, row) == <<from, n, field, row>>
Null == Value("nowhere", "", "", 0)
New(x) == IF IsArray(x) THEN <<>> ELSE Null   (* a new variable, a new Dest *)

FieldNames(x) == {FieldsOf(x)[i].name : i \in DOMAIN FieldsOf(x)}
Filled(x, v(_)) ==   (* x, with v(field) in its fields or as itself          *)
  IF IsRecord(x) THEN [f \in FieldNames(x) |-> v(f)] ELSE v("")

Sized == {n \in Inputs : ~IsSimple(ArgNamed(n))}
Rows(n) == IF IsRecord(ArgNamed(n)) THEN 0..1 ELSE 0..MaxRows
TableSize == IF maxTable[fun] = 0 THEN DefaultMax ELSE maxTable[fun]

(* :ret := f(): of the composite results only an associative array of simple*)
(* values can be bound.                                                    *)
Compiles ==
  \A i \in DOMAIN functions[fun].returns :
    LET x == functions[fun].returns[i] IN
      ByVariable(x) => HasSimpleRows(x) /\ ~IsNestedTable(x)

(* The arrays for a table of records have the length of the input and the   *)
(* capacity of TableSize: make panics if that is less.                     *)
ReceiveInput ==
  /\ phase = "convert"
  /\ \E s \in [Sized -> 0..MaxRows] :
       /\ \A n \in Sized : s[n] \in Rows(n)
       /\ sizes' = s
       /\ phase' = IF \E n \in Sized : HasRecords(ArgNamed(n)) /\ s[n] > TableSize
                   THEN "panic" ELSE "bind"
  /\ UNCHANGED <<treeVars, annotationVars, writingVars, binds, memory, locals, arrays, pc,
                 target, seen, left, output>>

(* What the input has for a key: an absent record is a nil message.         *)
InputAt(key) ==
  LET x == ArgNamed(key[1]) IN
  CASE IsArray(x) -> [i \in 1..sizes[key[1]] |-> Value("input", key[1], key[2], i)]
    [] IsRecord(x) /\ sizes[key[1]] = 0 -> Null
    [] OTHER -> Value("input", key[1], key[2], 0)

Holds(a) ==
  CASE a.when = "present" -> sizes[a.arg] > 0
    [] a.when = "empty" -> sizes[a.arg] = 0
    [] OTHER -> TRUE

Unset == [key |-> <<>>, dir |-> "unset"]

(* convIn: an input that is output too is copied to the output first, but a *)
(* Lob has a variable of its own. &output.q.a panics if output.q is nil.    *)
DereferenceNil ==
  /\ phase = "bind"
  /\ NilOutputs # {}
  /\ phase' = "panic"
  /\ UNCHANGED <<treeVars, annotationVars, writingVars, runningVars>>

ConvertInput ==
  /\ phase = "bind"
  /\ NilOutputs = {}
  /\ phase' = IF Compiles THEN "run" ELSE "failed"
  /\ binds' = [p \in DOMAIN Keys |->
       LET as == SelectSeq(params, LAMBDA a : a.pos = p /\ Holds(a))
       IN IF as = <<>> THEN Unset ELSE [key |-> Last(as).key, dir |-> Last(as).dir]]
  /\ memory' = [k \in {params[i].key : i \in {j \in DOMAIN params : params[j].dir # "IN"}} |->
       LET x == ArgNamed(k[1]) IN IF IsInput(x) /\ ~IsLobAt(k) THEN InputAt(k) ELSE New(x)]
  /\ locals' = [n \in Inputs \cup Outputs |->
       LET x == ArgNamed(n) IN Filled(x, LAMBDA f : New(x))]
  /\ arrays' = [k \in {Keys[p] : p \in DOMAIN Keys} |-> <<>>]
  /\ UNCHANGED <<treeVars, annotationVars, writingVars, sizes, pc, target, seen, left, output>>

-----------------------------------------------------------------------------
(* The statements of the block.                                            *)

Executes(op) ==
  /\ phase = "run"
  /\ pc < Len(block)
  /\ block[pc + 1].op = op
  /\ pc' = pc + 1
  /\ UNCHANGED <<treeVars, annotationVars, writingVars, sizes, binds, output>>

Arg == ArgNamed(block[pc + 1].arg)
Key == <<block[pc + 1].arg, block[pc + 1].field>>

(* What a placeholder has when the block is executed.                       *)
Bound(key) ==
  LET b == binds[Position(pc + 1, key)] IN
  CASE b.dir = "IN" -> InputAt(b.key)
    [] b.dir = "IN/OUT" -> memory[b.key]
    [] OTHER -> New(ArgNamed(key[1]))

Load ==
  /\ Executes("load")
  /\ IF IsRecord(Arg)
     THEN locals' = [locals EXCEPT ![Key[1]][Key[2]] = Bound(Key)] /\ UNCHANGED arrays
     ELSE arrays' = [arrays EXCEPT ![Key] = Bound(Key)] /\ UNCHANGED locals
  /\ UNCHANGED <<memory, target, seen, left, phase>>

Clear ==
  /\ Executes("clear")
  /\ arrays' = [arrays EXCEPT ![Key] = <<>>]
  /\ UNCHANGED <<memory, locals, target, seen, left, phase>>

ClearVariable ==
  /\ Executes("clear variable")
  /\ locals' = [locals EXCEPT ![Arg.name] = <<>>]
  /\ UNCHANGED <<memory, arrays, target, seen, left, phase>>

(* A nested table has no element to assign to before it is extended.        *)
CopyIn ==
  /\ Executes("copy in")
  /\ locals' = [locals EXCEPT ![Arg.name] = arrays[Key]]
  /\ phase' = IF IsNestedTable(Arg) /\ arrays[Key] # <<>> THEN "failed" ELSE "run"
  /\ UNCHANGED <<memory, arrays, target, seen, left>>

CopyOut ==
  /\ Executes("copy out")
  /\ LET v == locals[Arg.name] IN
       arrays' = [arrays EXCEPT ![Key] =
         [i \in DOMAIN @ \cup DOMAIN v |-> IF i \in DOMAIN v THEN v[i] ELSE @[i]]]
  /\ UNCHANGED <<memory, locals, target, seen, left, phase>>

(* vn(i1).k := p_k(i1) along the first field's array; a nested table is     *)
(* extended before each of these assignments.                              *)
Gather ==
  /\ Executes("gather")
  /\ LET x == Arg
         rows == Len(arrays[<<x.name, FieldsOf(x)[1].name>>])
         extended == IF IsNestedTable(x) THEN rows * Len(FieldsOf(x)) ELSE rows
     IN locals' = [locals EXCEPT ![x.name] =
          [i \in 1..extended |-> [f \in FieldNames(x) |->
             IF i <= rows THEN arrays[<<x.name, f>>][i] ELSE Null]]]
  /\ UNCHANGED <<memory, arrays, target, seen, left, phase>>

(* p_k(i2) := vn(i1).k, for the i2-th of the i1.                            *)
Scatter ==
  /\ Executes("scatter")
  /\ LET x == Arg
         v == locals[x.name]
         rows == SetToSortSeq(DOMAIN v, <)
     IN arrays' = [k \in DOMAIN arrays |->
          IF k[1] # x.name \/ k[2] = "" THEN arrays[k]
          ELSE [i \in DOMAIN rows \cup DOMAIN arrays[k] |->
                  IF i \in DOMAIN rows THEN v[rows[i]][k[2]] ELSE arrays[k][i]]]
  /\ UNCHANGED <<memory, locals, target, seen, left, phase>>

IsOut(b) == b.dir \in {"OUT", "IN/OUT"}

Store ==
  /\ Executes("store")
  /\ LET b == binds[Position(pc + 1, Key)]
         v == IF IsRecord(Arg) THEN locals[Key[1]][Key[2]] ELSE arrays[Key]
     IN memory' = IF IsOut(b) THEN [memory EXCEPT ![b.key] = v] ELSE memory
  /\ UNCHANGED <<locals, arrays, target, seen, left, phase>>

(* The procedure gets its inputs. It leaves an output as it was, which is   *)
(* empty if it is no input, or fills it: the given rows of a table of       *)
(* records, as many of one of simple values, and another one unless none   *)
(* are given.                                                              *)
Given(x) == IF ByVariable(x) THEN locals[x.name] ELSE Bound(<<x.name, "">>)

Before(x) == IF IsInput(x) THEN Given(x) ELSE Filled(x, LAMBDA f : New(x))

By(x, rows) ==
  CASE HasRecords(x) -> [i \in rows |-> [f \in FieldNames(x) |-> Value("callee", x.name, f, i)]]
    [] HasSimpleRows(x) -> [i \in 1..Cardinality(rows) |-> Value("callee", x.name, "", i)]
    [] OTHER -> Filled(x, LAMBDA f : IF rows = {} THEN Null ELSE Value("callee", x.name, f, 0))

Calls ==
  /\ target' = fun
  /\ seen' = [n \in Inputs |-> Given(ArgNamed(n))]

IsResult(n) == \E i \in DOMAIN functions[fun].returns : functions[fun].returns[i].name = n

(* A result is assigned to its placeholder, never to its variable.          *)
Returns ==
  /\ Executes("call")
  /\ Calls
  /\ \E rows \in [Outputs -> SUBSET (1..MaxRows)], kept \in SUBSET Outputs :
       left' = [n \in Outputs |-> IF n \in kept THEN Before(ArgNamed(n)) ELSE By(ArgNamed(n), rows[n])]
  /\ locals' = [n \in DOMAIN locals |->
       IF n \in Outputs /\ ByVariable(ArgNamed(n)) /\ ~IsResult(n) THEN left'[n] ELSE locals[n]]
  /\ memory' = [k \in DOMAIN memory |->
       IF k \in Range(block[pc + 1].keys) /\ IsOut(binds[Position(pc + 1, k)])
       THEN left'[k[1]] ELSE memory[k]]
  /\ UNCHANGED <<arrays, phase>>

(* It raises an error, which leaves its arguments as they were. If it is one*)
(* that the package handles, the block goes on after the call.             *)
Raises ==
  /\ Executes("call")
  /\ Calls
  /\ \/ phase' = "failed"
     \/ handles[fun] # <<>> /\ UNCHANGED phase
  /\ left' = [n \in Outputs |-> Before(ArgNamed(n))]
  /\ UNCHANGED <<memory, locals, arrays>>

Statements ==
  \/ Load \/ Clear \/ ClearVariable \/ CopyIn \/ CopyOut \/ Gather \/ Scatter \/ Store
  \/ Returns \/ Raises

(* convOut. A Lob that is null leaves what was copied from the input.       *)
FromOra(key) ==
  IF IsLobAt(key) /\ memory[key] = Null /\ IsInput(ArgNamed(key[1]))
  THEN InputAt(key) ELSE memory[key]

(* The output has as many rows as the last field's array.                   *)
Records(x) ==
  LET names == [i \in DOMAIN FieldsOf(x) |-> FieldsOf(x)[i].name]
      of(f) == memory[<<x.name, f>>]
  IN [i \in DOMAIN of(Last(names)) |-> [f \in FieldNames(x) |->
        IF i \in DOMAIN of(f) THEN of(f)[i] ELSE Null]]

ConvertOutput ==
  /\ phase = "run"
  /\ pc = Len(block)
  /\ phase' = "answered"
  /\ output' = [n \in Outputs |->
       LET x == ArgNamed(n) IN
       IF HasRecords(x) THEN Records(x) ELSE Filled(x, LAMBDA f : FromOra(<<n, f>>))]
  /\ UNCHANGED <<treeVars, annotationVars, writingVars, sizes, binds, memory, locals, arrays, pc,
                 target, seen, left>>

-----------------------------------------------------------------------------
Final == {"error", "panic", "uncompilable", "failed", "answered", "replaced"}
Terminated == phase \in Final /\ UNCHANGED vars
NothingToCall ==
  /\ phase = "annotated"
  /\ \A i \in Ids : Copies(i) = 0 \/ ~Bindable(i)
  /\ UNCHANGED vars

Init ==
  /\ \E s \in Scenarios : TreeInit(s.programs, s.resolver) /\ AnnotationInit(s.annotations)
  /\ BlockInit

Next ==
  \/ TreeNext /\ UNCHANGED <<annotationVars, writingVars, runningVars>>
  \/ AnnotationNext /\ UNCHANGED <<writingVars, runningVars>>
  \/ Choose \/ PrepareArg \/ WriteBlock \/ Demap \/ WriteCode \/ WriteReplaced
  \/ ReceiveInput \/ DereferenceNil \/ ConvertInput \/ Statements \/ ConvertOutput
  \/ Terminated \/ NothingToCall

Spec == Init /\ [][Next]_vars

-----------------------------------------------------------------------------
(* The types, and that every number demap gives out is that of a placeholder*)
(* with the name it was asked for.                                         *)
TypeOK ==
  /\ phase \in {"expand", "parse", "collect", "annotate", "annotated", "prepare", "replace",
                "demap", "write", "convert", "bind", "run"} \cup Final
  /\ at \in 0..Len(plus)
  /\ parsed \in 0..Len(group) \/ phase # "parse"
  /\ \A n \in DOMAIN funcs : funcs[n] \in Ids
  /\ DOMAIN replacement \subseteq Ids
  /\ \A i \in DOMAIN replacement : replacement[i] \in {0} \cup Ids
  /\ fun \in {0} \cup Ids
  /\ target \in {0} \cup Ids
  /\ pc \in 0..Len(block)
  /\ \A i \in DOMAIN params : Keys[params[i].pos] = params[i].key
  /\ \A p \in DOMAIN binds : binds[p] = Unset \/ binds[p].key = Keys[p]

(* What prepareCall binds conditionally in the end: the arguments after it  *)
(* have no assignments, so that those of demap come under its condition.   *)
AbsentLast ==
  LET last == Args[Len(Args)] IN
  /\ \A i \in DOMAIN Args : Args[i].data # "REF CURSOR"
  /\ last.dir = "IN"
  /\ \/ IsRecord(last)
     \/ HasSimpleRows(last) /\ last.sub[1].data = "NUMBER"
  /\ sizes[last.name] = 0

(* An argument that is input and output behind a cursor.                    *)
BehindCursor(x) ==
  \E i, j \in DOMAIN Args :
    i < j /\ Args[i].data = "REF CURSOR" /\ Args[j] = x /\ x.dir = "IN/OUT"

(* When the block is executed every placeholder has a value or a destination*)
(* but the fields of a record that is absent, and the second placeholders   *)
(* of the others if the last argument is absent. A generated handler panics *)
(* before its block, or is no Go code, for no other reason than a table that*)
(* is longer than max-table-size or an argument behind a cursor: a record,  *)
(* which it dereferences before it is made, and then it panics on every     *)
(* call; a table of records or a record with a Lob, whose variables it uses *)
(* before they are declared.                                               *)
BoundUnlessAbsent ==
  /\ phase = "run" => \A p \in DOMAIN binds :
       binds[p] = Unset =>
         LET x == ArgNamed(Keys[p][1]) IN
         \/ IsRecord(x) /\ x.dir = "IN" /\ sizes[x.name] = 0
         \/ p # Positions(Keys[p])[1] /\ AbsentLast
  /\ phase = "panic" /\ sizes # <<>> =>
       \/ \E n \in Sized : HasRecords(ArgNamed(n)) /\ sizes[n] > TableSize
       \/ \E i \in DOMAIN Args : IsRecord(Args[i]) /\ BehindCursor(Args[i])
  /\ phase = "uncompilable" =>
       \E i \in DOMAIN Args :
         /\ BehindCursor(Args[i])
         /\ \/ HasRecords(Args[i])
            \/ IsRecord(Args[i]) /\ \E f \in Range(Args[i].sub) : IsLob(f)
  /\ phase = "run" =>
       \A i \in DOMAIN Args : IsRecord(Args[i]) \/ HasRecords(Args[i]) => ~BehindCursor(Args[i])

RowOfInput(x, i) == [f \in FieldNames(x) |-> Value("input", x.name, f, i)]

(* The procedure that is called is the function's own, however it is renamed*)
(* and, when it is replaced, the one at the end of the replacements. It sees*)
(* in each of its inputs what is in the message: every part of a record,    *)
(* every row of a table in its order. Exceptions: a Lob that is output too  *)
(* is not sent, and a nested table has null records after the rows. A       *)
(* handler that panics before the block (BoundUnlessAbsent) calls nothing.  *)
CalleeSeesTheInput ==
  /\ target # 0 /\ replacement[fun] = 0 => target = fun
  /\ target # 0 /\ replacement[fun] # 0 => replacement[target] = 0
  /\ seen # <<>> => \A n \in Inputs :
       LET x == ArgNamed(n) IN
       CASE HasRecords(x) ->
              /\ \A i \in 1..sizes[n] : seen[n][i] = RowOfInput(x, i)
              /\ \A i \in DOMAIN seen[n] : i > sizes[n] =>
                   IsNestedTable(x) /\ \A f \in FieldNames(x) : seen[n][i][f] = Null
         [] OTHER -> seen[n] = Filled(x, LAMBDA f :
              IF IsLobAt(<<n, f>>) /\ IsOutput(x) THEN Null ELSE InputAt(<<n, f>>))

(* A key's part of what the procedure left, and of the output.              *)
LeftAt(x, f) ==
  LET l == left[x.name]
      rows == SetToSortSeq(DOMAIN l, <)
  IN CASE HasRecords(x) -> [i \in DOMAIN rows |-> l[rows[i]][f]]
       [] IsRecord(x) -> l[f]
       [] OTHER -> l

OutputAt(x, f) ==
  LET o == output[x.name] IN
  CASE HasRecords(x) -> [i \in DOMAIN o |-> o[i][f]]
    [] IsRecord(x) -> o[f]
    [] OTHER -> o

IsTold(key) == binds[Last(Positions(key))] # Unset
KeysOf(x) == IF IsRecord(x) \/ HasRecords(x) THEN {<<x.name, f>> : f \in FieldNames(x)}
                                            ELSE {<<x.name, "">>}

(* What the procedure left in an output is what the client gets, rows       *)
(* without their gaps. Exceptions: what is not bound (BoundUnlessAbsent) and*)
(* a Lob that is null leave the input there; a table that is input too and  *)
(* has become shorter keeps the rest of its input; and a result that is a   *)
(* table is overwritten by the variable that nothing was assigned to. There *)
(* is no answer of a handler that panics before the block.                  *)
OutputIsWhatWasLeft ==
  phase = "answered" => \A n \in Outputs :
    LET x == ArgNamed(n) IN
    \A key \in KeysOf(x) :
      LET l == LeftAt(x, key[2])
          o == OutputAt(x, key[2])
      IN CASE IsArray(x) /\ IsResult(n) -> o = <<>>
           [] ~IsTold(key) -> IsInput(x) /\ o = InputAt(key)
           [] IsLobAt(key) /\ l = Null /\ IsInput(x) -> o = InputAt(key)
           [] HasRecords(x) /\ IsInput(x) ->
                o = l \o SubSeq(InputAt(key), Len(l) + 1, sizes[n])
           [] OTHER -> o = l

(* A table comes back with the rows the procedure left in it: the arrays of *)
(* its fields are cleared before they are filled (lib/structs_test.go:151). *)
NoStaleRows ==
  phase = "answered" => \A n \in Outputs :
    LET x == ArgNamed(n) IN
    HasRecords(x) /\ (\A key \in KeysOf(x) : IsTold(key)) =>
      Len(output[n]) = Cardinality(DOMAIN left[n])
=============================================================================
