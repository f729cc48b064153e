------------------------------ MODULE ArgTree ------------------------------
(***************************************************************************)
(* From the arguments of the subprograms, as the data dictionary lists     *)
(* them, to the Functions with their trees of arguments:                   *)
(*                                                                         *)
(*  - the producer of parseDB (main.go) resolves the type of a composite   *)
(*    argument and expandArgs flattens it into rows with levels;           *)
(*  - ParseArgumentsIter (lib/readcsv.go) builds the tree of every         *)
(*    subprogram's arguments back from the rows and their levels.          *)
(*                                                                         *)
(* Rows go from the one to the other through ParseDB's channels, which keep*)
(* their order and their groups (ParseDB.FunctionsInOrder): here the rows  *)
(* of a subprogram are parsed once they are all there.                     *)
(***************************************************************************)
EXTENDS Integers, Sequences, SequencesExt

CONSTANTS
  Types,   (* the dictionary: for every type's name its typecode (code), the*)
           (* attributes of a record (attrs), the element of a collection   *)
           (* (elem, a sequence of at most one)                             *)
  Unnamed  (* the name of an element or of a returned value                 *)

Arrays == {"PL/SQL TABLE", "TABLE"}
TableTypes == Arrays \cup {"REF CURSOR"}
Composites == TableTypes \cup {"PL/SQL RECORD"}

VARIABLES
  programs,   (* the subprograms: [name, args], an argument is               *)
              (* [name, data, type, dir]                                    *)
  resolver,   (* resolveTypeShort # nil                                     *)
  plus,       (* the producer's plus: what expandArgs has so far            *)
  at,         (* expandArgs' i: the rows of plus that are done              *)
  taken,      (* the arguments of the subprogram that the producer has sent *)
  group,      (* the rows of the subprogram                                 *)
  parsed,     (* the rows of the group that are in the tree                 *)
  nodes,      (* the Arguments of this subprogram, the root first           *)
  lastArgs,   (* level -> the last composite Argument there                 *)
  returns,    (* fun.Returns: a node, or 0                                  *)
  functions,  (* the Functions that are complete                            *)
  phase       (* what the program is doing                                  *)

treeVars == <<programs, resolver, plus, at, taken, group, parsed, nodes,
              lastArgs, returns, functions>>

-----------------------------------------------------------------------------
(* resolveType: the rows of one level below a type.                         *)

Sub(name, data, type) == [name |-> name, data |-> data, type |-> type, level |-> 1]

(* An element that is a collection itself keeps the coll_type of the outer  *)
(* one; an attribute that is one becomes a PL/SQL TABLE.                   *)
ElementRow(data, type) ==
  Sub(Unnamed, IF Types[type].code = "COLLECTION" THEN data ELSE Types[type].code, type)

AttributeRow(attr) ==
  Sub(attr.name,
      IF Types[attr.type].code = "COLLECTION" THEN "PL/SQL TABLE" ELSE Types[attr.type].code,
      attr.type)

(* A cursor has one unnamed record, that is looked up by the cursor's name. *)
ResolveType(data, type) ==
  CASE data \in Arrays ->
         [i \in DOMAIN Types[type].elem |-> ElementRow(data, Types[type].elem[i])]
    [] data = "REF CURSOR" -> <<Sub(Unnamed, "PL/SQL RECORD", type)>>
    [] data = "PL/SQL RECORD" ->
         [i \in DOMAIN Types[type].attrs |-> AttributeRow(Types[type].attrs[i])]

-----------------------------------------------------------------------------
(* The producer.                                                           *)

Fun == programs[Len(functions) + 1]
Argument == Fun.args[taken]

(* The argument's own row is sent; a composite one is resolved next.        *)
NextArgument ==
  /\ phase = "expand"
  /\ plus = <<>>
  /\ taken < Len(Fun.args)
  /\ taken' = taken + 1
  /\ LET a == Fun.args[taken + 1]
         q == ResolveType(a.data, a.type)
         composite == resolver /\ a.data \in Composites
     IN /\ group' = Append(group, [name |-> a.name, data |-> a.data, type |-> a.type,
                                   level |-> 0, dir |-> a.dir])
        /\ plus' = IF composite THEN q ELSE <<>>
        /\ phase' = IF composite /\ q = <<>> THEN "error" ELSE "expand"
  /\ at' = 0
  /\ UNCHANGED <<programs, resolver, parsed, nodes, lastArgs, returns, functions>>

Below(q, p) == [i \in DOMAIN q |-> [q[i] EXCEPT !.level = @ + p.level]]

(* plus = append(plus[:i+1], append(q, plus[i+1:]...)...)                    *)
AfterAll(i, q) == plus \o q                                    \* faulty variant
AfterItself(i, q) == SubSeq(plus, 1, i) \o q \o SubSeq(plus, i + 1, Len(plus))

(* One turn of expandArgs' loop.                                            *)
ExpandArg ==
  /\ phase = "expand"
  /\ at < Len(plus)
  /\ at' = at + 1
  /\ LET p == plus[at + 1]
         q == ResolveType(p.data, p.type)
     IN IF p.data \in Composites
        THEN /\ plus' = AfterItself(at + 1, Below(q, p))
             /\ phase' = IF q = <<>> THEN "error" ELSE "expand"
        ELSE UNCHANGED <<plus, phase>>
  /\ UNCHANGED <<programs, resolver, taken, group, parsed, nodes, lastArgs, returns, functions>>

(* for _, p := range plus: the parts follow their argument's row, with its  *)
(* direction and with the level they have in it.                           *)
SendPlus ==
  /\ phase = "expand"
  /\ at = Len(plus)
  /\ plus # <<>>
  /\ group' = group \o [i \in DOMAIN plus |->
                          [name |-> plus[i].name, data |-> plus[i].data, type |-> plus[i].type,
                           level |-> plus[i].level, dir |-> Argument.dir]]
  /\ plus' = <<>>
  /\ at' = 0
  /\ UNCHANGED <<programs, resolver, taken, parsed, nodes, lastArgs, returns, functions, phase>>

-----------------------------------------------------------------------------
(* ParseArgumentsIter, for one group.                                      *)

NewArgument(ua) ==
  [name |-> ua.name, data |-> ua.data, type |-> ua.type, dir |-> ua.dir,
   recordOf |-> <<>>, tableOf |-> 0]

Root == NewArgument([name |-> Unnamed, data |-> "PL/SQL RECORD", type |-> Unnamed,
                     dir |-> "IN"])
NoArgs == [l \in {-1} |-> 1]

BeginFunction ==
  /\ phase = "expand"
  /\ plus = <<>>
  /\ taken = Len(Fun.args)
  /\ phase' = "parse"
  /\ nodes' = <<Root>>
  /\ lastArgs' = NoArgs
  /\ returns' = 0
  /\ parsed' = 0
  /\ UNCHANGED <<programs, resolver, plus, at, taken, group, functions>>

(* Only composite arguments are entered: the parent of a row is the last    *)
(* composite one of the level above it.                                    *)
Entered(level, n) ==
  [l \in DOMAIN lastArgs \cup {level} |-> IF l = level THEN n ELSE lastArgs[l]]

IsReturn(ua) == ua.level = 0 /\ returns = 0 /\ ua.name = Unnamed

Adopted(parent, n) ==
  IF parent.data \in TableTypes THEN [parent EXCEPT !.tableOf = n]
                                ELSE [parent EXCEPT !.recordOf = Append(@, n)]

ParseRow ==
  /\ phase = "parse"
  /\ parsed < Len(group)
  /\ parsed' = parsed + 1
  /\ LET ua == group[parsed + 1]
         me == Len(nodes) + 1
         last == IF ua.data \in Composites THEN Entered(ua.level, me) ELSE lastArgs
     IN /\ lastArgs' = last
        /\ CASE IsReturn(ua) ->
                  /\ returns' = me
                  /\ nodes' = Append(nodes, [NewArgument(ua) EXCEPT !.name = "ret"])
                  /\ UNCHANGED phase
             [] ~IsReturn(ua) /\ ua.level - 1 \in DOMAIN last ->
                  /\ nodes' = Append([nodes EXCEPT ![last[ua.level - 1]] = Adopted(@, me)],
                                     NewArgument(ua))
                  /\ UNCHANGED <<returns, phase>>
             [] OTHER -> (* panic: parent is nil *)
                  /\ phase' = "panic"
                  /\ UNCHANGED <<nodes, returns>>
  /\ UNCHANGED <<programs, resolver, plus, at, taken, group, functions>>

(* A complete Argument as a tree: sub are the fields of a record, or the    *)
(* element of a table.                                                     *)
Tree[n \in 1..Len(nodes)] ==
  LET a == nodes[n]
      below == a.recordOf \o (IF a.tableOf = 0 THEN <<>> ELSE <<a.tableOf>>)
  IN [name |-> a.name, data |-> a.data, dir |-> a.dir,
      sub |-> [i \in DOMAIN below |-> Tree[below[i]]]]

FunctionParsed ==
  /\ phase = "parse"
  /\ parsed = Len(group)
  /\ functions' = Append(functions,
       [name |-> Fun.name,
        args |-> [i \in DOMAIN nodes[1].recordOf |-> Tree[nodes[1].recordOf[i]]],
        returns |-> IF returns = 0 THEN <<>> ELSE <<Tree[returns]>>])
  /\ phase' = IF Len(functions) + 1 = Len(programs) THEN "collect" ELSE "expand"
  /\ group' = <<>>
  /\ taken' = 0
  /\ UNCHANGED <<programs, resolver, plus, at, parsed, nodes, lastArgs, returns>>

TreeInit(scenario, canResolve) ==
  /\ programs = scenario
  /\ resolver = canResolve
  /\ plus = <<>> /\ at = 0 /\ taken = 0
  /\ group = <<>> /\ parsed = 0
  /\ nodes = <<Root>> /\ lastArgs = NoArgs /\ returns = 0
  /\ functions = <<>>
  /\ phase = "expand"

TreeNext ==
  \/ NextArgument \/ ExpandArg \/ SendPlus
  \/ BeginFunction \/ ParseRow \/ FunctionParsed

-----------------------------------------------------------------------------
(* What the trees must be, read off the types without rows and levels.      *)

Flavor(data) == CASE data = "PL/SQL RECORD" -> "RECORD"
                  [] data \in TableTypes -> "TABLE"
                  [] OTHER -> "SIMPLE"

TypeFlavor(t) == IF Types[t].code = "COLLECTION" THEN "TABLE" ELSE Flavor(Types[t].code)

Fields(attrs, dir, f) == [i \in DOMAIN attrs |-> <<attrs[i].name, f[attrs[i].type, dir]>>]

Shape[t \in DOMAIN Types, dir \in {"IN", "OUT", "IN/OUT"}] ==
  <<TypeFlavor(t), dir,
    CASE TypeFlavor(t) = "RECORD" -> Fields(Types[t].attrs, dir, Shape)
      [] TypeFlavor(t) = "TABLE" ->
           [i \in DOMAIN Types[t].elem |-> <<Unnamed, Shape[Types[t].elem[i], dir]>>]
      [] OTHER -> <<>>>>

ShapeOfArgument(a) ==
  CASE ~resolver -> <<Flavor(a.data), a.dir, <<>>>>
    [] a.data = "REF CURSOR" ->
         <<"TABLE", a.dir,
           << <<Unnamed, <<"RECORD", a.dir, Fields(Types[a.type].attrs, a.dir, Shape)>>>> >>>>
    [] OTHER -> Shape[a.type, a.dir]

RECURSIVE ShapeOfTree(_)
ShapeOfTree(tree) ==
  <<Flavor(tree.data), tree.dir,
    [i \in DOMAIN tree.sub |-> <<tree.sub[i].name, ShapeOfTree(tree.sub[i])>>]>>

(* Every Function's tree is its argument's type, part for part, in order and*)
(* with its direction, although between them there are only rows with      *)
(* levels; and its result is the first unnamed argument.                   *)
TreeOfTheType ==
  \A k \in DOMAIN functions :
    LET named == SelectSeq(programs[k].args, LAMBDA a : a.name # Unnamed)
        result == SelectSeq(programs[k].args, LAMBDA a : a.name = Unnamed)
    IN /\ Len(functions[k].args) = Len(named)
       /\ \A i \in DOMAIN named :
            /\ functions[k].args[i].name = named[i].name
            /\ ShapeOfTree(functions[k].args[i]) = ShapeOfArgument(named[i])
       /\ Len(functions[k].returns) = Len(result)
       /\ \A i \in DOMAIN result :
            ShapeOfTree(functions[k].returns[i]) = ShapeOfArgument(result[i])
=============================================================================
