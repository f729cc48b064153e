---------------------------- MODULE Annotations ----------------------------
(***************************************************************************)
(* ApplyAnnotations of lib/readcsv.go, on the Functions of module ArgTree: *)
(* the annotations found in the package's source, then the replacements    *)
(* named on the command line, are applied one after the other to the map   *)
(* of functions by their full names in lower case.                         *)
(*                                                                         *)
(* A function is its index in the slice ParseArguments returned; the map   *)
(* holds pointers, so that one function may stand under two names, while   *)
(* overloaded subprograms have one name between them. All are of one       *)
(* package.                                                                *)
(***************************************************************************)
EXTENDS ArgTree, FiniteSets

CONSTANTS
  NoName,   (* the empty name                                               *)
  Nowhere   (* ".g": main.go cuts the package off pkg.g, but not the dot;    *)
            (* no function has such a name                                  *)

VARIABLES
  annotations, (* [type, name, other, size], in the order they are applied  *)
  applied,     (* how many of them have been                                *)
  funcs,       (* the map: name -> function                                 *)
  alias,       (* f.alias                                                   *)
  replacement, (* f.Replacement: a function, or 0 for nil                   *)
  handles,     (* f.handle                                                  *)
  maxTable,    (* f.maxTableSize                                            *)
  tags         (* f.Tag                                                     *)

attributeVars == <<alias, replacement, handles, maxTable, tags>>
annotationVars == <<annotations, applied, funcs, attributeVars>>

Ids == DOMAIN functions
Name(i) == functions[i].name

(* -replace pkg.f=>g, or -replace pkg.f=>pkg.g (qualified).                  *)
FlagAnnotation(name, other, qualified) ==
  [type |-> "replace", name |-> name, other |-> IF qualified THEN Nowhere ELSE other,
   size |-> 0]

AnnotationInit(as) ==
  /\ annotations = as
  /\ applied = 0
  /\ funcs = <<>> /\ alias = <<>> /\ replacement = <<>>
  /\ handles = <<>> /\ maxTable = <<>> /\ tags = <<>>

(* funcs[L(f.RealName())] = &f: of the overloaded ones the last stays.      *)
LastNamed(n) == CHOOSE i \in Ids : Name(i) = n /\ \A j \in Ids : Name(j) = n => j <= i

Collect ==
  /\ phase = "collect"
  /\ phase' = "annotate"
  /\ funcs' = [n \in {Name(i) : i \in Ids} |-> LastNamed(n)]
  /\ alias' = [i \in Ids |-> NoName]
  /\ replacement' = [i \in Ids |-> 0]
  /\ handles' = [i \in Ids |-> <<>>]
  /\ maxTable' = [i \in Ids |-> 0]
  /\ tags' = [i \in Ids |-> <<>>]
  /\ UNCHANGED <<treeVars, annotations, applied>>

-----------------------------------------------------------------------------
(* One annotation.                                                         *)

Without(n) == [m \in DOMAIN funcs \ {n} |-> funcs[m]]
Set(fs, n, f) == [m \in DOMAIN fs \cup {n} |-> IF m = n THEN f ELSE fs[m]]
Found(n) == IF n \in DOMAIN funcs THEN funcs[n] ELSE 0

Complete(a) ==
  /\ a.name # NoName
  /\ a.other = NoName => a.type \in {"private", "handle", "max-table-size"}
  /\ a.type = "max-table-size" => a.size > 0

IsNext(a) ==
  /\ phase = "annotate"
  /\ applied < Len(annotations)
  /\ a = annotations[applied + 1]
  /\ applied' = applied + 1
  /\ UNCHANGED <<treeVars, annotations, phase>>

Incomplete ==
  \E a \in {annotations[i] : i \in DOMAIN annotations} :
    /\ IsNext(a)
    /\ ~Complete(a)
    /\ UNCHANGED <<funcs, attributeVars>>

Private(a) ==
  /\ a.type = "private"
  /\ funcs' = Without(a.name)
  /\ UNCHANGED attributeVars

NotAsked(f) == TRUE                                            \* faulty variant
Exists(f) == f # 0                                           (* f != nil    *)

LeavesTheOld(n) == funcs                                       \* faulty variant
Removed(n) == Without(n)

Rename(a) ==
  /\ a.type = "rename"
  /\ LET f == Found(a.name) IN
       IF Exists(f)
       THEN /\ funcs' = Set(Removed(a.name), a.other, f)
            /\ alias' = [i \in Ids |-> IF i = f THEN a.other ELSE alias[i]]
       ELSE UNCHANGED <<funcs, alias>>
  /\ UNCHANGED <<replacement, handles, maxTable, tags>>

(* The function is entered again under its own name, not under the one it   *)
(* was found by. A replacement that is not found is nil.                    *)
ReplaceOf(a, f) ==
  /\ replacement' = [replacement EXCEPT ![f] = Found(a.other)]
  /\ funcs' = Set(Without(a.other), Name(f), f)

Replace(a) ==
  /\ a.type = "replace"
  /\ LET f == Found(a.name) IN
       IF f = 0 THEN UNCHANGED <<funcs, replacement>> ELSE ReplaceOf(a, f)
  /\ UNCHANGED <<alias, handles, maxTable, tags>>

(* To every function of the package, once for each name it stands under.    *)
Handle(a) ==
  /\ a.type = "handle"
  /\ handles' = [i \in Ids |->
       handles[i] \o [k \in 1..Cardinality({n \in DOMAIN funcs : funcs[n] = i}) |-> a.name]]
  /\ UNCHANGED <<funcs, alias, replacement, maxTable, tags>>

TakesTheLast(old, new) == TRUE                                 \* faulty variant
NotSmaller(old, new) == new >= old

MaxTableSize(a) ==
  /\ a.type = "max-table-size"
  /\ LET f == Found(a.name) IN
       maxTable' = IF f # 0 /\ NotSmaller(maxTable[f], a.size)
                   THEN [maxTable EXCEPT ![f] = a.size] ELSE maxTable
  /\ UNCHANGED <<funcs, alias, replacement, handles, tags>>

Tag(a) ==
  /\ a.type = "tag"
  /\ LET f == Found(a.name) IN
       tags' = IF f # 0 THEN [tags EXCEPT ![f] = Append(@, a.other)] ELSE tags
  /\ UNCHANGED <<funcs, alias, replacement, handles, maxTable>>

Apply ==
  \E a \in {annotations[i] : i \in DOMAIN annotations} :
    /\ IsNext(a)
    /\ Complete(a)
    /\ Private(a) \/ Rename(a) \/ Replace(a) \/ Handle(a) \/ MaxTableSize(a) \/ Tag(a)

Annotated ==
  /\ phase = "annotate"
  /\ applied = Len(annotations)
  /\ phase' = "annotated"
  /\ UNCHANGED <<treeVars, annotationVars>>

AnnotationNext == Collect \/ Incomplete \/ Apply \/ Annotated

(* The times a function is in the result, whose order is the map's; without *)
(* annotations the functions are returned as they came.                    *)
Copies(i) ==
  IF annotations = <<>> THEN 1 ELSE Cardinality({n \in DOMAIN funcs : funcs[n] = i})

-----------------------------------------------------------------------------
(* What the annotations promise.                                           *)

Done == phase \notin {"expand", "parse", "collect", "annotate", "error", "panic"}

(* The names a function may have been known by before annotation k + 1.     *)
NamesOf(i) ==
  LET f[k \in 0..Len(annotations)] ==
        IF k = 0 THEN {Name(i)}
        ELSE f[k-1] \cup (IF annotations[k].type = "rename" /\ annotations[k].name \in f[k-1]
                          THEN {annotations[k].other} ELSE {})
  IN f

HidesIt(i, k) ==
  LET a == annotations[k] IN
    \/ a.type = "private" /\ a.name \in NamesOf(i)[k-1]
    \/ a.type = "replace" /\ a.other \in NamesOf(i)[k-1]
    \/ a.type = "rename" /\ a.other \in NamesOf(i)[k-1]
         /\ \E j \in Ids \ {i} : a.name \in NamesOf(j)[k-1]
    \/ a.type = "replace" /\ \E j \in Ids \ {i} :
          a.name \in NamesOf(j)[k-1] /\ Name(j) \in NamesOf(i)[k-1]

RenamedThenReplaced(i) ==
  \E k, l \in DOMAIN annotations :
    /\ k < l
    /\ annotations[k].type = "rename" /\ annotations[k].name \in NamesOf(i)[k-1]
    /\ annotations[l].type = "replace" /\ annotations[l].name = annotations[k].other

(* A function is generated once. It is left out only if it is overloaded, or*)
(* an annotation hides it: private, as a replacement, or because another    *)
(* one was given its name; it is there twice, so that the generated code    *)
(* declares it twice, only if it was replaced under the name it had been    *)
(* given before.                                                           *)
OnceOrForAReason ==
  Done => \A i \in Ids :
    /\ Copies(i) = 0 => \/ \E j \in Ids : j > i /\ Name(j) = Name(i)
                        \/ \E k \in DOMAIN annotations : HidesIt(i, k)
    /\ Copies(i) > 1 => RenamedThenReplaced(i)

Mentions(a, n) == a.name = n \/ a.other = n
OnlyMention(k, n) ==
  \A l \in DOMAIN annotations \ {k} :
    \/ annotations[l].type = "handle"
    \/ annotations[l].type = "max-table-size" /\ annotations[k].type = "max-table-size"
    \/ ~Mentions(annotations[l], n)

(* An annotation whose names no other one mentions does to its function what*)
(* it says, whatever the others do and in whatever order they come, and of  *)
(* the sizes that are given to one function the greatest counts; and        *)
(* every function that is there handles what its package handles, in that  *)
(* order.                                                                  *)
DoesWhatItSays ==
  Done =>
    /\ \A k \in DOMAIN annotations :
         LET a == annotations[k]
             named == {i \in Ids : Name(i) = a.name}
             f == LastNamed(a.name)
             others == {i \in Ids : Name(i) = a.other}
         IN OnlyMention(k, a.name) /\ OnlyMention(k, a.other) /\ named # {} /\ Complete(a) =>
              CASE a.type = "private" -> \A i \in named : Copies(i) = 0
                [] a.type = "rename" -> alias[f] = a.other /\ Copies(f) = 1
                [] a.type = "replace" ->
                     /\ Copies(f) = 1
                     /\ replacement[f] = IF others = {} THEN 0 ELSE LastNamed(a.other)
                     /\ a.name # a.other => \A i \in others : Copies(i) = 0
                [] a.type = "max-table-size" -> 
                     /\ maxTable[f] >= a.size
                     /\ maxTable[f] \in {annotations[l].size : l \in {m \in DOMAIN annotations :
                                                                    annotations[m].name = a.name}}
                [] a.type = "tag" -> tags[f] = <<a.other>>
                [] OTHER -> TRUE
    /\ \A i \in Ids : Copies(i) = 1 /\ ~RenamedThenReplaced(i) =>
         handles[i] = LET hs == SelectSeq(annotations, LAMBDA a : a.type = "handle")
                      IN [k \in DOMAIN hs |-> hs[k].name]
=============================================================================
