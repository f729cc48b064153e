--------------------------- MODULE ProtoMessages ---------------------------
(***************************************************************************)
(* SaveProtobuf: the messages and the services of the .proto file, written *)
(* function by function.  A record type gets its message where it is first *)
(* used, after the message that uses it; the set seen remembers, across    *)
(* functions, which types have one.  A function with an argument that has  *)
(* no Go type is left out, with everything it had written.                 *)
(***************************************************************************)
EXTENDS Naturals, Sequences, FiniteSets, SequencesExt

CONSTANTS
  Types,     (* the names of record types *)
  Names,     (* the names of functions, or the aliases they have *)
  FieldsOf,  (* the arguments a record type consists of *)
  Inputs     (* the lists of functions tried *)

(* What protoWriteMessageTyp tells apart in an argument, or in the element  *)
(* type of a table: a simple type, one that goType does not know, one that  *)
(* only protoType does not know, a table without its element type, a record.*)
Fields == {"simple", "unknown", "odd", "nodata"} \cup Types
Function == [name : Names, in : Seq(Fields), out : Seq(Fields)]

ASSUME ProtoAssumption ==
  /\ IsFiniteSet(Types)
  /\ Types \cap {"simple", "unknown", "odd", "nodata"} = {}
  /\ Types \cap ((Nat \cup Names) \X {"in", "out"}) = {}
  /\ FieldsOf \in [Types -> Seq(Fields)]
  /\ Inputs \subseteq Seq(Function)

VARIABLES
  SkipMissingTableOf, (* the package variable, set by a flag *)
  functions,          (* SaveProtobuf's argument *)
  fun,                (* FunLoop: the index of the function being saved *)
  dir,                (* the direction being saved, or "none" between functions *)
  stack,              (* the calls of protoWriteMessageTyp *)
  local,              (* what the function has written so far *)
  seen,               (* the types that have, or shall have, a message *)
  buf,                (* what is written after all functions *)
  services,           (* the functions that became an rpc *)
  outcome

vars == <<SkipMissingTableOf, functions, fun, dir, stack, local, seen, buf, services, outcome>>

(* Whose message it is: a record type's, or the input or the output of the  *)
(* function at an index.                                                    *)
Message == [of : Types \cup (Nat \X {"in", "out"}), refs : SUBSET Types]
Frame == [of : Types \cup (Nat \X {"in", "out"}), args : Seq(Fields), next : Nat,
          refs : SUBSET Types, nested : Seq(Message)]

TypeOK ==
  /\ SkipMissingTableOf \in BOOLEAN
  /\ functions \in Seq(Function)
  /\ fun \in 1..(Len(functions) + 1)
  /\ dir \in {"none", "in", "out"}
  /\ stack \in Seq(Frame)
  /\ local \in Seq(Message)
  /\ seen \subseteq Types
  /\ buf \in Seq(Message)
  /\ services \in Seq(DOMAIN functions)
  /\ outcome \in {"running", "ok", "error", "panic"}
  /\ outcome = "running" /\ dir = "none" => stack = <<>> /\ local = <<>>
  /\ Len(stack) <= Cardinality(Types) + 1

Init ==
  /\ SkipMissingTableOf \in BOOLEAN
  /\ functions \in Inputs
  /\ fun = 1
  /\ dir = "none"
  /\ stack = <<>>
  /\ local = <<>>
  /\ seen = {}
  /\ buf = <<>>
  /\ services = <<>>
  /\ outcome = "running"

given == <<SkipMissingTableOf, functions>>

-----------------------------------------------------------------------------
(* The name a message is written under.  Two functions may have one name:   *)
(* overloads, the same name in two packages, a function and its replacement.*)
NameOf(of) == IF of \in Types THEN of ELSE <<functions[of[1]].name, of[2]>>

Call(of, args) == [of |-> of, args |-> args, next |-> 0, refs |-> {}, nested |-> <<>>]
Top == Last(stack)
TopAt(next, refs) ==
  [stack EXCEPT ![Len(stack)] =
     [of |-> Top.of, args |-> Top.args, next |-> next, refs |-> refs, nested |-> Top.nested]]

Saving == outcome = "running" /\ dir # "none" /\ stack # <<>>
At(field) == Saving /\ Top.next \in DOMAIN Top.args /\ Top.args[Top.next] = field

(* Function.SaveProtobuf: the input message, then the output message.       *)
SaveFunction ==
  /\ outcome = "running" /\ dir = "none"
  /\ fun <= Len(functions)
  /\ dir' = "in"
  /\ stack' = <<Call(<<fun, "in">>, functions[fun].in)>>
  /\ UNCHANGED <<given, fun, local, seen, buf, services, outcome>>

SaveOutput ==
  /\ outcome = "running" /\ dir = "in" /\ stack = <<>>
  /\ dir' = "out"
  /\ stack' = <<Call(<<fun, "out">>, functions[fun].out)>>
  /\ UNCHANGED <<given, fun, local, seen, buf, services, outcome>>

NotEmptied == local                                           \* faulty variant
Emptied == <<>>

Save ==
  /\ outcome = "running" /\ dir = "out" /\ stack = <<>>
  /\ buf' = buf \o local
  /\ local' = Emptied
  /\ services' = Append(services, fun)
  /\ fun' = fun + 1
  /\ dir' = "none"
  /\ UNCHANGED <<given, stack, seen, outcome>>

(* protoWriteMessageTyp begins with a look at all of its arguments.         *)
Enter ==
  /\ Saving /\ Top.next = 0
  /\ IF "nodata" \in ToSet(Top.args)
     THEN outcome' = "panic" /\ UNCHANGED stack
     ELSE stack' = TopAt(1, Top.refs) /\ UNCHANGED outcome
  /\ UNCHANGED <<given, fun, dir, local, seen, buf, services>>

(* The line of an argument.                                                 *)
Line(refs) == TopAt(Top.next + 1, Top.refs \cup refs)

WriteSimple ==
  /\ At("simple")
  /\ stack' = Line({})
  /\ UNCHANGED <<given, fun, dir, local, seen, buf, services, outcome>>

(* A record's message is written once, before the line of the argument.     *)
Forgets(t) == seen                                            \* faulty variant
Remembered(t) == seen \cup {t}

WriteReference(t) ==
  /\ At(t)
  /\ t \in seen
  /\ stack' = Line({t})
  /\ UNCHANGED <<given, fun, dir, local, seen, buf, services, outcome>>

WriteMessage(t) ==
  /\ At(t)
  /\ t \notin seen
  /\ seen' = Remembered(t)
  /\ stack' = Append(Line({t}), Call(t, FieldsOf[t]))
  /\ UNCHANGED <<given, fun, dir, local, buf, services, outcome>>

(* goType's error goes up to FunLoop, which skips the function or stops.    *)
LeavesPart == buf \o local                                    \* faulty variant
DropsPart == buf

BreaksOut == Len(functions) + 1                               \* faulty variant
GoesOn == fun + 1

Unknown ==
  /\ At("unknown")
  /\ stack' = <<>>
  /\ local' = <<>>
  /\ buf' = DropsPart
  /\ dir' = "none"
  /\ IF SkipMissingTableOf THEN fun' = GoesOn /\ UNCHANGED outcome ELSE outcome' = "error" /\ UNCHANGED fun
  /\ UNCHANGED <<given, seen, services>>

(* protoType panics at a type that is none of its own and no record's.      *)
Odd ==
  /\ At("odd")
  /\ outcome' = "panic"
  /\ UNCHANGED <<given, fun, dir, stack, local, seen, buf, services>>

(* The end of a message: the text, then the messages first used in it, to   *)
(* the caller's buffer.                                                     *)
Text == <<[of |-> Top.of, refs |-> Top.refs]>> \o Top.nested

Caller == stack[Len(stack) - 1]
Returned ==
  [Front(stack) EXCEPT ![Len(stack) - 1] =
     [of |-> Caller.of, args |-> Caller.args, next |-> Caller.next, refs |-> Caller.refs,
      nested |-> Caller.nested \o Text]]

EndMessage ==
  /\ Saving
  /\ Top.next = Len(Top.args) + 1
  /\ IF Len(stack) = 1
     THEN stack' = <<>> /\ local' = local \o Text
     ELSE stack' = Returned /\ UNCHANGED local
  /\ UNCHANGED <<given, fun, dir, seen, buf, services, outcome>>

(* After FunLoop all of it is written to the file.                          *)
WriteAll ==
  /\ outcome = "running" /\ dir = "none"
  /\ fun = Len(functions) + 1
  /\ outcome' = "ok"
  /\ UNCHANGED <<given, fun, dir, stack, local, seen, buf, services>>

Terminated == outcome # "running" /\ UNCHANGED vars

Next ==
  \/ SaveFunction \/ SaveOutput \/ Save \/ Enter
  \/ WriteSimple \/ Unknown \/ Odd \/ EndMessage \/ WriteAll
  \/ \E t \in Types : WriteReference(t) \/ WriteMessage(t)
  \/ Terminated

Spec == Init /\ [][Next]_vars

-----------------------------------------------------------------------------
(* What a function needs: the least set that has its arguments and those of *)
(* the records in it.                                                      *)
Direct(fields) == ToSet(fields)

IsClosed(S) == \A t \in S \cap Types : Direct(FieldsOf[t]) \subseteq S
Reached(fields) ==
  {x \in Fields : \A S \in SUBSET Fields : Direct(fields) \subseteq S /\ IsClosed(S) => x \in S}

Needs(f) == Reached(functions[f].in) \cup Reached(functions[f].out)

Skipped == DOMAIN functions \ ToSet(services)
Defined == {m.of : m \in ToSet(buf)}
Used == UNION {m.refs : m \in ToSet(buf)}

(* Two messages of one name are the inputs, or the outputs, of two rpcs     *)
(* whose functions have one name: no record's message is written twice,     *)
(* however many functions, or records, use it.  And a type that is used and *)
(* not defined was met first in a function that was skipped: it was seen,   *)
(* and its message was dropped with the rest.                               *)
DefinedOnce ==
  /\ \A i, j \in DOMAIN buf : i # j /\ NameOf(buf[i].of) = NameOf(buf[j].of) =>
       \E f, g \in ToSet(services), d \in {"in", "out"} :
         /\ f # g /\ functions[f].name = functions[g].name
         /\ buf[i].of = <<f, d>> /\ buf[j].of = <<g, d>>
  /\ outcome = "ok" => \A t \in Used \ Defined :
       \E f \in Skipped : t \in Needs(f) /\ \A s \in ToSet(services) : t \in Needs(s) => f < s

(* The file has no leftovers: each message in it is the input or the output *)
(* of an rpc in it or is used by one of those, and each rpc has both.       *)
NothingOfTheSkipped ==
  /\ \A s \in ToSet(services) : {<<s, "in">>, <<s, "out">>} \subseteq Defined
  /\ \A d \in Defined :
       IF d \in Types THEN \E s \in ToSet(services) : d \in Needs(s)
       ELSE d[1] \in ToSet(services)

(* A function is left out only for a type of its own that is not known, and *)
(* whatever stops the generation is in the function being saved: a type seen*)
(* in another function never is the reason.                                 *)
StopsForAReason ==
  /\ outcome = "ok" => \A f \in Skipped : "unknown" \in Needs(f)
  /\ outcome = "panic" => {"nodata", "odd"} \cap Needs(fun) # {}
  /\ outcome = "error" => "unknown" \in Needs(fun) /\ ~SkipMissingTableOf

(* "my_pkg.proto with the Protocol Buffers messages and RPC service         *)
(* definitions" (README.md:27): every message the file uses is in it.       *)
EveryMessageDefined == outcome = "ok" => Used \subseteq Defined
=============================================================================
