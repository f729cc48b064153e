----------------------------- MODULE ArgGroups -----------------------------
(***************************************************************************)
(* The downstream half of the argument pipeline of lib/readcsv.go: the     *)
(* goroutine running FilterAndGroup, which filters the argument rows and   *)
(* groups the rows of one subprogram, and ParseArguments, which runs in    *)
(* the calling goroutine and turns every group into a Function.            *)
(*                                                                         *)
(* A row of the data dictionary is reduced to the subprogram it belongs to *)
(* and its position in the stream; a Function to the group it is made of.  *)
(* Both ends of this half are channels: userArgs, filled by ParseDB's      *)
(* converter or by ParseCsv's reader, and filteredArgs.                    *)
(***************************************************************************)
EXTENDS Naturals, Sequences, FiniteSets

CONSTANTS
  Programs,    (* subprograms: (package, object, object_id, subprogram_id)  *)
  Accepted,    (* those that pass the command line's filters                *)
  Hidden,      (* those whose name ends with '#'                            *)
  UACap,       (* capacity of the userArgs channel (16 in the code)         *)
  FACap        (* capacity of the filteredArgs channel (16 in the code)     *)

ASSUME GroupAssumption ==
  /\ Accepted \subseteq Programs
  /\ Hidden \subseteq Programs
  /\ UACap \in Nat \ {0}
  /\ FACap \in Nat \ {0}

VARIABLES
  userArgs,     (* the buffered channel of UserArguments                    *)
  grouper,      (* where the FilterAndGroup goroutine is                    *)
  group,        (* groupArgs' args: the rows of the program being collected *)
  opener,       (* the row that closed that group, at most one              *)
  filteredArgs, (* the buffered channel of groups                           *)
  functions     (* what ParseArguments has returned so far                  *)

groupVars == <<userArgs, grouper, group, opener, filteredArgs, functions>>

Row == [prog : Programs, pos : Nat \ {0}]

GroupTypeOK ==
  /\ userArgs \in Seq(Row) /\ Len(userArgs) <= UACap
  /\ grouper \in {"idle", "receive", "yield", "flush", "closed", "dead"}
  /\ group \in Seq(Row)
  /\ opener \in Seq(Row) /\ Len(opener) <= 1
  /\ filteredArgs \in Seq(Seq(Row) \ {<<>>}) /\ Len(filteredArgs) <= FACap
  /\ functions \in Seq(Seq(Row) \ {<<>>})

GroupInit ==
  /\ userArgs = <<>>
  /\ grouper = "idle"
  /\ group = <<>>
  /\ opener = <<>>
  /\ filteredArgs = <<>>
  /\ functions = <<>>

-----------------------------------------------------------------------------
(* The rows of one subprogram stay together: groupArgs' lastProg = actProg. *)

SamePackageOnly(args, ua) == TRUE                              \* faulty variant
SameProgram(args, ua) == \A i \in DOMAIN args : args[i].prog = ua.prog

RoomForOneMore(ch, cap) == Len(ch) <= cap                      \* faulty variant
RoomFor(ch, cap) == Len(ch) < cap

(* FilterAndGroup takes the next UserArgument; filterArgs drops it, or      *)
(* groupArgs appends it to the current group, or yields that group first.  *)
GroupReceive ==
  /\ grouper = "receive"
  /\ userArgs # <<>>
  /\ userArgs' = Tail(userArgs)
  /\ LET ua == Head(userArgs) IN
       \/ /\ ua.prog \notin Accepted
          /\ UNCHANGED <<grouper, group, opener>>
       \/ /\ ua.prog \in Accepted
          /\ SameProgram(group, ua)
          /\ group' = Append(group, ua)
          /\ UNCHANGED <<grouper, opener>>
       \/ /\ ua.prog \in Accepted
          /\ ~SameProgram(group, ua)
          /\ opener' = <<ua>>
          /\ grouper' = "yield"
          /\ UNCHANGED group
  /\ UNCHANGED <<filteredArgs, functions>>

FirstOfNext == opener

(* yield(args): the group is sent to filteredArgs, which blocks while full, *)
(* and a new one starts with the row that ended it.                        *)
GroupYield ==
  /\ grouper = "yield"
  /\ RoomFor(filteredArgs, FACap)
  /\ filteredArgs' = Append(filteredArgs, group)
  /\ group' = FirstOfNext
  /\ opener' = <<>>
  /\ grouper' = "receive"
  /\ UNCHANGED <<userArgs, functions>>

(* userArgs is closed and drained: the last group is still to be yielded,   *)
(* or the goroutine returns and closes filteredArgs.                       *)
AfterLastRow == IF group = <<>> THEN "closed" ELSE "flush"

GroupEnd(uaClosed) ==
  /\ grouper = "receive"
  /\ userArgs = <<>>
  /\ uaClosed
  /\ grouper' = AfterLastRow
  /\ UNCHANGED <<userArgs, group, opener, filteredArgs, functions>>

GroupFlush ==
  /\ grouper = "flush"
  /\ RoomFor(filteredArgs, FACap)
  /\ filteredArgs' = Append(filteredArgs, group)
  /\ group' = <<>>
  /\ grouper' = "closed"
  /\ UNCHANGED <<userArgs, opener, functions>>

(* The closure over FilterAndGroup's deferred close(filteredArgs).          *)
FilteredClosed == grouper = "closed"

(* ParseArgumentsIter takes one group: a hidden one is skipped, any other   *)
(* becomes the next Function.                                              *)
ParseGroup ==
  /\ filteredArgs # <<>>
  /\ filteredArgs' = Tail(filteredArgs)
  /\ functions' = IF Head(filteredArgs)[1].prog \in Hidden
                  THEN functions
                  ELSE Append(functions, Head(filteredArgs))
  /\ UNCHANGED <<userArgs, grouper, group, opener>>

-----------------------------------------------------------------------------
(* What a run must deliver, stated without the channels: for a stream given *)
(* as a sequence of rows, every accepted and visible program's rows, all of *)
(* them, one Function per program, in the order of the stream.             *)

Wanted == Accepted \ Hidden

Positions(f) == {f[i].pos : i \in DOMAIN f}

(* Every function holds rows of one program, and positions only grow, inside*)
(* a function and from one function to the next: no row is duplicated, out *)
(* of order or filed under another program.                                *)
InOrder(fs) ==
  /\ \A k \in DOMAIN fs :
       /\ fs[k] # <<>>
       /\ \A i \in DOMAIN fs[k] : fs[k][i].prog = fs[k][1].prog
       /\ \A i, j \in DOMAIN fs[k] : i < j => fs[k][i].pos < fs[k][j].pos
  /\ \A k, l \in DOMAIN fs : k < l =>
       \A p \in Positions(fs[k]), q \in Positions(fs[l]) : p < q

(* The function k holds all of its program's rows among the given ones.     *)
Whole(fs, k, rowSet) ==
  Positions(fs[k]) = {r.pos : r \in {x \in rowSet : x.prog = fs[k][1].prog}}

Complete(fs, rowSet) ==
  /\ {fs[k][1].prog : k \in DOMAIN fs} = {r.prog : r \in rowSet} \cap Wanted
  /\ \A k \in DOMAIN fs : Whole(fs, k, rowSet)
=============================================================================
