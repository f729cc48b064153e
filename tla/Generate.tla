------------------------------ MODULE Generate ------------------------------
(***************************************************************************)
(* oracall call, after the functions were read: the generated files, the   *)
(* three goroutines that write them in an errgroup limited to two, and the *)
(* replacement of the files when the command returns.  SaveFunctions, with *)
(* its one error variable for the writer and for everything else, is       *)
(* modelled write by write; of SaveProtobuf (module ProtoMessages) only    *)
(* the outcome.                                                            *)
(***************************************************************************)
EXTENDS Naturals, Sequences, FiniteSets

CONSTANT MaxFuns  (* bound: functions to generate *)

ASSUME GenerateAssumption == MaxFuns \in Nat

(* A function whose argument types are all known, one with a type goType    *)
(* does not know, one with a table without its element type, one whose      *)
(* generated text is not Go.                                                *)
Kinds == {"good", "unknown", "nodata", "broken"}
Files == {"out", "test", "proto", "pb"}
Tasks == {"save", "tests", "proto"}
Errors == {"nil", "write", "missing", "format", "proto", "create"}

VARIABLES
  functions,  (* the kind of each *)
  dest,       (* -db-out: where the functions are written *)
  proto,      (* -pb-out: whether there is a .proto file *)
  skip,       (* the package variable SkipMissingTableOf *)
  pc,         (* the caller: the command's Exec *)
  todo,       (* the tasks still to be started, in order *)
  task,       (* where each goroutine is *)
  index,      (* SaveFunctions: the function being saved *)
  err,        (* the error variable of each task *)
  hole,       (* whether a write to a file failed or was dropped *)
  temp,       (* the pending files *)
  disk,       (* the files under their own names *)
  grpErr,     (* the errgroup's first error; its context ends with it *)
  ctxDone,    (* the command's context: a signal, the timeout *)
  retErr,     (* what the command returned *)
  failed      (* history: a write, a close or a program failed *)

args == <<functions, dest, proto, skip>>
content == <<hole, temp, disk>>
vars == <<args, pc, todo, task, index, err, content, grpErr, ctxDone, retErr, failed>>

TypeOK ==
  /\ functions \in Seq(Kinds) /\ Len(functions) <= MaxFuns
  /\ dest \in {"none", "stdout", "file"}
  /\ proto \in BOOLEAN /\ skip \in BOOLEAN
  /\ pc \in {"out", "test", "go", "replace", "cleanup", "returned", "dead"}
  /\ todo \in Seq(Tasks)
  /\ task \in [Tasks -> {"none", "begin", "struct", "text", "protoc", "sed", "end", "done"}]
  /\ index \in 1..(Len(functions) + 1)
  /\ err \in [Tasks -> Errors]
  /\ hole \in [Files -> BOOLEAN]
  /\ temp \in [{"out", "test"} -> {"none", "part", "whole"}]
  /\ disk \in [Files -> {"old", "part", "whole"}]
  /\ grpErr \in Errors /\ retErr \in Errors
  /\ ctxDone \in BOOLEAN /\ failed \in BOOLEAN
  /\ Cardinality({t \in Tasks : task[t] \notin {"none", "done"}}) <= 2
  /\ pc = "returned" => \A f \in {"out", "test"} : temp[f] = "none"

Init ==
  /\ functions \in UNION {[1..n -> Kinds] : n \in 0..MaxFuns}
  /\ dest \in {"none", "stdout", "file"}
  /\ proto \in BOOLEAN
  /\ skip \in BOOLEAN
  /\ pc = IF dest = "file" THEN "out" ELSE "go"
  /\ todo = (IF dest = "none" THEN <<>> ELSE <<"save">>)
            \o (IF dest = "file" THEN <<"tests">> ELSE <<>>)
            \o (IF proto THEN <<"proto">> ELSE <<>>)
  /\ task = [t \in Tasks |-> "none"]
  /\ index = 1
  /\ err = [t \in Tasks |-> "nil"]
  /\ hole = [f \in Files |-> FALSE]
  /\ temp = [f \in {"out", "test"} |-> "none"]
  /\ disk = [f \in Files |-> "old"]
  /\ grpErr = "nil"
  /\ ctxDone = FALSE
  /\ retErr = "nil"
  /\ failed = FALSE

Alive == pc \notin {"returned", "dead"}
Fails(ok) == failed' = (failed \/ ~ok)

-----------------------------------------------------------------------------
(* The caller.  Both pending files are made before anything is written; if  *)
(* the second cannot be, the deferred Cleanup removes the first.            *)
InPlace(f) == [disk EXCEPT ![f] = "part"]                     \* faulty variant
Aside(f) == disk

NewPendingFile(f, from, to) ==
  /\ pc = from
  /\ \E ok \in BOOLEAN :
       /\ Fails(ok)
       /\ IF ok THEN /\ temp' = [temp EXCEPT ![f] = "part"]
                     /\ disk' = Aside(f)
                     /\ pc' = to
                     /\ UNCHANGED retErr
          ELSE /\ retErr' = "create"
               /\ pc' = "cleanup"
               /\ UNCHANGED <<temp, disk>>
  /\ UNCHANGED <<args, todo, task, index, err, hole, grpErr, ctxDone>>

PendingOut == NewPendingFile("out", "out", "test")
PendingTest == NewPendingFile("test", "test", "go")

(* grp.Go waits while two tasks run.                                        *)
WithinLimit == Cardinality({t \in Tasks : task[t] \notin {"none", "done"}}) < 2

Go ==
  /\ pc = "go" /\ todo # <<>>
  /\ WithinLimit
  /\ task' = [task EXCEPT ![Head(todo)] = "begin"]
  /\ todo' = Tail(todo)
  /\ UNCHANGED <<args, pc, index, err, content, grpErr, ctxDone, retErr, failed>>

AllDone == \A t \in Tasks : task[t] \in {"none", "done"}

IgnoresWait == "nil"                                          \* faulty variant
WaitError == grpErr

Wait ==
  /\ pc = "go" /\ todo = <<>>
  /\ AllDone
  /\ retErr' = WaitError
  /\ pc' = IF dest = "file" THEN "replace" ELSE "cleanup"
  /\ UNCHANGED <<args, todo, task, index, err, content, grpErr, ctxDone, failed>>

(* The deferred function: both files get their names, whatever was returned;*)
(* an error is only logged.                                                 *)
Replace ==
  /\ pc = "replace"
  /\ \E done \in SUBSET {"out", "test"} :
       /\ Fails(done = {"out", "test"})
       /\ disk' = [f \in Files |-> IF f \in done THEN temp[f] ELSE disk[f]]
       /\ temp' = [f \in {"out", "test"} |-> IF f \in done THEN "none" ELSE temp[f]]
  /\ pc' = "cleanup"
  /\ UNCHANGED <<args, todo, task, index, err, hole, grpErr, ctxDone, retErr>>

NoCleanup == temp                                             \* faulty variant
Cleaned == [f \in {"out", "test"} |-> "none"]

Cleanup ==
  /\ pc = "cleanup"
  /\ temp' = Cleaned
  /\ pc' = "returned"
  /\ UNCHANGED <<args, todo, task, index, err, hole, disk, grpErr, ctxDone, retErr, failed>>

-----------------------------------------------------------------------------
(* errWriter.Write: nothing after an error, and the error is the variable's.*)
Written(ok, e) == ok /\ e = "nil"
AfterWrite(ok, e) == IF e = "nil" /\ ~ok THEN "write" ELSE e

(* SaveFunctions, to "out" or to the standard output.                       *)
SaveBegin ==
  /\ task["save"] = "begin"
  /\ \E ok \in BOOLEAN :
       /\ Fails(ok)
       /\ err' = [err EXCEPT !["save"] = AfterWrite(ok, "nil")]
       /\ hole' = [hole EXCEPT !["out"] = ~ok]
  /\ task' = [task EXCEPT !["save"] = "struct"]
  /\ UNCHANGED <<args, pc, todo, index, temp, disk, grpErr, ctxDone, retErr>>

(* FunLoop: SaveStruct's result is assigned to the writer's variable; when  *)
(* the function is skipped it stays there.                                  *)
Saving(e, to) == err' = [err EXCEPT !["save"] = e] /\ task' = [task EXCEPT !["save"] = to]

SaveStruct ==
  /\ task["save"] = "struct" /\ index <= Len(functions)
  /\ IF functions[index] \in {"good", "broken"}
     THEN Saving("nil", "text") /\ UNCHANGED index
     ELSE /\ Saving("missing", IF skip THEN "struct" ELSE "end")
          /\ index' = index + 1
  /\ UNCHANGED <<args, pc, todo, content, grpErr, ctxDone, retErr, failed>>

(* The PL/SQL text is written, then format.Source's result is assigned to   *)
(* that variable, then the Go text is written.                              *)
FormatError(kind) == IF kind = "broken" THEN "format" ELSE "nil"

SaveText ==
  /\ task["save"] = "text"
  /\ \E sql, go \in BOOLEAN :
       LET e == FormatError(functions[index])
       IN /\ e # "nil" => go
          /\ Fails(sql /\ go)
          /\ hole' = [hole EXCEPT !["out"] = @ \/ ~Written(sql, err["save"]) \/ ~Written(go, e)
                                                \/ functions[index] = "broken"]
          /\ Saving(AfterWrite(go, e), IF e = "nil" THEN "struct" ELSE "end")
  /\ index' = index + 1
  /\ UNCHANGED <<args, pc, todo, temp, disk, grpErr, ctxDone, retErr>>

(* The end of the text; the result is that of the last write.               *)
SaveTail ==
  /\ task["save"] = "struct" /\ index = Len(functions) + 1
  /\ \E ok \in BOOLEAN :
       /\ Fails(ok)
       /\ hole' = [hole EXCEPT !["out"] = @ \/ ~Written(ok, err["save"])]
       /\ Saving(AfterWrite(ok, err["save"]), "end")
  /\ UNCHANGED <<args, pc, todo, index, temp, disk, grpErr, ctxDone, retErr>>

(* SaveFunctionTests: every write through an errWriter, then return nil.    *)
SaveTests ==
  /\ task["tests"] = "begin"
  /\ \E ok \in BOOLEAN :
       /\ Fails(ok)
       /\ hole' = [hole EXCEPT !["test"] = ~ok]
  /\ task' = [task EXCEPT !["tests"] = "end"]
  /\ UNCHANGED <<args, pc, todo, index, err, temp, disk, grpErr, ctxDone, retErr>>

(* The .proto file is made in place; SaveProtobuf returns nil whatever      *)
(* became of its writes, a skipped function's error if it may not skip it.  *)
Proto(e, to) == err' = [err EXCEPT !["proto"] = e] /\ task' = [task EXCEPT !["proto"] = to]

CreateProto ==
  /\ task["proto"] = "begin"
  /\ \E ok \in BOOLEAN :
       /\ Fails(ok)
       /\ Proto(IF ok THEN "nil" ELSE "create", IF ok THEN "struct" ELSE "end")
       /\ disk' = IF ok THEN [disk EXCEPT !["proto"] = "part"] ELSE disk
  /\ UNCHANGED <<args, pc, todo, index, hole, temp, grpErr, ctxDone, retErr>>

Stopping == \E i \in DOMAIN functions : functions[i] = "unknown" /\ ~skip

SaveProtobuf ==
  /\ task["proto"] = "struct"
  /\ \A i \in DOMAIN functions : functions[i] # "nodata"
  /\ \E ok, closed \in BOOLEAN :
       /\ Fails(ok /\ closed)
       /\ hole' = [hole EXCEPT !["proto"] = ~ok]
       /\ disk' = [disk EXCEPT !["proto"] = IF ok /\ closed /\ ~Stopping THEN "whole" ELSE "part"]
       /\ IF Stopping \/ ~closed
          THEN Proto(IF Stopping THEN "missing" ELSE "write", "end")
          ELSE Proto("nil", "protoc")
  /\ UNCHANGED <<args, pc, todo, index, temp, grpErr, ctxDone, retErr>>

(* The commands protoc, which another task's error ends, and sed, which it  *)
(* does not.  A program that does not succeed may leave a part of the file. *)
Killed(t) == ctxDone \/ (t = "protoc" /\ grpErr # "nil")

IgnoresExit(ok) == "nil"                                      \* faulty variant
ExitError(ok) == IF ok THEN "nil" ELSE "proto"

Protoc ==
  /\ task["proto"] = "protoc"
  /\ \E ok \in BOOLEAN :
       /\ Killed("protoc") => ~ok
       /\ Fails(ok)
       /\ Proto(ExitError(ok), IF ok THEN "sed" ELSE "end")
       /\ IF ok THEN disk' = [disk EXCEPT !["pb"] = "part"]
          ELSE disk' \in {disk, [disk EXCEPT !["pb"] = "part"]}
  /\ UNCHANGED <<args, pc, todo, index, hole, temp, grpErr, ctxDone, retErr>>

Sed ==
  /\ task["proto"] = "sed"
  /\ \E ok \in BOOLEAN :
       /\ Killed("sed") => ~ok
       /\ Fails(ok)
       /\ Proto(ExitError(ok), "end")
       /\ disk' = IF ok THEN [disk EXCEPT !["pb"] = "whole"] ELSE disk
  /\ UNCHANGED <<args, pc, todo, index, hole, temp, grpErr, ctxDone, retErr>>

(* A task returns: the errgroup keeps the first error.                      *)
Return(t) ==
  /\ task[t] = "end"
  /\ task' = [task EXCEPT ![t] = "done"]
  /\ grpErr' = IF grpErr = "nil" THEN err[t] ELSE grpErr
  /\ LET f == IF t = "save" THEN "out" ELSE "test"
     IN temp' = IF t # "proto" /\ temp[f] = "part" /\ ~hole[f] /\ err[t] = "nil"
                THEN [temp EXCEPT ![f] = "whole"] ELSE temp
  /\ UNCHANGED <<args, pc, todo, index, err, hole, disk, ctxDone, retErr, failed>>

-----------------------------------------------------------------------------
Interrupt ==
  /\ Alive /\ ~ctxDone
  /\ ctxDone' = TRUE
  /\ UNCHANGED <<args, pc, todo, task, index, err, content, grpErr, retErr, failed>>

(* The process ends: killed, or by protoWriteMessageTyp's panic.            *)
Dies ==
  /\ Alive
  /\ pc' = "dead"
  /\ UNCHANGED <<args, todo, task, index, err, content, grpErr, ctxDone, retErr, failed>>

Task ==
  \/ SaveBegin \/ SaveStruct \/ SaveText \/ SaveTail \/ SaveTests
  \/ CreateProto \/ SaveProtobuf \/ Protoc \/ Sed
  \/ \E t \in Tasks : Return(t)

Panics == task["proto"] = "struct" /\ (\E i \in DOMAIN functions : functions[i] = "nodata") /\ Dies

Caller == PendingOut \/ PendingTest \/ Go \/ Wait \/ Replace \/ Cleanup
Terminated == ~Alive /\ UNCHANGED vars

Next == Caller \/ (Alive /\ Task) \/ Panics \/ Interrupt \/ Dies \/ Terminated

Spec == Init /\ [][Next]_vars

-----------------------------------------------------------------------------
Asked == (IF dest = "file" THEN {"out", "test"} ELSE {}) \cup (IF proto THEN {"proto", "pb"} ELSE {})

(* Where the command returns no error the .pb.go is that of this run: a     *)
(* killed protoc or sed is never passed over. If no write, close or program *)
(* failed, every other file asked for is there too, whole.                  *)
OkMeansWhole ==
  pc = "returned" /\ retErr = "nil" =>
    /\ proto => disk["pb"] = "whole"
    /\ ~failed => \A f \in Asked : disk[f] = "whole"

(* A task's error is not lost to another's: the command returns one.        *)
ErrorReturned == pc = "returned" /\ (\E t \in Tasks : err[t] # "nil") => retErr # "nil"

(* Until all tasks have ended the generated Go files are what they were: a  *)
(* command that is killed or panics leaves them as they were.               *)
ReplacedOnlyAtTheEnd ==
  (\E f \in {"out", "test"} : disk[f] # "old") => pc \in {"replace", "cleanup", "returned", "dead"} /\ AllDone
=============================================================================
