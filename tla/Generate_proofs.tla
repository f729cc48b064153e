-------------------------- MODULE Generate_proofs --------------------------
(***************************************************************************)
(* Theorems about Generate, for any number of functions to generate.       *)
(***************************************************************************)
EXTENDS Generate, FiniteSetTheorems, SequenceTheorems, TLAPS

GoFiles == {"out", "test"}
Active == {t \in Tasks : task[t] \notin {"none", "done"}}
AfterWait == {"replace", "cleanup", "returned"}

AskedTasks == {t \in Tasks : \/ t = "save" /\ dest # "none"
                             \/ t = "tests" /\ dest = "file"
                             \/ t = "proto" /\ proto}

(* Where the caller is, none of the tasks it was asked for is forgotten, and*)
(* before and after the group none runs.                                    *)
TaskInv ==
  /\ pc \in {"out", "test"} => \A t \in Tasks : task[t] = "none"
  /\ pc \in AfterWait => AllDone
  /\ pc \in {"out", "test", "replace"} => dest = "file"
  /\ \A t \in AskedTasks : task[t] # "none" \/ \E i \in DOMAIN todo : todo[i] = t
  /\ pc \in AfterWait /\ retErr = "nil" => \A t \in AskedTasks : task[t] = "done"

(* A task's error is in its variable, then in the group, then returned.     *)
ErrInv ==
  /\ \A t \in Tasks : task[t] = "none" => err[t] = "nil"
  /\ \A t \in Tasks : task[t] = "done" /\ err[t] # "nil" => grpErr # "nil"
  /\ pc \in AfterWait /\ grpErr # "nil" => retErr # "nil"

(* SaveFunctions and SaveFunctionTests: without a failure only an error that*)
(* is still in the variable at the end leaves a hole.                       *)
SaveInv ==
  /\ task["save"] = "text" => index <= Len(functions) /\ err["save"] = "nil"
  /\ ~failed => /\ task["save"] \in {"struct", "text"} => ~hole["out"]
                /\ task["save"] = "end" /\ err["save"] = "nil" => ~hole["out"]
                /\ task["tests"] = "end" => ~hole["test"]

(* The pending files on their way to their names.                           *)
Finished(t) == task[t] = "done" /\ err[t] = "nil"

PendingInv ==
  /\ pc = "test" => temp["out"] = "part"
  /\ dest = "file" /\ pc \in {"go", "replace"} =>
       /\ \A f \in GoFiles : temp[f] \in {"part", "whole"}
       /\ ~failed => /\ Finished("save") => temp["out"] = "whole"
                     /\ Finished("tests") => temp["test"] = "whole"
  /\ dest = "file" /\ pc \in {"cleanup", "returned"} /\ retErr = "nil" /\ ~failed =>
       \A f \in GoFiles : disk[f] = "whole"

(* The .proto file and what protoc and sed make of it.                      *)
ProtoEnded == task["proto"] \in {"end", "done"} /\ err["proto"] = "nil"

ProtoInv ==
  /\ ProtoEnded => disk["pb"] = "whole"
  /\ ~failed /\ (task["proto"] \in {"protoc", "sed"} \/ ProtoEnded) => disk["proto"] = "whole"

(* TypeOK, but for its two last parts.                                      *)
Typed ==
  /\ functions \in Seq(Kinds) /\ Len(functions) <= MaxFuns
  /\ dest \in {"none", "stdout", "file"}
  /\ proto \in BOOLEAN /\ skip \in BOOLEAN
  /\ pc \in {"out", "test", "go", "replace", "cleanup", "returned", "dead"}
  /\ todo \in Seq(Tasks)
  /\ task \in [Tasks -> {"none", "begin", "struct", "text", "protoc", "sed", "end", "done"}]
  /\ index \in 1..(Len(functions) + 1)
  /\ err \in [Tasks -> Errors]
  /\ hole \in [Files -> BOOLEAN]
  /\ temp \in [GoFiles -> {"none", "part", "whole"}]
  /\ disk \in [Files -> {"old", "part", "whole"}]
  /\ grpErr \in Errors /\ retErr \in Errors
  /\ ctxDone \in BOOLEAN /\ failed \in BOOLEAN

IInv == /\ TypeOK /\ TaskInv /\ ErrInv /\ SaveInv /\ PendingInv /\ ProtoInv
        /\ ReplacedOnlyAtTheEnd
-----------------------------------------------------------------------------
(* Every step of a task needs one that runs.                                *)
LEMMA TaskRuns == ASSUME TypeOK, Task PROVE ~AllDone
<1> USE DEF AllDone, Tasks
<1>1. CASE SaveBegin \/ SaveStruct \/ SaveText \/ SaveTail \/ SaveTests
  BY <1>1 DEF SaveBegin, SaveStruct, SaveText, SaveTail, SaveTests
<1>2. CASE CreateProto \/ SaveProtobuf \/ Protoc \/ Sed
  BY <1>2 DEF CreateProto, SaveProtobuf, Protoc, Sed
<1>3. CASE \E t \in Tasks : Return(t)
  BY <1>3 DEF Return
<1> QED
  BY <1>1, <1>2, <1>3 DEF Task

(* There are three tasks, and of those that run at most one more after Go.  *)
LEMMA ActiveFinite == IsFiniteSet(Active)
<1>1. IsFiniteSet(Tasks)
  <2>1. IsFiniteSet({"save"}) /\ IsFiniteSet({"tests"}) /\ IsFiniteSet({"proto"})
    BY FS_Singleton
  <2>2. Tasks = ({"save"} \cup {"tests"}) \cup {"proto"}
    BY DEF Tasks
  <2> QED
    BY <2>1, <2>2, FS_Union
<1> QED
  BY <1>1, FS_Subset DEF Active

LEMMA WithinTwo ==
  ASSUME Cardinality(Active) <= 2, NEW S \in SUBSET Active PROVE Cardinality(S) <= 2
<1>1. Cardinality(S) \in Nat /\ Cardinality(Active) \in Nat /\ Cardinality(S) <= Cardinality(Active)
  BY ActiveFinite, FS_Subset, FS_CardinalityType
<1> QED
  BY <1>1

LEMMA OneMore ==
  ASSUME WithinLimit, NEW t, NEW S \in SUBSET (Active \cup {t}) PROVE Cardinality(S) <= 2
<1>1. Cardinality(Active) < 2 /\ Cardinality(Active) \in Nat
  BY ActiveFinite, FS_CardinalityType DEF WithinLimit, Active
<1>2. IsFiniteSet(Active \cup {t}) /\ Cardinality(Active \cup {t}) <= 2
  BY <1>1, ActiveFinite, FS_AddElement
<1>3. Cardinality(S) \in Nat /\ Cardinality(S) <= Cardinality(Active \cup {t}) /\ Cardinality(Active \cup {t}) \in Nat
  BY <1>2, FS_Subset, FS_CardinalityType
<1> QED
  BY <1>2, <1>3

-----------------------------------------------------------------------------
(* TypeOK in its three parts, before a step and after it.                   *)
LEMMA TypeParts ==
  TypeOK <=> Typed /\ Cardinality(Active) <= 2 /\ (pc = "returned" => \A f \in GoFiles : temp[f] = "none")
BY DEF TypeOK, Typed, Active, GoFiles

LEMMA NextTypeParts ==
  TypeOK' <=> Typed' /\ Cardinality(Active') <= 2 /\ (pc' = "returned" => \A f \in GoFiles : temp'[f] = "none")
BY DEF TypeOK, Typed, Active, GoFiles

(* The tasks to start are those asked for.                                  *)
LEMMA InitTodo ==
  ASSUME Init PROVE todo \in Seq(Tasks) /\ \A t \in AskedTasks : \E i \in DOMAIN todo : todo[i] = t
<1>a. <<"save">> \o <<>> = <<"save">>
  OBVIOUS
<1>b. <<"save">> \o <<"tests">> = Append(<<"save">>, "tests") /\ <<"save", "tests">> = Append(<<"save">>, "tests")
  OBVIOUS
<1>c. <<"save">> \o <<"proto">> = Append(<<"save">>, "proto") /\ <<"save", "proto">> = Append(<<"save">>, "proto")
  OBVIOUS
<1>d. <<"save", "tests">> \o <<>> = <<"save", "tests">>
  OBVIOUS
<1>e. <<"save", "tests">> \o <<"proto">> = Append(<<"save", "tests">>, "proto")
  OBVIOUS
<1>f. <<"save", "tests", "proto">> = Append(<<"save", "tests">>, "proto")
  OBVIOUS
<1> USE DEF Init, AskedTasks, Tasks
<1>1. CASE dest = "none" /\ ~proto
  BY <1>1
<1>2. CASE dest = "none" /\ proto
  <2>1. todo = <<"proto">>
    BY <1>2
  <2> QED
    BY <1>2, <2>1
<1>3. CASE dest = "stdout" /\ ~proto
  <2>1. todo = <<"save">>
    BY <1>3
  <2> QED
    BY <1>3, <2>1
<1>4. CASE dest = "stdout" /\ proto
  <2>1. todo = <<"save", "proto">>
    BY <1>a, <1>b, <1>c, <1>d, <1>e, <1>f, <1>4
  <2> QED
    BY <1>4, <2>1
<1>5. CASE dest = "file" /\ ~proto
  <2>1. todo = <<"save", "tests">>
    BY <1>a, <1>b, <1>c, <1>d, <1>e, <1>f, <1>5
  <2> QED
    BY <1>5, <2>1
<1>6. CASE dest = "file" /\ proto
  <2>1. todo = <<"save", "tests", "proto">>
    BY <1>a, <1>b, <1>c, <1>d, <1>e, <1>f, <1>6
  <2> QED
    BY <1>6, <2>1
<1> QED
  BY <1>1, <1>2, <1>3, <1>4, <1>5, <1>6

(* Before the files are made.                                               *)
LEMMA InitIInv == Init => IInv
<1> SUFFICES ASSUME Init PROVE IInv
  OBVIOUS
<1>0. functions \in Seq(Kinds) /\ Len(functions) <= MaxFuns /\ Len(functions) \in Nat
  BY GenerateAssumption DEF Init
<1>1. TypeOK
  <2>1. todo \in Seq(Tasks)
    BY InitTodo
  <2>2. Active = {}
    BY DEF Init, Active
  <2>3. Cardinality(Active) <= 2
    BY <2>2, FS_EmptySet
  <2>4. pc \in {"out", "go"} /\ index \in 1..(Len(functions) + 1)
    BY <1>0 DEF Init
  <2>5. Typed
    BY <1>0, <2>1, <2>4 DEF Init, Typed, GoFiles, Errors
  <2> QED
    BY <2>3, <2>4, <2>5, TypeParts
<1>2. TaskInv
  BY InitTodo DEF Init, TaskInv, AllDone, AfterWait
<1>3. ErrInv /\ SaveInv /\ PendingInv /\ ProtoInv /\ ReplacedOnlyAtTheEnd
  BY DEF Init, ErrInv, SaveInv, PendingInv, ProtoInv, ProtoEnded, Finished, ReplacedOnlyAtTheEnd, AfterWait, GoFiles,
         Files, Tasks
<1> QED
  BY <1>1, <1>2, <1>3 DEF IInv

-----------------------------------------------------------------------------
(* The tasks run while the caller starts them and waits for them, and leave *)
(* alone what is the caller's.                                              *)
LEMMA TaskFrame ==
  ASSUME IInv, Alive, Task
  PROVE pc = "go" /\ pc' = pc /\ todo' = todo /\ retErr' = retErr /\ args' = args /\ ctxDone' = ctxDone
<1>1. pc = "go"
  BY TaskRuns DEF IInv, TaskInv, TypeOK, Alive, AfterWait, AllDone
<1> USE DEF args
<1>2. CASE SaveBegin \/ SaveStruct \/ SaveText \/ SaveTail \/ SaveTests
  BY <1>1, <1>2 DEF SaveBegin, SaveStruct, SaveText, SaveTail, SaveTests
<1>3. CASE CreateProto \/ SaveProtobuf \/ Protoc \/ Sed
  BY <1>1, <1>3 DEF CreateProto, SaveProtobuf, Protoc, Sed
<1>4. CASE \E t \in Tasks : Return(t)
  BY <1>1, <1>4 DEF Return
<1> QED
  BY <1>1, <1>2, <1>3, <1>4 DEF Task

(* A running task goes on, ends or is done: none begins.                    *)
LEMMA TaskGoesOn ==
  ASSUME Typed, Task
  PROVE \A t \in Tasks : (task[t] \in {"none", "done"} => task'[t] = task[t]) /\ (task[t] # "none" => task'[t] # "none")
<1> USE DEF Typed, Tasks
<1>1. CASE SaveBegin
  BY <1>1 DEF SaveBegin
<1>2. CASE SaveStruct
  BY <1>2 DEF SaveStruct, Saving
<1>3. CASE SaveText
  BY <1>3 DEF SaveText, Saving
<1>4. CASE SaveTail
  BY <1>4 DEF SaveTail, Saving
<1>5. CASE SaveTests
  BY <1>5 DEF SaveTests
<1>6. CASE CreateProto
  BY <1>6 DEF CreateProto, Proto
<1>7. CASE SaveProtobuf
  BY <1>7 DEF SaveProtobuf, Proto
<1>8. CASE Protoc
  BY <1>8 DEF Protoc, Proto
<1>9. CASE Sed
  BY <1>9 DEF Sed, Proto
<1>10. CASE \E t \in Tasks : Return(t)
  BY <1>10 DEF Return
<1> QED
  BY <1>1, <1>2, <1>3, <1>4, <1>5, <1>6, <1>7, <1>8, <1>9, <1>10 DEF Task

LEMMA TaskShrinks == ASSUME Typed, Task PROVE Active' \in SUBSET Active
BY TaskGoesOn DEF Active

(* Every value stays in its range: the caller's steps.                      *)
LEMMA CallerTyped == ASSUME Typed, TaskInv, PendingInv, Caller PROVE Typed'
<1> USE DEF Typed, args, content, Fails
<1>1. ASSUME NEW f \in GoFiles, NEW from, NEW to \in {"test", "go"}, NewPendingFile(f, from, to) PROVE Typed'
  <2>1. PICK ok \in BOOLEAN : /\ failed' = (failed \/ ~ok)
                              /\ ok => temp' = [temp EXCEPT ![f] = "part"] /\ disk' = disk /\ pc' = to /\ retErr' = retErr
                              /\ ~ok => retErr' = "create" /\ pc' = "cleanup" /\ temp' = temp /\ disk' = disk
    BY <1>1 DEF NewPendingFile, Aside
  <2>2. temp' \in [GoFiles -> {"none", "part", "whole"}] /\ disk' = disk /\ retErr' \in Errors
    BY <2>1 DEF Errors
  <2>3. pc' \in {"test", "go", "cleanup"} /\ failed' \in BOOLEAN
    BY <2>1
  <2> QED
    BY <1>1, <2>2, <2>3 DEF NewPendingFile
<1>2. CASE PendingOut \/ PendingTest
  BY <1>1, <1>2 DEF PendingOut, PendingTest, GoFiles
<1>3. CASE Go
  <2>1. Head(todo) \in Tasks /\ Tail(todo) \in Seq(Tasks)
    BY <1>3 DEF Go
  <2> QED
    BY <1>3, <2>1 DEF Go
<1>4. CASE Wait
  BY <1>4 DEF Wait, WaitError
<1>5. CASE Replace
  <2>1. PICK done \in SUBSET {"out", "test"} :
          /\ failed' = (failed \/ done # {"out", "test"})
          /\ disk' = [f \in Files |-> IF f \in done THEN temp[f] ELSE disk[f]]
          /\ temp' = [f \in {"out", "test"} |-> IF f \in done THEN "none" ELSE temp[f]]
    BY <1>5 DEF Replace
  <2>2. \A f \in GoFiles : temp[f] \in {"part", "whole"}
    BY <1>5 DEF Replace, TaskInv, PendingInv
  <2>3. disk' \in [Files -> {"old", "part", "whole"}]
    BY <2>1, <2>2 DEF GoFiles
  <2>4. temp' \in [GoFiles -> {"none", "part", "whole"}] /\ failed' \in BOOLEAN
    BY <2>1 DEF GoFiles
  <2> QED
    BY <1>5, <2>3, <2>4 DEF Replace
<1>6. CASE Cleanup
  BY <1>6 DEF Cleanup, Cleaned, GoFiles
<1> QED
  BY <1>2, <1>3, <1>4, <1>5, <1>6 DEF Caller

(* Every value stays in its range: the tasks' steps.                        *)
LEMMA TaskTyped == ASSUME Typed, Task, SaveInv PROVE Typed'
<1> USE DEF Typed, args, content, Fails, Errors, Tasks, Files
<1>0. Len(functions) \in Nat
  OBVIOUS
<1>1. CASE SaveBegin
  BY <1>1 DEF SaveBegin, AfterWrite
<1>2. CASE SaveStruct
  BY <1>0, <1>2 DEF SaveStruct, Saving
<1>3. CASE SaveText
  <2>1. index' \in 1..(Len(functions) + 1)
    BY <1>0, <1>3 DEF SaveText, SaveInv
  <2>2. PICK sql, go \in BOOLEAN :
          LET e == FormatError(functions[index])
          IN /\ e # "nil" => go
             /\ Fails(sql /\ go)
             /\ hole' = [hole EXCEPT !["out"] = @ \/ ~Written(sql, err["save"]) \/ ~Written(go, e)
                                                \/ functions[index] = "broken"]
             /\ Saving(AfterWrite(go, e), IF e = "nil" THEN "struct" ELSE "end")
    BY <1>3 DEF SaveText
  <2>3. hole' \in [Files -> BOOLEAN] /\ failed' \in BOOLEAN
    BY <2>2 DEF Written
  <2>4. err' \in [Tasks -> Errors] /\ task' \in [Tasks -> {"none", "begin", "struct", "text", "protoc", "sed", "end", "done"}]
    BY <2>2 DEF Saving, AfterWrite, FormatError
  <2> QED
    BY <1>3, <2>1, <2>3, <2>4 DEF SaveText
<1>4. CASE SaveTail
  BY <1>4 DEF SaveTail, Saving, AfterWrite, Written
<1>5. CASE SaveTests
  BY <1>5 DEF SaveTests
<1>6. CASE CreateProto
  BY <1>6 DEF CreateProto, Proto
<1>7. CASE SaveProtobuf
  <2>1. PICK ok, closed \in BOOLEAN :
          /\ Fails(ok /\ closed)
          /\ hole' = [hole EXCEPT !["proto"] = ~ok]
          /\ disk' = [disk EXCEPT !["proto"] = IF ok /\ closed /\ ~Stopping THEN "whole" ELSE "part"]
          /\ IF Stopping \/ ~closed
             THEN Proto(IF Stopping THEN "missing" ELSE "write", "end")
             ELSE Proto("nil", "protoc")
    BY <1>7 DEF SaveProtobuf
  <2>2. hole' \in [Files -> BOOLEAN] /\ failed' \in BOOLEAN /\ disk' \in [Files -> {"old", "part", "whole"}]
    BY <2>1
  <2>3. err' \in [Tasks -> Errors] /\ task' \in [Tasks -> {"none", "begin", "struct", "text", "protoc", "sed", "end", "done"}]
    BY <2>1 DEF Proto
  <2> QED
    BY <1>7, <2>2, <2>3 DEF SaveProtobuf
<1>8. CASE Protoc
  BY <1>8 DEF Protoc, Proto, ExitError
<1>9. CASE Sed
  BY <1>9 DEF Sed, Proto, ExitError
<1>10. ASSUME NEW t \in Tasks, Return(t) PROVE Typed'
  <2>1. temp' \in [GoFiles -> {"none", "part", "whole"}]
    BY <1>10 DEF Return, GoFiles
  <2>2. task' \in [Tasks -> {"none", "begin", "struct", "text", "protoc", "sed", "end", "done"}] /\ grpErr' \in Errors
    BY <1>10 DEF Return
  <2> QED
    BY <1>10, <2>1, <2>2 DEF Return
<1> QED
  BY <1>1, <1>2, <1>3, <1>4, <1>5, <1>6, <1>7, <1>8, <1>9, <1>10 DEF Task

(* Every value stays in its range, and two tasks run at most.               *)
LEMMA StepTypeOK == IInv /\ [Next]_vars => TypeOK'
<1> SUFFICES ASSUME IInv, [Next]_vars PROVE TypeOK'
  OBVIOUS
<1>0. Typed /\ Cardinality(Active) <= 2 /\ (pc = "returned" => \A f \in GoFiles : temp[f] = "none")
  BY TypeParts DEF IInv
<1>1. CASE Caller
  <2>1. Typed'
    BY <1>0, <1>1, CallerTyped DEF IInv
  <2>2. Cardinality(Active') <= 2
    <3>1. CASE Go
      <4>1. Active' \in SUBSET (Active \cup {Head(todo)})
        BY <1>0, <3>1 DEF Go, Active, Typed
      <4> QED
        BY <3>1, <4>1, OneMore DEF Go
    <3>2. CASE ~Go
      <4>1. task' = task
        BY <1>1, <3>2 DEF Caller, PendingOut, PendingTest, NewPendingFile, Wait, Replace, Cleanup
      <4> QED
        BY <1>0, <4>1 DEF Active
    <3> QED
      BY <3>1, <3>2
  <2>3. pc' = "returned" => \A f \in GoFiles : temp'[f] = "none"
    BY <1>1 DEF Caller, PendingOut, PendingTest, NewPendingFile, Go, Wait, Replace, Cleanup, Cleaned, GoFiles
  <2> QED
    BY <2>1, <2>2, <2>3, NextTypeParts
<1>2. CASE Alive /\ Task
  <2>1. Typed'
    BY <1>0, <1>2, TaskTyped DEF IInv
  <2>2. Cardinality(Active') <= 2
    BY <1>0, <1>2, TaskShrinks, WithinTwo
  <2>3. pc' # "returned"
    BY <1>2, TaskFrame
  <2> QED
    BY <2>1, <2>2, <2>3, NextTypeParts
<1>3. CASE Interrupt \/ Dies
  <2>1. Typed' /\ task' = task /\ pc' # "returned"
    BY <1>0, <1>3 DEF Interrupt, Dies, Alive, Typed, args, content
  <2>2. Active' = Active
    BY <2>1 DEF Active
  <2> QED
    BY <1>0, <2>1, <2>2, NextTypeParts
<1>4. CASE UNCHANGED vars
  BY <1>0, <1>4 DEF IInv, TypeOK, vars, args, content
<1> QED
  BY <1>1, <1>2, <1>3, <1>4 DEF Next, Panics, Terminated

-----------------------------------------------------------------------------
(* No task asked for is forgotten.                                          *)
LEMMA StepTask == IInv /\ [Next]_vars => TaskInv'
<1> SUFFICES ASSUME IInv, [Next]_vars PROVE TaskInv'
  OBVIOUS
<1>0. Typed /\ TaskInv
  BY TypeParts DEF IInv
<1> USE DEF args, content
<1>1. CASE PendingOut \/ PendingTest
  <2>1. pc \in {"out", "test"} /\ pc' \in {"test", "go", "cleanup"} /\ UNCHANGED <<args, todo, task>>
    BY <1>1 DEF PendingOut, PendingTest, NewPendingFile
  <2>2. pc' = "cleanup" => retErr' = "create"
    BY <1>1 DEF PendingOut, PendingTest, NewPendingFile
  <2> QED
    BY <1>0, <2>1, <2>2 DEF TaskInv, AllDone, AfterWait, AskedTasks
<1>2. CASE Go
  <2>1. pc = "go" /\ UNCHANGED <<args, pc>> /\ todo # <<>> /\ Head(todo) \in Tasks
    BY <1>0, <1>2 DEF Go, Typed
  <2>2. task'[Head(todo)] = "begin" /\ \A t \in Tasks : task[t] # "none" => task'[t] # "none"
    BY <1>0, <1>2, <2>1 DEF Go, Typed
  <2>3. ASSUME NEW t \in AskedTasks PROVE task'[t] # "none" \/ \E i \in DOMAIN todo' : todo'[i] = t
    <3>1. CASE task[t] # "none" \/ t = Head(todo)
      BY <2>2, <3>1 DEF AskedTasks
    <3>2. CASE task[t] = "none" /\ t # Head(todo)
      <4>1. PICK i \in DOMAIN todo : todo[i] = t
        BY <1>0, <3>2 DEF TaskInv
      <4>2. i \in 2..Len(todo)
        BY <1>0, <2>1, <3>2, <4>1 DEF Typed
      <4>3. i - 1 \in DOMAIN Tail(todo) /\ Tail(todo)[i - 1] = t
        BY <1>0, <2>1, <4>1, <4>2 DEF Typed
      <4> QED
        BY <1>2, <4>3 DEF Go
    <3> QED
      BY <3>1, <3>2
  <2> QED
    BY <1>0, <2>1, <2>3 DEF TaskInv, AfterWait, AskedTasks
<1>3. CASE Wait
  <2>1. \A t \in AskedTasks : task[t] = "done"
    BY <1>0, <1>3 DEF Wait, TaskInv, AllDone, AskedTasks
  <2> QED
    BY <1>0, <1>3, <2>1 DEF Wait, TaskInv, AllDone, AfterWait, AskedTasks
<1>4. CASE Replace \/ Cleanup
  <2>1. pc \in AfterWait /\ pc' \in {"cleanup", "returned"} /\ UNCHANGED <<args, todo, task, retErr>>
    BY <1>4 DEF Replace, Cleanup, AfterWait
  <2> QED
    BY <1>0, <2>1 DEF TaskInv, AllDone, AfterWait, AskedTasks
<1>5. CASE Alive /\ Task
  <2>1. pc' = "go" /\ todo' = todo /\ UNCHANGED args
    BY <1>5, TaskFrame
  <2>2. \A t \in Tasks : task[t] # "none" => task'[t] # "none"
    BY <1>0, <1>5, TaskGoesOn
  <2> QED
    BY <1>0, <2>1, <2>2 DEF TaskInv, AfterWait, AskedTasks
<1>6. CASE Interrupt \/ Dies
  <2>1. pc' \in {pc, "dead"} /\ UNCHANGED <<args, todo, task, retErr>>
    BY <1>6 DEF Interrupt, Dies
  <2> QED
    BY <1>0, <2>1 DEF TaskInv, AllDone, AfterWait, AskedTasks
<1>7. CASE UNCHANGED vars
  BY <1>0, <1>7 DEF vars, TaskInv, AllDone, AfterWait, AskedTasks
<1> QED
  BY <1>1, <1>2, <1>3, <1>4, <1>5, <1>6, <1>7 DEF Next, Caller, Panics, Terminated

-----------------------------------------------------------------------------
(* A task changes its own place and error, and files of its own.            *)
LEMMA SaveFrame ==
  ASSUME Typed, SaveBegin \/ SaveStruct \/ SaveText \/ SaveTail
  PROVE /\ task["save"] \in {"begin", "struct", "text"} /\ task'["save"] \in {"struct", "text", "end"}
        /\ \A t \in {"tests", "proto"} : task'[t] = task[t] /\ err'[t] = err[t]
        /\ hole'["test"] = hole["test"]
        /\ UNCHANGED <<temp, disk, grpErr>> /\ (failed => failed')
<1> USE DEF Typed, Tasks, Files, Fails, content
<1>1. CASE SaveBegin
  BY <1>1 DEF SaveBegin
<1>2. CASE SaveStruct
  BY <1>2 DEF SaveStruct, Saving
<1>3. CASE SaveText
  BY <1>3 DEF SaveText, Saving
<1>4. CASE SaveTail
  BY <1>4 DEF SaveTail, Saving
<1> QED
  BY <1>1, <1>2, <1>3, <1>4

LEMMA TestsFrame ==
  ASSUME Typed, SaveTests
  PROVE /\ task["tests"] = "begin" /\ task'["tests"] = "end"
        /\ \A t \in {"save", "proto"} : task'[t] = task[t]
        /\ hole'["out"] = hole["out"]
        /\ UNCHANGED <<index, err, temp, disk, grpErr>> /\ (failed => failed')
BY DEF SaveTests, Typed, Tasks, Files, Fails

LEMMA ProtoFrame ==
  ASSUME Typed, CreateProto \/ SaveProtobuf \/ Protoc \/ Sed
  PROVE /\ task["proto"] \in {"begin", "struct", "protoc", "sed"} /\ task'["proto"] \in {"struct", "protoc", "sed", "end"}
        /\ \A t \in {"save", "tests"} : task'[t] = task[t] /\ err'[t] = err[t]
        /\ \A f \in GoFiles : hole'[f] = hole[f] /\ disk'[f] = disk[f]
        /\ UNCHANGED <<index, temp, grpErr>> /\ (failed => failed')
<1> USE DEF Typed, Tasks, Files, GoFiles, Fails
<1>1. CASE CreateProto
  BY <1>1 DEF CreateProto, Proto
<1>2. CASE SaveProtobuf
  <2>1. \A t \in {"save", "tests"} : task'[t] = task[t] /\ err'[t] = err[t]
    BY <1>2 DEF SaveProtobuf, Proto
  <2>2. \A f \in GoFiles : hole'[f] = hole[f] /\ disk'[f] = disk[f]
    BY <1>2 DEF SaveProtobuf
  <2>3. task["proto"] = "struct" /\ task'["proto"] \in {"protoc", "end"} /\ UNCHANGED <<index, temp, grpErr>> /\ (failed => failed')
    BY <1>2 DEF SaveProtobuf, Proto
  <2> QED
    BY <2>1, <2>2, <2>3
<1>3. CASE Protoc
  BY <1>3 DEF Protoc, Proto
<1>4. CASE Sed
  BY <1>4 DEF Sed, Proto
<1> QED
  BY <1>1, <1>2, <1>3, <1>4

LEMMA ReturnFrame ==
  ASSUME Typed, NEW t \in Tasks, Return(t)
  PROVE /\ task[t] = "end" /\ task'[t] = "done" /\ \A u \in Tasks \ {t} : task'[u] = task[u]
        /\ UNCHANGED <<index, err, hole, disk, failed>>
        /\ grpErr' = IF grpErr = "nil" THEN err[t] ELSE grpErr
BY DEF Return, Typed

(* No task has begun before the files are made; Go begins one.              *)
LEMMA GoFrame ==
  ASSUME Typed, Go
  PROVE \A t \in Tasks : task'[t] = task[t] \/ task'[t] = "begin"
BY DEF Go, Typed

-----------------------------------------------------------------------------
(* An error stays where the next one looks for it.                          *)
LEMMA StepErr == IInv /\ [Next]_vars => ErrInv'
<1> SUFFICES ASSUME IInv, [Next]_vars PROVE ErrInv'
  OBVIOUS
<1>0. Typed /\ ErrInv
  BY TypeParts DEF IInv
<1> USE DEF content
<1>1. CASE PendingOut \/ PendingTest
  <2>1. UNCHANGED <<task, err, grpErr>> /\ pc \in {"out", "test"} /\ (pc' \in {"test", "go"} \/ retErr' = "create")
    BY <1>1 DEF PendingOut, PendingTest, NewPendingFile
  <2> QED
    BY <1>0, <2>1 DEF ErrInv, AfterWait
<1>2. CASE Go
  <2>1. UNCHANGED <<err, grpErr>> /\ pc' = "go"
    BY <1>2 DEF Go
  <2> QED
    BY <1>0, <1>2, <2>1, GoFrame DEF ErrInv, AfterWait
<1>3. CASE Wait
  BY <1>0, <1>3 DEF Wait, WaitError, ErrInv, AfterWait
<1>4. CASE Replace \/ Cleanup
  <2>1. UNCHANGED <<task, err, grpErr, retErr>> /\ pc \in AfterWait
    BY <1>4 DEF Replace, Cleanup, AfterWait
  <2> QED
    BY <1>0, <2>1 DEF ErrInv
<1>5. CASE Alive /\ Task
  <2>0. pc' \notin AfterWait
    BY <1>5, TaskFrame DEF AfterWait
  <2>1. CASE SaveBegin \/ SaveStruct \/ SaveText \/ SaveTail
    BY <1>0, <2>0, <2>1, SaveFrame DEF ErrInv, Tasks
  <2>2. CASE SaveTests
    BY <1>0, <2>0, <2>2, TestsFrame DEF ErrInv, Tasks
  <2>3. CASE CreateProto \/ SaveProtobuf \/ Protoc \/ Sed
    BY <1>0, <2>0, <2>3, ProtoFrame DEF ErrInv, Tasks
  <2>4. ASSUME NEW t \in Tasks, Return(t) PROVE ErrInv'
    <3>1. \A u \in Tasks : task'[u] = "none" => err'[u] = "nil"
      BY <1>0, <2>4, ReturnFrame DEF ErrInv
    <3>2. \A u \in Tasks : task'[u] = "done" /\ err'[u] # "nil" => grpErr' # "nil"
      BY <1>0, <2>4, ReturnFrame DEF ErrInv
    <3> QED
      BY <2>0, <3>1, <3>2 DEF ErrInv
  <2> QED
    BY <1>5, <2>1, <2>2, <2>3, <2>4 DEF Task
<1>6. CASE Interrupt \/ Dies
  <2>1. UNCHANGED <<task, err, grpErr, retErr>> /\ pc' \in {pc, "dead"}
    BY <1>6 DEF Interrupt, Dies
  <2> QED
    BY <1>0, <2>1 DEF ErrInv, AfterWait
<1>7. CASE UNCHANGED vars
  BY <1>0, <1>7 DEF vars, ErrInv, AfterWait
<1> QED
  BY <1>1, <1>2, <1>3, <1>4, <1>5, <1>6, <1>7 DEF Next, Caller, Panics, Terminated

(* The writers' holes.                                                      *)
LEMMA StepSave == IInv /\ [Next]_vars => SaveInv'
<1> SUFFICES ASSUME IInv, [Next]_vars PROVE SaveInv'
  OBVIOUS
<1>0. Typed /\ SaveInv /\ Len(functions) \in Nat
  BY TypeParts DEF IInv, Typed
<1> USE DEF content, args, Fails
<1>1. CASE PendingOut \/ PendingTest \/ Wait \/ Replace \/ Cleanup \/ Interrupt \/ Dies
  <2>1. UNCHANGED <<functions, task, err, hole, index>> /\ (failed => failed')
    <3>1. CASE PendingOut \/ PendingTest
      BY <3>1 DEF PendingOut, PendingTest, NewPendingFile
    <3>2. CASE Wait \/ Cleanup \/ Interrupt \/ Dies
      BY <3>2 DEF Wait, Cleanup, Interrupt, Dies
    <3>3. CASE Replace
      BY <3>3 DEF Replace
    <3> QED
      BY <1>1, <3>1, <3>2, <3>3
  <2> QED
    BY <1>0, <2>1 DEF SaveInv
<1>2. CASE Go
  <2>1. UNCHANGED <<functions, err, hole, index, failed>>
    BY <1>2 DEF Go
  <2> QED
    BY <1>0, <1>2, <2>1, GoFrame DEF SaveInv, Tasks
<1>3. CASE Alive /\ Task
  <2>0. functions' = functions
    BY <1>3, TaskFrame
  <2>1. CASE SaveBegin \/ SaveStruct \/ SaveText \/ SaveTail
    <3>1. ~failed' /\ task'["tests"] = "end" => ~hole'["test"]
      BY <1>0, <2>1, SaveFrame DEF SaveInv
    <3>2. CASE SaveBegin
      BY <1>0, <2>0, <3>1, <3>2 DEF SaveBegin, SaveInv, Typed, Tasks, Files
    <3>3. CASE SaveStruct
      BY <1>0, <2>0, <3>1, <3>3 DEF SaveStruct, Saving, SaveInv, Typed, Tasks, Files
    <3>4. CASE SaveText
      <4>1. PICK sql, go \in BOOLEAN :
              LET e == FormatError(functions[index])
              IN /\ e # "nil" => go
                 /\ Fails(sql /\ go)
                 /\ hole' = [hole EXCEPT !["out"] = @ \/ ~Written(sql, err["save"]) \/ ~Written(go, e)
                                                    \/ functions[index] = "broken"]
                 /\ Saving(AfterWrite(go, e), IF e = "nil" THEN "struct" ELSE "end")
        BY <3>4 DEF SaveText
      <4>2. CASE failed'
        <5>1. task'["save"] # "text"
          BY <1>0, <4>1 DEF Saving, Typed, Tasks
        <5> QED
          BY <4>2, <5>1 DEF SaveInv
      <4>3. CASE ~failed'
        <5>1. sql = TRUE /\ go = TRUE /\ err["save"] = "nil" /\ ~hole["out"]
          BY <1>0, <3>4, <4>1, <4>3 DEF SaveInv, SaveText
        <5>2. CASE functions[index] = "broken"
          BY <1>0, <3>1, <4>1, <5>1, <5>2 DEF FormatError, Saving, AfterWrite, SaveInv, Typed, Tasks
        <5>3. CASE functions[index] # "broken"
          <6>1. task'["save"] = "struct" /\ ~hole'["out"]
            BY <1>0, <4>1, <5>1, <5>3 DEF FormatError, Saving, Written, Typed, Tasks, Files
          <6> QED
            BY <3>1, <6>1 DEF SaveInv
        <5> QED
          BY <5>2, <5>3
      <4> QED
        BY <4>2, <4>3
    <3>5. CASE SaveTail
      <4>1. PICK ok \in BOOLEAN :
              /\ Fails(ok)
              /\ hole' = [hole EXCEPT !["out"] = @ \/ ~Written(ok, err["save"])]
              /\ Saving(AfterWrite(ok, err["save"]), "end")
        BY <3>5 DEF SaveTail
      <4>2. task'["save"] = "end" /\ err'["save"] = AfterWrite(ok, err["save"])
        BY <1>0, <4>1 DEF Saving, Typed, Tasks
      <4>3. ~failed' /\ err'["save"] = "nil" => ~hole'["out"]
        BY <1>0, <3>5, <4>1, <4>2 DEF AfterWrite, Written, SaveInv, SaveTail, Typed, Files
      <4> QED
        BY <3>1, <4>2, <4>3 DEF SaveInv
    <3> QED
      BY <2>1, <3>2, <3>3, <3>4, <3>5
  <2>2. CASE SaveTests
    <3>1. ~failed' => ~hole'["test"]
      BY <1>0, <2>2 DEF SaveTests, Typed, Files
    <3> QED
      BY <1>0, <2>0, <2>2, <3>1, TestsFrame DEF SaveInv
  <2>3. CASE CreateProto \/ SaveProtobuf \/ Protoc \/ Sed
    BY <1>0, <2>0, <2>3, ProtoFrame DEF SaveInv, GoFiles
  <2>4. ASSUME NEW t \in Tasks, Return(t) PROVE SaveInv'
    <3>1. \A u \in Tasks : task'[u] = task[u] \/ task'[u] = "done"
      BY <1>0, <2>4, ReturnFrame
    <3>2. UNCHANGED <<index, err, hole, failed>>
      BY <1>0, <2>4, ReturnFrame
    <3> QED
      BY <1>0, <2>0, <3>1, <3>2 DEF SaveInv, Tasks
  <2> QED
    BY <1>3, <2>1, <2>2, <2>3, <2>4 DEF Task
<1>4. CASE UNCHANGED vars
  BY <1>0, <1>4 DEF vars, SaveInv
<1> QED
  BY <1>1, <1>2, <1>3, <1>4 DEF Next, Caller, Panics, Terminated

(* The pending files: a task that returned no error has made its file whole *)
(* or had a write fail.                                                     *)
LEMMA StepPending == IInv /\ [Next]_vars => PendingInv'
<1> SUFFICES ASSUME IInv, [Next]_vars PROVE PendingInv'
  OBVIOUS
<1>0. Typed /\ TaskInv /\ ErrInv /\ SaveInv /\ PendingInv
  BY TypeParts DEF IInv
<1> USE DEF args, content, GoFiles
<1>1. CASE PendingOut
  <2>1. pc' = "test" => temp'["out"] = "part"
    BY <1>0, <1>1 DEF PendingOut, NewPendingFile, Typed
  <2>2. pc' = "test" \/ (pc' = "cleanup" /\ retErr' # "nil")
    BY <1>1 DEF PendingOut, NewPendingFile
  <2> QED
    BY <2>1, <2>2 DEF PendingInv
<1>2. CASE PendingTest
  <2>1. pc' = "go" => temp'["out"] = "part" /\ temp'["test"] = "part"
    BY <1>0, <1>2 DEF PendingTest, NewPendingFile, PendingInv, Typed
  <2>2. pc' = "go" \/ (pc' = "cleanup" /\ retErr' # "nil")
    BY <1>2 DEF PendingTest, NewPendingFile
  <2>3. ~Finished("save")' /\ ~Finished("tests")'
    BY <1>0, <1>2 DEF PendingTest, NewPendingFile, TaskInv, Finished, Tasks
  <2> QED
    BY <2>1, <2>2, <2>3 DEF PendingInv
<1>3. CASE Go
  <2>1. pc = "go" /\ UNCHANGED <<args, pc, err, content, failed>>
    BY <1>3 DEF Go
  <2>2. \A t \in Tasks : Finished(t)' => Finished(t)
    BY <1>0, <1>3, <2>1, GoFrame DEF Finished
  <2> QED
    BY <1>0, <2>1, <2>2 DEF PendingInv, Tasks
<1>4. CASE Wait
  <2>1. pc = "go" /\ pc' = (IF dest = "file" THEN "replace" ELSE "cleanup")
        /\ UNCHANGED <<args, task, err, content, failed>>
    BY <1>4 DEF Wait
  <2>2. \A t \in Tasks : Finished(t)' = Finished(t)
    BY <2>1 DEF Finished
  <2> QED
    BY <1>0, <2>1, <2>2 DEF PendingInv, Tasks
<1>5. CASE Replace
  <2>1. PICK done \in SUBSET {"out", "test"} :
          /\ failed' = (failed \/ done # {"out", "test"})
          /\ disk' = [f \in Files |-> IF f \in done THEN temp[f] ELSE disk[f]]
    BY <1>5 DEF Replace, Fails
  <2>2. pc = "replace" /\ pc' = "cleanup" /\ dest = "file" /\ UNCHANGED <<args, retErr>>
    BY <1>0, <1>5 DEF Replace, TaskInv
  <2>3. ASSUME retErr = "nil", ~failed' PROVE \A f \in GoFiles : disk'[f] = "whole"
    <3>1. \A t \in {"save", "tests"} : t \in AskedTasks
      BY <2>2 DEF AskedTasks, Tasks
    <3>2. \A t \in {"save", "tests"} : task[t] = "done"
      BY <1>0, <2>2, <2>3, <3>1 DEF TaskInv, AfterWait
    <3>3. \A t \in {"save", "tests"} : Finished(t)
      BY <1>0, <2>2, <2>3, <3>2 DEF ErrInv, AfterWait, Finished, Tasks
    <3>4. ~failed /\ done = {"out", "test"}
      BY <2>1, <2>3
    <3>5. \A f \in GoFiles : temp[f] = "whole"
      BY <1>0, <2>2, <3>3, <3>4 DEF PendingInv
    <3> QED
      BY <2>1, <3>4, <3>5 DEF Files
  <2> QED
    BY <2>2, <2>3 DEF PendingInv
<1>6. CASE Cleanup
  <2>1. pc = "cleanup" /\ pc' = "returned" /\ UNCHANGED <<args, disk, retErr, failed>>
    BY <1>6 DEF Cleanup
  <2> QED
    BY <1>0, <2>1 DEF PendingInv
<1>7. CASE Alive /\ Task
  <2>0. pc = "go" /\ pc' = "go" /\ UNCHANGED args
    BY <1>7, TaskFrame
  <2>1. CASE SaveBegin \/ SaveStruct \/ SaveText \/ SaveTail
    BY <1>0, <2>0, <2>1, SaveFrame DEF PendingInv, Finished
  <2>2. CASE SaveTests
    BY <1>0, <2>0, <2>2, TestsFrame DEF PendingInv, Finished
  <2>3. CASE CreateProto \/ SaveProtobuf \/ Protoc \/ Sed
    BY <1>0, <2>0, <2>3, ProtoFrame DEF PendingInv, Finished
  <2>4. CASE Return("proto")
    <3>1. UNCHANGED <<temp, err, failed>> /\ task'["save"] = task["save"] /\ task'["tests"] = task["tests"]
      BY <1>0, <2>4 DEF Return, Typed, Tasks
    <3> QED
      BY <1>0, <2>0, <3>1 DEF PendingInv, Finished
  <2>5. CASE Return("save")
    <3>1. UNCHANGED <<err, failed>> /\ task["save"] = "end" /\ task'["tests"] = task["tests"]
      BY <1>0, <2>5 DEF Return, Typed, Tasks
    <3>2. temp' = IF temp["out"] = "part" /\ ~hole["out"] /\ err["save"] = "nil"
                  THEN [temp EXCEPT !["out"] = "whole"] ELSE temp
      BY <2>5 DEF Return
    <3>3. temp'["test"] = temp["test"] /\ (temp["out"] \in {"part", "whole"} => temp'["out"] \in {"part", "whole"})
      BY <1>0, <3>2 DEF Typed
    <3>4. dest = "file" /\ ~failed /\ err["save"] = "nil" => temp'["out"] = "whole"
      BY <1>0, <2>0, <3>1, <3>2 DEF SaveInv, PendingInv, Typed
    <3> QED
      BY <1>0, <2>0, <3>1, <3>3, <3>4 DEF PendingInv, Finished
  <2>6. CASE Return("tests")
    <3>1. UNCHANGED <<err, failed>> /\ task["tests"] = "end" /\ task'["save"] = task["save"]
      BY <1>0, <2>6 DEF Return, Typed, Tasks
    <3>2. temp' = IF temp["test"] = "part" /\ ~hole["test"] /\ err["tests"] = "nil"
                  THEN [temp EXCEPT !["test"] = "whole"] ELSE temp
      BY <2>6 DEF Return
    <3>3. temp'["out"] = temp["out"] /\ (temp["test"] \in {"part", "whole"} => temp'["test"] \in {"part", "whole"})
      BY <1>0, <3>2 DEF Typed
    <3>4. dest = "file" /\ ~failed /\ err["tests"] = "nil" => temp'["test"] = "whole"
      BY <1>0, <2>0, <3>1, <3>2 DEF SaveInv, PendingInv, Typed
    <3> QED
      BY <1>0, <2>0, <3>1, <3>3, <3>4 DEF PendingInv, Finished
  <2> QED
    BY <1>7, <2>1, <2>2, <2>3, <2>4, <2>5, <2>6 DEF Task, Tasks
<1>8. CASE Interrupt \/ Dies
  <2>1. UNCHANGED <<args, task, err, content, retErr, failed>> /\ pc' \in {pc, "dead"}
    BY <1>8 DEF Interrupt, Dies
  <2> QED
    BY <1>0, <2>1 DEF PendingInv, Finished
<1>9. CASE UNCHANGED vars
  BY <1>0, <1>9 DEF vars, PendingInv, Finished
<1> QED
  BY <1>1, <1>2, <1>3, <1>4, <1>5, <1>6, <1>7, <1>8, <1>9 DEF Next, Caller, Panics, Terminated

(* What protoc and sed made is there when their task ends without an error. *)
LEMMA StepProto == IInv /\ [Next]_vars => ProtoInv'
<1> SUFFICES ASSUME IInv, [Next]_vars PROVE ProtoInv'
  OBVIOUS
<1>0. Typed /\ TaskInv /\ ProtoInv
  BY TypeParts DEF IInv
<1> USE DEF args, content, Fails
<1>1. CASE PendingOut \/ PendingTest \/ Wait \/ Cleanup \/ Interrupt \/ Dies
  <2>1. UNCHANGED <<task, err, disk>> /\ (failed => failed')
    <3>1. CASE PendingOut \/ PendingTest
      BY <3>1 DEF PendingOut, PendingTest, NewPendingFile, Aside
    <3>2. CASE Wait \/ Cleanup \/ Interrupt \/ Dies
      BY <3>2 DEF Wait, Cleanup, Interrupt, Dies
    <3> QED
      BY <1>1, <3>1, <3>2
  <2> QED
    BY <1>0, <2>1 DEF ProtoInv, ProtoEnded
<1>2. CASE Replace
  <2>1. UNCHANGED <<task, err>> /\ (failed => failed') /\ \A f \in {"proto", "pb"} : disk'[f] = disk[f]
    BY <1>2 DEF Replace, Files
  <2> QED
    BY <1>0, <2>1 DEF ProtoInv, ProtoEnded
<1>3. CASE Go
  <2>1. UNCHANGED <<err, disk, failed>>
    BY <1>3 DEF Go
  <2> QED
    BY <1>0, <1>3, <2>1, GoFrame DEF ProtoInv, ProtoEnded, Tasks
<1>4. CASE SaveBegin \/ SaveStruct \/ SaveText \/ SaveTail
  BY <1>0, <1>4, SaveFrame DEF ProtoInv, ProtoEnded
<1>5. CASE SaveTests
  BY <1>0, <1>5, TestsFrame DEF ProtoInv, ProtoEnded
<1>6. CASE CreateProto
  <2>1. task'["proto"] = "struct" \/ (task'["proto"] = "end" /\ err'["proto"] = "create")
    BY <1>0, <1>6 DEF CreateProto, Proto, Typed, Tasks
  <2> QED
    BY <2>1 DEF ProtoInv, ProtoEnded
<1>7. CASE SaveProtobuf
  <2>1. PICK ok, closed \in BOOLEAN :
          /\ Fails(ok /\ closed)
          /\ disk' = [disk EXCEPT !["proto"] = IF ok /\ closed /\ ~Stopping THEN "whole" ELSE "part"]
          /\ IF Stopping \/ ~closed
             THEN Proto(IF Stopping THEN "missing" ELSE "write", "end")
             ELSE Proto("nil", "protoc")
    BY <1>7 DEF SaveProtobuf
  <2>2. CASE Stopping \/ ~closed
    <3>1. task'["proto"] = "end" /\ err'["proto"] # "nil"
      BY <1>0, <2>1, <2>2 DEF Proto, Typed, Tasks
    <3> QED
      BY <3>1 DEF ProtoInv, ProtoEnded
  <2>3. CASE ~(Stopping \/ ~closed)
    <3>1. task'["proto"] = "protoc"
      BY <1>0, <2>1, <2>3 DEF Proto, Typed, Tasks
    <3>2. ~failed' => disk'["proto"] = "whole"
      BY <1>0, <2>1, <2>3 DEF Typed, Files
    <3> QED
      BY <3>1, <3>2 DEF ProtoInv, ProtoEnded
  <2> QED
    BY <2>2, <2>3
<1>8. CASE Protoc
  <2>1. task["proto"] = "protoc" /\ (failed => failed')
    BY <1>8 DEF Protoc
  <2>2. disk'["proto"] = disk["proto"]
    <3>1. disk' = disk \/ disk' = [disk EXCEPT !["pb"] = "part"]
      BY <1>8 DEF Protoc
    <3> QED
      BY <1>0, <3>1 DEF Typed, Files
  <2>3. task'["proto"] = "sed" \/ (task'["proto"] = "end" /\ err'["proto"] = "proto")
    BY <1>0, <1>8 DEF Protoc, Proto, ExitError, Typed, Tasks
  <2> QED
    BY <1>0, <2>1, <2>2, <2>3 DEF ProtoInv, ProtoEnded
<1>9. CASE Sed
  <2>1. task["proto"] = "sed" /\ (failed => failed') /\ task'["proto"] = "end"
    BY <1>0, <1>9 DEF Sed, Proto, Typed, Tasks
  <2>2. disk'["proto"] = disk["proto"]
    BY <1>0, <1>9 DEF Sed, Typed
  <2>3. err'["proto"] = "proto" \/ disk'["pb"] = "whole"
    BY <1>0, <1>9 DEF Sed, Proto, ExitError, Typed, Tasks, Files
  <2> QED
    BY <1>0, <2>1, <2>2, <2>3 DEF ProtoInv, ProtoEnded
<1>10. ASSUME NEW t \in Tasks, Return(t) PROVE ProtoInv'
  <2>1. UNCHANGED <<err, disk, failed>>
    BY <1>0, <1>10, ReturnFrame
  <2>2. task'["proto"] = task["proto"] \/ (task["proto"] = "end" /\ task'["proto"] = "done")
    BY <1>0, <1>10, ReturnFrame DEF Tasks
  <2> QED
    BY <1>0, <2>1, <2>2 DEF ProtoInv, ProtoEnded
<1>11. CASE UNCHANGED vars
  BY <1>0, <1>11 DEF vars, ProtoInv, ProtoEnded
<1> QED
  BY <1>1, <1>2, <1>3, <1>4, <1>5, <1>6, <1>7, <1>8, <1>9, <1>10, <1>11 DEF Next, Caller, Task, Panics, Terminated

(* The files get their names when no task runs.                             *)
LEMMA StepReplaced == IInv /\ [Next]_vars => ReplacedOnlyAtTheEnd'
<1> SUFFICES ASSUME IInv, [Next]_vars PROVE ReplacedOnlyAtTheEnd'
  OBVIOUS
<1>0. Typed /\ TaskInv /\ ReplacedOnlyAtTheEnd
  BY TypeParts DEF IInv
<1> USE DEF args, content, AllDone, AfterWait
<1>1. CASE PendingOut \/ PendingTest \/ Go
  <2>1. pc \in {"out", "test", "go"} /\ disk' = disk
    BY <1>1 DEF PendingOut, PendingTest, NewPendingFile, Aside, Go
  <2> QED
    BY <1>0, <2>1 DEF ReplacedOnlyAtTheEnd
<1>2. CASE Wait
  BY <1>0, <1>2 DEF Wait, ReplacedOnlyAtTheEnd
<1>3. CASE Replace \/ Cleanup
  <2>1. pc \in AfterWait /\ pc' \in AfterWait /\ task' = task
    BY <1>3 DEF Replace, Cleanup
  <2> QED
    BY <1>0, <2>1 DEF TaskInv, ReplacedOnlyAtTheEnd
<1>4. CASE Alive /\ Task
  <2>1. \A f \in GoFiles : disk'[f] = disk[f]
    <3>1. CASE SaveBegin \/ SaveStruct \/ SaveText \/ SaveTail
      BY <1>0, <3>1, SaveFrame
    <3>2. CASE SaveTests
      BY <1>0, <3>2, TestsFrame
    <3>3. CASE CreateProto \/ SaveProtobuf \/ Protoc \/ Sed
      BY <1>0, <3>3, ProtoFrame
    <3>4. CASE \E t \in Tasks : Return(t)
      BY <3>4 DEF Return
    <3> QED
      BY <1>4, <3>1, <3>2, <3>3, <3>4 DEF Task
  <2>2. pc = "go"
    BY <1>4, TaskFrame
  <2> QED
    BY <1>0, <2>1, <2>2 DEF ReplacedOnlyAtTheEnd, GoFiles
<1>5. CASE Interrupt \/ Dies
  <2>1. UNCHANGED <<task, disk>> /\ pc' \in {pc, "dead"}
    BY <1>5 DEF Interrupt, Dies
  <2> QED
    BY <1>0, <2>1 DEF ReplacedOnlyAtTheEnd
<1>6. CASE UNCHANGED vars
  BY <1>0, <1>6 DEF vars, ReplacedOnlyAtTheEnd
<1> QED
  BY <1>1, <1>2, <1>3, <1>4, <1>5, <1>6 DEF Next, Caller, Panics, Terminated

-----------------------------------------------------------------------------
LEMMA StepIInv == IInv /\ [Next]_vars => IInv'
BY StepTypeOK, StepTask, StepErr, StepSave, StepPending, StepProto, StepReplaced DEF IInv

(* At the return: no error means that every task asked for was done, and    *)
(* none with an error.                                                      *)
LEMMA IInvOkMeansWhole == IInv => OkMeansWhole
<1> SUFFICES ASSUME IInv, pc = "returned", retErr = "nil"
             PROVE (proto => disk["pb"] = "whole") /\ (~failed => \A f \in Asked : disk[f] = "whole")
  BY DEF OkMeansWhole
<1>1. \A t \in AskedTasks : Finished(t)
  BY DEF IInv, TaskInv, ErrInv, AfterWait, Finished, AskedTasks
<1>2. proto => ProtoEnded
  BY <1>1 DEF AskedTasks, Finished, ProtoEnded, Tasks
<1>3. proto => disk["pb"] = "whole" /\ (~failed => disk["proto"] = "whole")
  BY <1>2 DEF IInv, ProtoInv
<1>4. dest = "file" /\ ~failed => \A f \in GoFiles : disk[f] = "whole"
  BY DEF IInv, PendingInv
<1> QED
  BY <1>3, <1>4 DEF Asked, GoFiles

LEMMA IInvErrorReturned == IInv => ErrorReturned
<1> SUFFICES ASSUME IInv, pc = "returned", NEW t \in Tasks, err[t] # "nil" PROVE retErr # "nil"
  BY DEF ErrorReturned
<1>1. task[t] = "done"
  BY DEF IInv, TaskInv, ErrInv, AllDone, AfterWait
<1> QED
  BY <1>1 DEF IInv, ErrInv, AfterWait

(* Every value stays in its range, and at most two tasks run at a time.     *)
THEOREM TypeCorrect == Spec => []TypeOK
<1>1. IInv => TypeOK
  BY DEF IInv
<1> QED
  BY InitIInv, StepIInv, <1>1, PTL DEF Spec

(* A command that returns no error has made its .pb.go, and every other file*)
(* it was asked for if nothing else failed.                                 *)
THEOREM OkMeansWholeHolds == Spec => []OkMeansWhole
BY InitIInv, StepIInv, IInvOkMeansWhole, PTL DEF Spec

(* The error of a task is never lost to the others'.                        *)
THEOREM ErrorReturnedHolds == Spec => []ErrorReturned
BY InitIInv, StepIInv, IInvErrorReturned, PTL DEF Spec

(* The Go files keep their old content until all tasks have ended.          *)
THEOREM ReplacedOnlyAtTheEndHolds == Spec => []ReplacedOnlyAtTheEnd
<1>1. IInv => ReplacedOnlyAtTheEnd
  BY DEF IInv
<1> QED
  BY InitIInv, StepIInv, <1>1, PTL DEF Spec
=============================================================================
