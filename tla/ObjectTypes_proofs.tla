------------------------- MODULE ObjectTypes_proofs -------------------------
(***************************************************************************)
(* Theorems about ObjectTypes, for any finite set of types that need each  *)
(* other in any way, any arguments, limit and number of calls.             *)
(***************************************************************************)
EXTENDS ObjectTypes, FiniteSetTheorems, SequenceTheorems, WellFoundedInduction, TLAPS

(* tt.mu is held by the one goroutine that is between Lock and Unlock, and  *)
(* the recursion is that of its get.                                       *)
Inside == {"get", "assigned", "checked"}

LockInv ==
  /\ \A w \in Workers : worker[w] \in Inside <=> mu = {w}
  /\ \A w \in Workers : worker[w] = "get" <=> mu = {w} /\ stack # <<>>

(* The calls follow each other: what is begun is answered, what is not begun*)
(* has no goroutine, and a row still to come has none.                      *)
CallInv ==
  /\ pc # "ready" => call \in Calls
  /\ Len(answers) = IF pc = "ready" THEN call ELSE call - 1
  /\ \A c \in Calls : c > call =>
       /\ \A t \in Types : worker[<<c, t>>] = "none"
       /\ err[c] = "nil" /\ grpErr[c] = "nil" /\ failed[c] = {} /\ c \notin raced \cup cut
  /\ pc = "go" => next <= Len(Listed)
  /\ pc \in {"row", "go"} =>
       \A i \in DOMAIN Listed : i >= next => worker[<<call, Listed[i]>>] = "none"
  /\ \A c \in DOMAIN answers : answers[c].how = "waited" =>
       \A t \in Types : worker[<<c, t>>] \in {"none", "done"}

(* A failure is on its way, with the lock, or has reached the group; what   *)
(* is not supported never does: all but for calls that raced.               *)
ErrInv ==
  /\ \A c \in Calls : c \notin raced =>
       /\ failed[c] # {} => grpErr[c] # "nil" \/ (err[c] = "failed" /\ \E t \in Types :
                                                   worker[<<c, t>>] \in {"assigned", "checked"})
       /\ grpErr[c] # "unsupported"
       /\ (\E t \in Types : worker[<<c, t>>] = "checked") => err[c] # "unsupported"
  /\ pc = "check" /\ call \notin raced => err[call] # "unsupported"

(* A row that was asked for and passed is in the map, or has a goroutine.   *)
CoverInv ==
  /\ \A c \in Calls, t \in Types :
       worker[<<c, t>>] \notin {"none", "start"} => m[t] # "absent"
  /\ call = 0 => Keys = {}
  /\ pc \in {"row", "go", "close", "check", "wait"} =>
       \A i \in DOMAIN Listed : i < next /\ ~Skipped(Listed[i]) =>
         m[Listed[i]] # "absent" \/ worker[<<call, Listed[i]>>] # "none"
  /\ pc \in {"close", "check", "wait"} /\ call \notin cut => next > Len(Listed)
  /\ \A c \in DOMAIN answers :
       /\ answers[c].names \subseteq Keys
       /\ answers[c].err = "nil" => answers[c].how \in {"map", "waited"}
       /\ answers[c].how = "map" => answers[c].only = {}

(* The first part of ListsWhatIsAsked.                                      *)
Excused(c) ==
  \/ c \in cut
  \/ /\ answers[c].how = "map"
     /\ \E e \in 1..(c-1) : answers[e].only # {} \/ answers[e].err # "nil" \/ e \in cut

ListedInv ==
  \A c \in DOMAIN answers :
    answers[c].err = "nil" /\ ~(Asked(c) \subseteq answers[c].names) => Excused(c)

(* The type that a step of the recursion is for.                            *)
Meant(f) == IF f.next = 0 THEN Found[f.type] ELSE f.type

(* Without a failure a placeholder is a type that is being resolved, or one *)
(* that never is; each type of the recursion needs the next; and only the   *)
(* last may not have been found yet.                                        *)
StackInv ==
  /\ \A i \in DOMAIN stack : i < Len(stack) => stack[i].next > 0
  /\ \A i \in DOMAIN stack : i > 1 => Meant(stack[i]) \in Members(stack[i-1].type)
  /\ (\A c \in Calls : failed[c] = {}) =>
       \A t \in Types : m[t] = "placeholder" =>
         t \in NeverResolved \/ \E i \in DOMAIN stack : stack[i].type = t

(* What the recursion is through with has its entry in the map, but for the *)
(* type that is about to be found.                                          *)
Through(f) == {Found[Children[f.type][j]] : j \in {k \in DOMAIN Children[f.type] : k < f.next}}

Pending == IF stack # <<>> /\ Top.next = 0 THEN {Found[Top.type]} ELSE {}

MadeInv ==
  /\ \A t \in Types : m[t] = "resolved" => Members(t) \subseteq Keys
  /\ \A t \in Types : m[t] = "partial" => t \in lost
  /\ \A i \in DOMAIN stack : Through(stack[i]) \subseteq Keys \cup Pending

IInv ==
  /\ TypeOK /\ LockInv /\ CallInv /\ ErrInv /\ FailureTold
  /\ CoverInv /\ ListedInv /\ StackInv /\ MadeInv

-----------------------------------------------------------------------------
(* The types.                                                               *)

(* get returns a type, stored or not.                                       *)
Ends(c, t) == Resolve(c, t) \/ CutOff(c, t) \/ ReturnAsIs(c, t)

(* The parts of the type that concern the map and the lock, the calls, and  *)
(* the goroutines.                                                         *)
Frames == [type : Types, next : Nat]
Results == [only : Onlys, err : Errs, names : SUBSET Types, how : {"map", "early", "waited"}]

MapType ==
  /\ m \in [Types -> {"absent", "placeholder", "resolved", "partial"}]
  /\ mu \in {{}} \cup {{w} : w \in Workers}
  /\ stack \in Seq(Frames) /\ (mu = {} => stack = <<>>)

CallType ==
  /\ call \in 0..MaxCalls /\ next \in Nat \ {0} /\ only \in Onlys
  /\ pc \in {"ready", "row", "go", "close", "check", "wait", "dead"}
  /\ answers \in Seq(Results)

WorkType ==
  /\ err \in [Calls -> Errs] /\ grpErr \in [Calls -> Errs]
  /\ worker \in [Workers -> {"none", "start", "get", "assigned", "checked", "done"}]
  /\ failed \in [Calls -> SUBSET Types]
  /\ raced \subseteq Calls /\ cut \subseteq Calls /\ lost \subseteq Types

WithinLimits == \A c \in Calls : Cardinality(Active(c)) <= Limit

LEMMA TypeParts == TypeOK <=> MapType /\ CallType /\ WorkType /\ WithinLimits
BY DEF TypeOK, MapType, CallType, WorkType, WithinLimits, Frames, Results

LEMMA NextTypeParts == TypeOK' <=> MapType' /\ CallType' /\ WorkType' /\ WithinLimits'
BY DEF TypeOK, MapType, CallType, WorkType, WithinLimits, Frames, Results

(* A goroutine is a call and a type.                                        *)
LEMMA WorkerPairs ==
  /\ \A c \in Calls, t \in Types : <<c, t>> \in Workers
  /\ \A w \in Workers : \E c \in Calls, t \in Types : w = <<c, t>>
  /\ \A c, d \in Calls, t, u \in Types : <<c, t>> = <<d, u>> <=> c = d /\ t = u
BY DEF Workers

(* The next step of the recursion is of a frame and its type.               *)
LEMMA TopFrame ==
  ASSUME MapType, stack # <<>>
  PROVE  /\ Len(stack) \in Nat \ {0} /\ Top = stack[Len(stack)] /\ Top \in Frames
         /\ Top.type \in Types /\ Top.next \in Nat
<1>1. stack \in Seq(Frames) /\ Len(stack) \in Nat \ {0}
  BY DEF MapType
<1>2. stack[Len(stack)] \in Frames
  BY <1>1
<1>3. Top = stack[Len(stack)]
  BY DEF Top, Last
<1> QED
  BY <1>1, <1>2, <1>3 DEF Frames

(* get goes on with a type that the one in progress needs.                  *)
LEMMA ChildType ==
  ASSUME MapType, stack # <<>>, Top.next > 0, Top.next <= Len(Children[Top.type])
  PROVE  /\ Children[Top.type][Top.next] \in Types
         /\ Children[Top.type][Top.next] \in ToSet(Children[Top.type])
<1>1. Children[Top.type] \in Seq(Types)
  BY TopFrame, TypesAssumption
<1>2. Top.next \in DOMAIN Children[Top.type]
  BY <1>1, TopFrame
<1> QED
  BY <1>1, <1>2 DEF ToSet

(* Returning from get drops the last frame.                                 *)
LEMMA Popped ==
  ASSUME MapType, stack # <<>>
  PROVE  /\ Front(stack) \in Seq(Frames) /\ Len(Front(stack)) = Len(stack) - 1
         /\ \A i \in 1..(Len(stack) - 1) : Front(stack)[i] = stack[i]
<1>1. stack \in Seq(Frames) /\ Len(stack) \in Nat \ {0}
  BY DEF MapType
<1>2. Len(stack) - 1 \in Int /\ \A i \in 1..(Len(stack) - 1) : stack[i] \in Frames
  BY <1>1
<1>3. /\ SubSeq(stack, 1, Len(stack) - 1) \in Seq(Frames)
      /\ Len(SubSeq(stack, 1, Len(stack) - 1)) =
           IF 1 <= Len(stack) - 1 THEN Len(stack) - 1 - 1 + 1 ELSE 0
      /\ \A i \in 1..(Len(stack) - 1 - 1 + 1) : SubSeq(stack, 1, Len(stack) - 1)[i] = stack[1 + i - 1]
  BY <1>2, SubSeqProperties
<1>4. Len(SubSeq(stack, 1, Len(stack) - 1)) = Len(stack) - 1
  <2>1. \A n \in Nat \ {0} : (IF 1 <= n - 1 THEN n - 1 - 1 + 1 ELSE 0) = n - 1
    OBVIOUS
  <2>2. (IF 1 <= Len(stack) - 1 THEN Len(stack) - 1 - 1 + 1 ELSE 0) = Len(stack) - 1
    BY <1>1, <2>1, Zenon
  <2> QED
    BY <1>1, <1>3, <2>2
<1>5. ASSUME NEW i \in 1..(Len(stack) - 1)
      PROVE  SubSeq(stack, 1, Len(stack) - 1)[i] = stack[i]
  <2>1. i \in 1..(Len(stack) - 1 - 1 + 1) /\ 1 + i - 1 = i
    BY <1>1
  <2> QED
    BY <1>3, <2>1, Zenon
<1> QED
  BY <1>3, <1>4, <1>5 DEF Front

(* Descending to k adds a frame for k, and keeps the others but for the next*)
(* child of the last.                                                       *)
LEMMA PushedFrame ==
  ASSUME MapType, stack # <<>>, NEW k \in Types
  PROVE  /\ Pushed(k) \in Seq(Frames) /\ Len(Pushed(k)) = Len(stack) + 1
         /\ Pushed(k)[Len(stack) + 1] = [type |-> k, next |-> 0]
         /\ Pushed(k)[Len(stack)] = [type |-> Top.type, next |-> Top.next + 1]
         /\ \A i \in 1..Len(stack) : Pushed(k)[i].type = stack[i].type
         /\ \A i \in 1..(Len(stack) - 1) : Pushed(k)[i] = stack[i]
<1>1. stack \in Seq(Frames) /\ Len(stack) \in Nat \ {0}
  BY DEF MapType
<1>2. Top = stack[Len(stack)] /\ [type |-> Top.type, next |-> Top.next + 1] \in Frames
  BY TopFrame DEF Frames
<1>3. Len(stack) \in DOMAIN stack
  BY <1>1
<1>4. /\ Advanced \in Seq(Frames) /\ Len(Advanced) = Len(stack)
      /\ \A i \in 1..Len(stack) : Advanced[i] =
           IF i = Len(stack) THEN [type |-> Top.type, next |-> Top.next + 1] ELSE stack[i]
  BY <1>1, <1>2, <1>3, ExceptSeq DEF Advanced
<1>5. \A i \in 1..Len(stack) : Advanced[i].type = stack[i].type
  BY <1>2, <1>4
<1>6. [type |-> k, next |-> 0] \in Frames
  BY DEF Frames
<1>7. /\ Pushed(k) \in Seq(Frames) /\ Len(Pushed(k)) = Len(stack) + 1
      /\ Pushed(k)[Len(stack) + 1] = [type |-> k, next |-> 0]
      /\ \A i \in 1..Len(stack) : Pushed(k)[i] = Advanced[i]
  BY <1>1, <1>4, <1>6 DEF Pushed
<1>8. Pushed(k)[Len(stack)] = [type |-> Top.type, next |-> Top.next + 1]
  BY <1>1, <1>4, <1>7
<1>9. \A i \in 1..(Len(stack) - 1) : Pushed(k)[i] = stack[i]
  BY <1>1, <1>4, <1>7
<1> QED
  BY <1>5, <1>7, <1>8, <1>9

(* Finding a type replaces the last frame.                                  *)
LEMMA RenamedFrame ==
  ASSUME MapType, stack # <<>>
  PROVE  /\ Renamed \in Seq(Frames) /\ Len(Renamed) = Len(stack)
         /\ Renamed[Len(stack)] = [type |-> Found[Top.type], next |-> 1]
         /\ \A i \in 1..(Len(stack) - 1) : Renamed[i] = stack[i]
<1>1. stack \in Seq(Frames) /\ Len(stack) \in Nat \ {0} /\ Len(stack) \in DOMAIN stack
  BY DEF MapType
<1>2. [type |-> Found[Top.type], next |-> 1] \in Frames
  BY TopFrame, TypesAssumption DEF Frames
<1>3. /\ Renamed \in Seq(Frames) /\ Len(Renamed) = Len(stack)
      /\ \A i \in 1..Len(stack) : Renamed[i] =
           IF i = Len(stack) THEN [type |-> Found[Top.type], next |-> 1] ELSE stack[i]
  BY <1>1, <1>2, ExceptSeq DEF Renamed
<1> QED
  BY <1>1, <1>3

(* The names of the map's keys are types.                                   *)
LEMMA KeysTypes == Keys \subseteq Types
BY DEF Keys

LEMMA InitIInv == Init => IInv
<1> SUFFICES ASSUME Init PROVE IInv
  OBVIOUS
<1> USE DEF Init
<1>0. \A w \in Workers : worker[w] = "none"
  OBVIOUS
<1>1. \A c \in Calls : Active(c) = {}
  BY <1>0, WorkerPairs DEF Active
<1>2. TypeOK
  <2>1. MapType /\ WorkType
    BY DEF MapType, WorkType, Errs
  <2>2. CallType
    BY TypesAssumption DEF CallType
  <2>3. WithinLimits
    <3>1. Cardinality({}) = 0 /\ 0 <= Limit
      BY FS_EmptySet, TypesAssumption
    <3>2. \A c \in Calls : Cardinality(Active(c)) = 0
      BY <1>1, <3>1
    <3> QED
      BY <3>1, <3>2 DEF WithinLimits
  <2> QED
    BY <2>1, <2>2, <2>3, TypeParts
<1>3. LockInv
  BY <1>0 DEF LockInv, Inside
<1>4. CallInv /\ ErrInv /\ FailureTold
  BY <1>0, WorkerPairs DEF CallInv, ErrInv, FailureTold, Answered, Calls
<1>5. CoverInv /\ ListedInv /\ StackInv /\ MadeInv
  BY <1>0, WorkerPairs DEF CoverInv, ListedInv, StackInv, MadeInv, Keys
<1> QED
  BY <1>2, <1>3, <1>4, <1>5 DEF IInv

(* Every step keeps the types of the map, the lock and the recursion.       *)
LEMMA StepMapType == IInv /\ [Next]_vars => MapType'
<1> SUFFICES ASSUME IInv, [Next]_vars PROVE MapType'
  OBVIOUS
<1>0. MapType /\ CallType /\ WorkType /\ LockInv
  BY TypeParts DEF IInv
<1> USE DEF MapType, tt
<1>1. CASE Caller
  <2>1. UNCHANGED tt
    BY <1>1 DEF Caller, Names, Row, ScanFails, RowsEnd, Go, Close, CheckClose, Wait
  <2> QED
    BY <1>0, <2>1
<1>2. ASSUME NEW c \in Calls, NEW t \in Types, Worker(c, t) PROVE MapType'
  <2>0. <<c, t>> \in Workers
    BY WorkerPairs
  <2>1. CASE Lock(c, t)
    <3>1. <<[type |-> t, next |-> 1]>> \in Seq(Frames)
      BY DEF Frames
    <3> QED
      BY <1>0, <2>0, <2>1, <3>1 DEF Lock
  <2>2. CASE Descend(c, t)
    <3>1. stack # <<>> /\ mu = {<<c, t>>}
      BY <1>0, <2>0, <2>2 DEF Descend, LockInv
    <3>2. PICK k : k = Children[Top.type][Top.next] /\ m' = [m EXCEPT ![k] = "placeholder"]
                   /\ stack' = Pushed(k)
      BY <2>2 DEF Descend
    <3>3. stack' \in Seq(Frames) /\ k \in Types
      <4>4. k \in Types
        BY <1>0, <2>2, <3>1, <3>2, ChildType DEF Descend
      <4> QED
        BY <1>0, <3>1, <3>2, <4>4, PushedFrame
    <3> QED
      BY <1>0, <2>2, <3>1, <3>2, <3>3 DEF Descend
  <2>3. CASE Ends(c, t)
    <3>1. stack # <<>> /\ mu = {<<c, t>>}
      BY <1>0, <2>0, <2>3 DEF Ends, Resolve, CutOff, ReturnAsIs, LockInv
    <3>2. Top.type \in Types
      BY <1>0, <3>1, TopFrame
    <3>3. m' \in [Types -> {"absent", "placeholder", "resolved", "partial"}] /\ UNCHANGED mu
      BY <1>0, <2>3, <3>2 DEF Ends, Resolve, CutOff, ReturnAsIs
    <3>4. stack' = <<>> \/ stack' = Front(stack)
      BY <2>3 DEF Ends, Resolve, CutOff, ReturnAsIs, Returns, Assigns
    <3>5. Front(stack) \in Seq(Frames) /\ <<>> \in Seq(Frames)
      BY <1>0, <3>1, Popped
    <3>6. stack' \in Seq(Frames)
      BY <3>4, <3>5
    <3>7. mu' # {} /\ mu' \in {{}} \cup {{w} : w \in Workers}
      BY <1>0, <3>1, <3>3
    <3> QED
      BY <3>3, <3>6, <3>7
  <2>4. CASE NotSupported(c, t) \/ GetFails(c, t)
    <3>1. <<>> \in Seq(Frames) /\ stack' = <<>> /\ UNCHANGED <<m, mu>>
      BY <2>4 DEF NotSupported, GetFails, Assigns
    <3> QED
      BY <1>0, <3>1
  <2>5. CASE CheckErr(c, t)
    BY <1>0, <2>5 DEF CheckErr
  <2>6. CASE ReturnErr(c, t)
    <3>1. stack = <<>>
      BY <1>0, <2>0, <2>6 DEF ReturnErr, LockInv, Inside
    <3> QED
      BY <1>0, <2>6, <3>1 DEF ReturnErr
  <2>7. CASE Find(c, t)
    <3>1. stack # <<>> /\ mu = {<<c, t>>}
      BY <1>0, <2>0, <2>7 DEF Find, LockInv
    <3>2. Found[Top.type] \in Types
      BY <1>0, <3>1, TopFrame, TypesAssumption
    <3>3. Renamed \in Seq(Frames)
      BY <1>0, <3>1, RenamedFrame
    <3> QED
      BY <1>0, <2>7, <3>1, <3>2, <3>3 DEF Find
  <2> QED
    BY <1>2, <2>1, <2>2, <2>3, <2>4, <2>5, <2>6, <2>7 DEF Worker, Ends
<1>3. CASE UNCHANGED vars
  BY <1>0, <1>3 DEF vars
<1> QED
  BY <1>1, <1>2, <1>3 DEF Next, Terminated

(* Every step keeps the types of the calls.                                 *)
LEMMA StepCallType == IInv /\ [Next]_vars => CallType'
<1> SUFFICES ASSUME IInv, [Next]_vars PROVE CallType'
  OBVIOUS
<1>0. CallType /\ WorkType /\ CallInv /\ MapType /\ MaxCalls \in Nat
  BY TypeParts, TypesAssumption DEF IInv
<1> USE DEF CallType, names
<1>1. CASE Names
  <2>1. call' \in 0..MaxCalls /\ next' \in Nat \ {0} /\ only' \in Onlys /\ pc' \in {"ready", "row", "dead"}
    BY <1>0, <1>1 DEF Names, Answer
  <2>2. \/ UNCHANGED answers
        \/ answers' = Append(answers, [only |-> only', err |-> "nil", names |-> Keys, how |-> "map"])
        \/ answers' = Append(answers, [only |-> only', err |-> "failed", names |-> {}, how |-> "early"])
    BY <1>1 DEF Names, Answer
  <2>3. /\ [only |-> only', err |-> "nil", names |-> Keys, how |-> "map"] \in Results
        /\ [only |-> only', err |-> "failed", names |-> {}, how |-> "early"] \in Results
    BY <2>1, KeysTypes DEF Results, Errs
  <2>4. answers' \in Seq(Results)
    BY SMTT(20), <1>0, <2>2, <2>3
  <2> QED
    BY <2>1, <2>4
<1>2. CASE Row
  BY <1>0, <1>2 DEF Row
<1>3. CASE ScanFails
  <2>1. [only |-> only, err |-> "failed", names |-> {}, how |-> "early"] \in Results
    BY <1>0 DEF Results, Errs
  <2> QED
    BY <1>0, <1>3, <2>1 DEF ScanFails, Answer
<1>4. CASE RowsEnd \/ Go \/ Close
  BY <1>0, <1>4 DEF RowsEnd, Go, Close
<1>5. CASE CheckClose
  <2>1. err[call] \in Errs
    BY <1>0, <1>5 DEF CheckClose, CallInv, WorkType
  <2>2. [only |-> only, err |-> err[call], names |-> {}, how |-> "early"] \in Results
    BY <1>0, <2>1 DEF Results
  <2> QED
    BY <1>0, <1>5, <2>2 DEF CheckClose, Answer
<1>6. CASE Wait
  <2>1. grpErr[call] \in Errs
    BY <1>0, <1>6 DEF Wait, CallInv, WorkType
  <2>2. /\ [only |-> only, err |-> grpErr[call], names |-> {}, how |-> "waited"] \in Results
        /\ [only |-> only, err |-> "nil", names |-> Keys, how |-> "waited"] \in Results
    BY <1>0, <2>1, KeysTypes DEF Results, Errs
  <2>3. \E r \in Results : answers' = Append(answers, r)
    BY <1>6, <2>2 DEF Wait, Answer
  <2>4. UNCHANGED <<call, next, only>> /\ pc' = "ready"
    BY <1>6 DEF Wait, Answer
  <2> QED
    BY <1>0, <2>3, <2>4
<1>7. ASSUME NEW c \in Calls, NEW t \in Types, Worker(c, t) PROVE CallType'
  <2>1. UNCHANGED names
    BY <1>7 DEF Worker, Lock, Descend, Find, Resolve, CutOff, ReturnAsIs, NotSupported, GetFails, CheckErr, ReturnErr
  <2> QED
    BY <1>0, <2>1
<1>8. CASE UNCHANGED vars
  BY <1>0, <1>8 DEF vars
<1> QED
  BY <1>1, <1>2, <1>3, <1>4, <1>5, <1>6, <1>7, <1>8 DEF Next, Caller, Terminated

(* Every step keeps the types of the errors, the goroutines and the history.*)
LEMMA StepWorkType == IInv /\ [Next]_vars => WorkType'
<1> SUFFICES ASSUME IInv, [Next]_vars PROVE WorkType'
  OBVIOUS
<1>0. CallType /\ WorkType /\ CallInv
  BY TypeParts DEF IInv
<1> USE DEF WorkType, Errs, ghosts
<1>1. CASE Names \/ Row \/ ScanFails \/ CheckClose
  BY <1>0, <1>1 DEF Names, Row, ScanFails, CheckClose
<1>2. CASE RowsEnd
  BY <1>0, <1>2 DEF RowsEnd, CallInv
<1>3. CASE Go
  <2>1. UNCHANGED <<err, grpErr, ghosts>>
    BY <1>3 DEF Go
  <2>2. PICK w \in Workers \cup {<<call, Listed[next]>>} : worker' = [worker EXCEPT ![w] = "start"]
    BY <1>3 DEF Go
  <2> QED
    BY <1>0, <2>1, <2>2
<1>4. CASE Close
  <2>1. PICK e \in {"nil", "failed"} : err' = [err EXCEPT ![call] = e]
    BY <1>4 DEF Close
  <2>2. err' \in [Calls -> Errs]
    BY <1>0, <2>1
  <2>3. UNCHANGED <<grpErr, worker, failed, cut, lost>> /\ raced' \subseteq raced \cup {call} /\ call \in Calls
    BY <1>0, <1>4 DEF Close, CallInv
  <2> QED
    BY <1>0, <2>2, <2>3
<1>5. CASE Wait
  BY <1>0, <1>5 DEF Wait, CallInv
<1>6. ASSUME NEW c \in Calls, NEW t \in Types, Worker(c, t) PROVE WorkType'
  <2>1. CASE Lock(c, t)
    BY <1>0, <2>1 DEF Lock
  <2>2. CASE Descend(c, t)
    BY <1>0, <2>2 DEF Descend
  <2>3. CASE Ends(c, t)
    <3>1. lost' \subseteq Types
      <4>1. CASE CutOff(c, t)
        <5>1. Top.type \in Types
          <6>1. MapType /\ stack # <<>>
            BY <4>1, TypeParts, WorkerPairs DEF IInv, LockInv, CutOff
          <6> QED
            BY <6>1, TopFrame
        <5> QED
          BY <1>0, <4>1, <5>1 DEF CutOff
      <4> QED
        BY <1>0, <2>3, <4>1 DEF Ends, Resolve, ReturnAsIs
    <3>2. UNCHANGED <<grpErr, failed, cut>> /\ Returns(c, t)
      BY <2>3 DEF Ends, Resolve, CutOff, ReturnAsIs
    <3> QED
      BY <1>0, <3>1, <3>2 DEF Returns, Assigns
  <2>4. CASE NotSupported(c, t)
    BY <1>0, <2>4 DEF NotSupported, Assigns
  <2>5. CASE GetFails(c, t)
    BY <1>0, <2>5 DEF GetFails, Assigns
  <2>6. CASE CheckErr(c, t)
    BY <1>0, <2>6 DEF CheckErr
  <2>7. CASE ReturnErr(c, t)
    BY <1>0, <2>7 DEF ReturnErr, FirstError
  <2>8. CASE Find(c, t)
    BY <1>0, <2>8 DEF Find
  <2> QED
    BY <1>6, <2>1, <2>2, <2>3, <2>4, <2>5, <2>6, <2>7, <2>8 DEF Worker, Ends
<1>7. CASE UNCHANGED vars
  BY <1>0, <1>7 DEF vars
<1> QED
  BY <1>1, <1>2, <1>3, <1>4, <1>5, <1>6, <1>7 DEF Next, Caller, Terminated

(* Only Go makes a goroutine, and only below the limit.                     *)
LEMMA StepLimits == IInv /\ [Next]_vars => WithinLimits'
<1> SUFFICES ASSUME IInv, [Next]_vars PROVE WithinLimits'
  OBVIOUS
<1>0. WorkType /\ WithinLimits /\ Limit \in Nat \ {0} /\ IsFiniteSet(Types)
  BY TypeParts, TypesAssumption DEF IInv
<1>1. ASSUME NEW c \in Calls, (Active(c))' \subseteq Active(c)
      PROVE  Cardinality((Active(c))') <= Limit
  <2>1. IsFiniteSet(Active(c))
    BY <1>0, FS_Subset DEF Active
  <2>2. IsFiniteSet((Active(c))') /\ Cardinality((Active(c))') <= Cardinality(Active(c))
    BY <1>1, <2>1, FS_Subset
  <2>3. Cardinality(Active(c)) \in Nat /\ Cardinality((Active(c))') \in Nat
    BY <2>1, <2>2, FS_CardinalityType
  <2> QED
    BY <1>0, <2>2, <2>3 DEF WithinLimits
<1>2. CASE Go
  <2> SUFFICES ASSUME NEW c \in Calls PROVE Cardinality((Active(c))') <= Limit
    BY DEF WithinLimits
  <2>1. CASE c = call
    <3>1. IsFiniteSet(Active(c)) /\ Cardinality(Active(c)) < Limit
      BY <1>0, <1>2, <2>1, FS_Subset DEF Go, WithinLimit, Active
    <3>2. (Active(c))' \subseteq Active(c) \cup {Listed[next]}
      BY <1>0, <1>2, WorkerPairs DEF Go, Active, WorkType
    <3>3. /\ IsFiniteSet(Active(c) \cup {Listed[next]})
          /\ Cardinality(Active(c) \cup {Listed[next]}) <= Cardinality(Active(c)) + 1
          /\ Cardinality(Active(c)) \in Nat
      <4>1. Cardinality(Active(c)) \in Nat
        BY <3>1, FS_CardinalityType
      <4>2. CASE Listed[next] \in Active(c)
        <5>1. Active(c) \cup {Listed[next]} = Active(c)
          BY <4>2
        <5> QED
          BY <3>1, <4>1, <5>1
      <4>3. CASE Listed[next] \notin Active(c)
        BY <3>1, <4>1, <4>3, FS_AddElement
      <4> QED
        BY <4>2, <4>3
    <3>4. /\ Cardinality((Active(c))') <= Cardinality(Active(c) \cup {Listed[next]})
          /\ IsFiniteSet((Active(c))')
      BY <3>2, <3>3, FS_Subset
    <3>5. Cardinality((Active(c))') \in Nat /\ Cardinality(Active(c) \cup {Listed[next]}) \in Nat
      BY <3>3, <3>4, FS_CardinalityType
    <3> QED
      BY <1>0, <3>1, <3>3, <3>4, <3>5
  <2>2. CASE c # call
    <3>1. (Active(c))' \subseteq Active(c)
      BY <1>0, <1>2, <2>2, WorkerPairs DEF Go, Active, WorkType
    <3> QED
      BY <1>1, <3>1
  <2> QED
    BY <2>1, <2>2
<1>3. CASE ~Go
  <2>1. \A c \in Calls : (Active(c))' \subseteq Active(c)
    <3>1. CASE Caller
      BY <1>3, <3>1 DEF Caller, Names, Row, ScanFails, RowsEnd, Close, CheckClose, Wait, Active
    <3>2. ASSUME NEW c \in Calls, NEW t \in Types, Worker(c, t)
          PROVE  \A d \in Calls : (Active(d))' \subseteq Active(d)
      <4>1. worker[<<c, t>>] \notin {"none", "done"}
        BY <3>2 DEF Worker, Lock, Descend, Find, Resolve, CutOff, ReturnAsIs, NotSupported, GetFails, CheckErr, ReturnErr
      <4>2. \A w \in Workers : w # <<c, t>> => worker'[w] = worker[w]
        BY <1>0, <3>2 DEF Worker, Lock, Descend, Find, Resolve, CutOff, ReturnAsIs, NotSupported, GetFails, CheckErr,
                          ReturnErr, Returns, Assigns, WorkType
      <4> QED
        BY <4>1, <4>2, WorkerPairs DEF Active
    <3>3. CASE UNCHANGED vars
      BY <3>3 DEF vars, Active
    <3> QED
      BY <3>1, <3>2, <3>3 DEF Next, Terminated
  <2> QED
    BY <1>1, <2>1 DEF WithinLimits
<1> QED
  BY <1>2, <1>3

LEMMA StepType == IInv /\ [Next]_vars => TypeOK'
BY StepMapType, StepCallType, StepWorkType, StepLimits, NextTypeParts

-----------------------------------------------------------------------------
(* What a goroutine's step, and grp.Go, leave alone.                        *)

(* A goroutine's step changes neither the call in progress nor the other    *)
(* goroutines, and of the errors only its call's.                           *)
LEMMA OthersKept ==
  ASSUME TypeOK, NEW c \in Calls, NEW t \in Types, Worker(c, t)
  PROVE  /\ UNCHANGED <<names, cut>>
         /\ worker[<<c, t>>] \in {"start"} \cup Inside
         /\ worker'[<<c, t>>] \in Inside \cup {"done"}
         /\ \A d \in Calls, u \in Types : d # c \/ u # t => worker'[<<d, u>>] = worker[<<d, u>>]
         /\ \A d \in Calls : d # c =>
              /\ err'[d] = err[d] /\ grpErr'[d] = grpErr[d] /\ failed'[d] = failed[d]
              /\ d \in raced' <=> d \in raced
<1>0. WorkType
  BY TypeParts
<1>1. <<c, t>> \in Workers
  BY WorkerPairs
<1>2. UNCHANGED <<names, cut>>
  BY DEF Worker, Lock, Descend, Find, Resolve, CutOff, ReturnAsIs, NotSupported, GetFails, CheckErr, ReturnErr, ghosts
<1>3. /\ worker[<<c, t>>] \in {"start"} \cup Inside
      /\ \E s \in Inside \cup {"done"} : \/ worker' = [worker EXCEPT ![<<c, t>>] = s]
                                         \/ worker' = worker /\ worker[<<c, t>>] \in Inside
  BY DEF Worker, Lock, Descend, Find, Resolve, CutOff, ReturnAsIs, NotSupported, GetFails, CheckErr, ReturnErr, Returns, Assigns, Inside
<1>4. \E e \in Errs : \/ err' = [err EXCEPT ![c] = e]
                      \/ err' = err
  <2>1. CASE CheckErr(c, t)
    BY <1>0, <2>1 DEF CheckErr, WorkType, Errs
  <2>2. CASE ~CheckErr(c, t)
    BY <2>2 DEF Worker, Lock, Descend, Find, Resolve, CutOff, ReturnAsIs, NotSupported, GetFails, ReturnErr, Returns, Assigns, Errs
  <2> QED
    BY <2>1, <2>2
<1>5. \E e : grpErr' = [grpErr EXCEPT ![c] = e] \/ grpErr' = grpErr
  BY DEF Worker, Lock, Descend, Find, Resolve, CutOff, ReturnAsIs, NotSupported, GetFails, CheckErr, ReturnErr
<1>6. failed' = [failed EXCEPT ![c] = @ \cup {t}] \/ failed' = failed
  BY DEF Worker, Lock, Descend, Find, Resolve, CutOff, ReturnAsIs, NotSupported, GetFails, CheckErr, ReturnErr, ghosts
<1>7. raced' = raced \cup {c} \/ raced' = raced
  BY DEF Worker, Lock, Descend, Find, Resolve, CutOff, ReturnAsIs, NotSupported, GetFails, CheckErr, ReturnErr, Returns, Assigns, ghosts
<1>8. \A d \in Calls, u \in Types : d # c \/ u # t => worker'[<<d, u>>] = worker[<<d, u>>]
  BY <1>0, <1>1, <1>3, WorkerPairs DEF WorkType
<1>9. worker'[<<c, t>>] \in Inside \cup {"done"}
  BY <1>0, <1>1, <1>3 DEF WorkType
<1>10. \A d \in Calls : d # c =>
         err'[d] = err[d] /\ grpErr'[d] = grpErr[d] /\ failed'[d] = failed[d]
  BY <1>0, <1>4, <1>5, <1>6 DEF WorkType
<1> QED
  BY <1>2, <1>3, <1>7, <1>8, <1>9, <1>10

(* grp.Go starts a goroutine for a type that has none: a type is listed     *)
(* once.                                                                    *)
LEMMA GoStarts ==
  ASSUME TypeOK, CallInv, Go
  PROVE  /\ call \in Calls /\ next \in DOMAIN Listed /\ Listed[next] \in Types
         /\ worker[<<call, Listed[next]>>] = "none" /\ worker'[<<call, Listed[next]>>] = "start"
         /\ \A d \in Calls, u \in Types :
              d # call \/ u # Listed[next] => worker'[<<d, u>>] = worker[<<d, u>>]
<1>0. WorkType /\ CallType
  BY TypeParts
<1>1. Listed \in Seq(Types)
  BY TypesAssumption
<1>2. call \in Calls /\ next \in DOMAIN Listed
  BY <1>0, <1>1 DEF Go, CallInv, CallType
<1>3. Listed[next] \in Types
  BY <1>1, <1>2
<1>4. <<call, Listed[next]>> \in Workers
  BY <1>2, <1>3, WorkerPairs
<1>5. worker[<<call, Listed[next]>>] = "none"
  BY <1>0, <1>2 DEF Go, CallInv, CallType
<1>6. \A d \in Calls, u \in Types :
        d # call \/ u # Listed[next] => worker'[<<d, u>>] = worker[<<d, u>>]
  BY <1>0, <1>2, <1>3, WorkerPairs DEF Go, WorkType
<1> QED
  BY <1>0, <1>2, <1>3, <1>4, <1>5, <1>6 DEF Go, WorkType

(* The other steps of a call leave the goroutines alone.                    *)
LEMMA CallerKeeps ==
  ASSUME Caller, ~Go
  PROVE  UNCHANGED <<tt, worker, grpErr, failed>>
BY DEF Caller, Names, Row, ScanFails, RowsEnd, Close, CheckClose, Wait, ghosts

-----------------------------------------------------------------------------
(* The lock.                                                                *)

(* A goroutine enters only a free lock, and leaves only its own.            *)
LEMMA StepLock == IInv /\ [Next]_vars => LockInv'
<1> SUFFICES ASSUME IInv, [Next]_vars PROVE LockInv'
  OBVIOUS
<1>0. TypeOK /\ WorkType /\ MapType /\ LockInv /\ CallInv
  BY TypeParts DEF IInv
<1>1. CASE Go
  <2>1. UNCHANGED tt
    BY <1>1 DEF Go
  <2>2. \A w \in Workers : worker'[w] = worker[w] \/ (worker[w] = "none" /\ worker'[w] = "start")
    BY <1>0, <1>1, GoStarts, WorkerPairs
  <2> QED
    BY <1>0, <2>1, <2>2 DEF LockInv, Inside, tt
<1>2. CASE Caller /\ ~Go
  BY <1>0, <1>2, CallerKeeps DEF LockInv, tt
<1>3. ASSUME NEW c \in Calls, NEW t \in Types, Worker(c, t) PROVE LockInv'
  <2>0. <<c, t>> \in Workers
    BY WorkerPairs
  <2>1. \A w \in Workers : w # <<c, t>> => worker'[w] = worker[w]
    <3> SUFFICES ASSUME NEW w \in Workers, w # <<c, t>> PROVE worker'[w] = worker[w]
      OBVIOUS
    <3>1. PICK d \in Calls, u \in Types : w = <<d, u>>
      BY WorkerPairs
    <3>2. d # c \/ u # t
      BY <3>1
    <3> QED
      BY <1>0, <1>3, <3>1, <3>2, OthersKept
  <2>2. worker[<<c, t>>] # "start" => mu = {<<c, t>>}
    BY <1>0, <1>3, <2>0, OthersKept DEF LockInv
  <2>3. \A w \in Workers : mu = {w} /\ mu = {<<c, t>>} => w = <<c, t>>
    OBVIOUS
  <2>4. CASE Lock(c, t)
    <3>1. CASE worker'[<<c, t>>] = "done"
      BY <1>0, <2>0, <2>1, <2>4, <3>1 DEF Lock, LockInv, WorkType, Inside, tt
    <3>2. CASE worker'[<<c, t>>] # "done"
      <4>1. /\ mu = {} /\ mu' = {<<c, t>>} /\ worker'[<<c, t>>] = "get"
            /\ stack' = <<[type |-> t, next |-> 1]>>
        BY <1>0, <2>0, <2>4, <3>2 DEF Lock, WorkType
      <4>2. stack' # <<>>
        BY <4>1
      <4>3. \A w \in Workers : w # <<c, t>> => worker'[w] \notin Inside /\ mu' # {w}
        BY <1>0, <2>1, <4>1 DEF LockInv
      <4> QED
        BY <4>1, <4>2, <4>3 DEF LockInv, Inside
    <3> QED
      BY <3>1, <3>2
  <2>5. CASE worker[<<c, t>>] # "start" /\ worker'[<<c, t>>] # "done"
    <3>1. UNCHANGED mu
      <4>1. ~Lock(c, t) /\ ~ReturnErr(c, t)
        BY <1>0, <2>0, <2>5 DEF Lock, ReturnErr, WorkType
      <4> QED
        BY <1>3, <4>1 DEF Worker, Descend, Find, Resolve, CutOff, ReturnAsIs, NotSupported, GetFails, CheckErr, tt
    <3>2. worker[<<c, t>>] \in Inside /\ worker'[<<c, t>>] \in Inside
      BY <1>0, <1>3, <2>5, OthersKept
    <3>3. worker'[<<c, t>>] = "get" <=> stack' # <<>>
      <4>1. CASE Descend(c, t)
        <5>1. stack' # <<>>
          <6>1. stack # <<>>
            BY <1>0, <2>0, <4>1 DEF Descend, LockInv
          <6>2. PICK k : k = Children[Top.type][Top.next] /\ stack' = Pushed(k)
            BY <4>1 DEF Descend
          <6>3. k \in Types
            BY <1>0, <4>1, <6>1, <6>2, ChildType DEF Descend
          <6>4. Len(stack') = Len(stack) + 1 /\ Len(stack) \in Nat
            BY <1>0, <6>1, <6>2, <6>3, PushedFrame, TopFrame
          <6> QED
            BY <6>4
        <5> QED
          BY <1>0, <2>0, <4>1, <5>1 DEF Descend
      <4>2. CASE Ends(c, t)
        <5>1. stack # <<>> /\ stack \in Seq(Frames) /\ Returns(c, t) /\ worker[<<c, t>>] = "get"
          BY <1>0, <2>0, <4>2 DEF Ends, Resolve, CutOff, ReturnAsIs, LockInv, MapType
        <5>2. CASE Len(stack) = 1
          BY <1>0, <2>0, <5>1, <5>2 DEF Returns, Assigns, WorkType
        <5>3. CASE Len(stack) # 1
          <6>1. stack' = Front(stack) /\ UNCHANGED worker
            BY <5>1, <5>3 DEF Returns
          <6>2. Len(stack) - 1 \in Nat /\ Len(stack) - 1 # 0
            BY <5>1, <5>3
          <6>3. Len(stack') = Len(stack) - 1
            BY <1>0, <5>1, <6>1, Popped
          <6> QED
            BY <5>1, <6>1, <6>2, <6>3
        <5> QED
          BY <5>2, <5>3
      <4>3. CASE NotSupported(c, t) \/ GetFails(c, t)
        BY <1>0, <2>0, <4>3 DEF NotSupported, GetFails, Assigns, WorkType
      <4>4. CASE CheckErr(c, t)
        BY <1>0, <2>0, <4>4 DEF CheckErr, WorkType, LockInv, Inside, tt
      <4>5. CASE Find(c, t)
        <5>1. stack # <<>>
          BY <1>0, <2>0, <4>5 DEF Find, LockInv
        <5>2. Len(stack') = Len(stack) /\ Len(stack) \in Nat \ {0}
          BY <1>0, <4>5, <5>1, RenamedFrame, TopFrame DEF Find
        <5>3. stack' # <<>>
          BY <5>2
        <5> QED
          BY <4>5, <5>3 DEF Find
      <4> QED
        BY <1>0, <1>3, <2>0, <2>5, <4>1, <4>2, <4>3, <4>4, <4>5 DEF Worker, Ends, Lock, ReturnErr, WorkType
    <3>4. mu' = {<<c, t>>}
      BY <2>2, <2>5, <3>1
    <3>5. \A w \in Workers : w # <<c, t>> => worker'[w] \notin Inside /\ mu' # {w}
      BY <1>0, <2>0, <2>1, <2>2, <2>3, <2>5, <3>4 DEF LockInv
    <3> QED
      BY <3>2, <3>3, <3>4, <3>5 DEF LockInv, Inside
  <2>6. CASE ReturnErr(c, t)
    <3>1. mu' = {} /\ worker'[<<c, t>>] = "done" /\ mu = {<<c, t>>}
      BY <1>0, <2>0, <2>2, <2>6 DEF ReturnErr, WorkType
    <3>2. \A w \in Workers : w # <<c, t>> => worker'[w] \notin Inside
      BY <1>0, <2>0, <2>1, <3>1 DEF LockInv
    <3> QED
      BY <3>1, <3>2 DEF LockInv, Inside
  <2>7. worker[<<c, t>>] # "start" /\ worker'[<<c, t>>] = "done" => ReturnErr(c, t)
    BY <1>0, <1>3, <2>0 DEF Worker, Lock, Descend, Find, Resolve, CutOff, ReturnAsIs, NotSupported, GetFails, CheckErr, Returns, Assigns, WorkType
  <2>8. worker[<<c, t>>] = "start" => Lock(c, t)
    BY <1>3 DEF Worker, Descend, Find, Resolve, CutOff, ReturnAsIs, NotSupported, GetFails, CheckErr, ReturnErr
  <2> QED
    BY <2>4, <2>5, <2>6, <2>7, <2>8
<1>4. CASE UNCHANGED vars
  BY <1>0, <1>4 DEF vars, tt, LockInv
<1> QED
  BY <1>1, <1>2, <1>3, <1>4 DEF Next, Terminated

-----------------------------------------------------------------------------
(* The calls.                                                               *)

(* A goroutine that runs belongs to a call that was begun, and the call that*)
(* waited for its goroutines has none that run.                             *)
LEMMA RunningCall ==
  ASSUME TypeOK, CallInv, NEW c \in Calls, NEW t \in Types,
         worker[<<c, t>>] \in {"start"} \cup Inside
  PROVE  /\ c <= call
         /\ \A a \in DOMAIN answers : a = c => answers[a].how # "waited"
         /\ pc \in {"row", "go"} =>
              \A i \in DOMAIN Listed : i >= next => c # call \/ t # Listed[i]
<1>1. call \in Nat /\ c \in Nat
  BY TypeParts DEF CallType, Calls
<1> QED
  BY <1>1 DEF CallInv, Inside

(* An answer adds one to the answers.                                       *)
LEMMA Answering ==
  ASSUME CallType, NEW r, answers' = Append(answers, r)
  PROVE  /\ Len(answers') = Len(answers) + 1 /\ Len(answers) \in Nat
         /\ DOMAIN answers = 1..Len(answers) /\ DOMAIN answers' = 1..(Len(answers) + 1)
         /\ \A a \in DOMAIN answers' : a \in DOMAIN answers \/ a = Len(answers) + 1
         /\ \A a \in DOMAIN answers : answers'[a] = answers[a]
         /\ answers'[Len(answers) + 1] = r
<1>1. answers \in Seq(Results) /\ Len(answers) \in Nat
  BY DEF CallType
<1>2. DOMAIN answers = 1..Len(answers) /\ DOMAIN answers' = 1..(Len(answers) + 1)
  BY <1>1
<1>3. \A a \in DOMAIN answers' : a \in DOMAIN answers \/ a = Len(answers) + 1
  BY <1>1, <1>2
<1> QED
  BY <1>1, <1>2, <1>3

(* What is answered is a call.                                             *)
LEMMA AnsweredCalls ==
  ASSUME CallType, CallInv
  PROVE  DOMAIN answers \subseteq Calls /\ \A a \in DOMAIN answers : a <= call
<1>1. Len(answers) \in Nat /\ DOMAIN answers = 1..Len(answers) /\ call \in 0..MaxCalls
  BY DEF CallType
<1>2. Len(answers) <= call
  BY <1>1 DEF CallInv
<1>3. MaxCalls \in Nat
  BY TypesAssumption
<1> QED
  BY <1>1, <1>2, <1>3 DEF Calls

(* The goroutines of a call are none before it begins, and none run after   *)
(* it waited for them.                                                      *)
LEMMA StepCall == IInv /\ [Next]_vars => CallInv'
<1> SUFFICES ASSUME IInv, [Next]_vars PROVE CallInv'
  OBVIOUS
<1>0. TypeOK /\ WorkType /\ CallType /\ CallInv /\ MaxCalls \in Nat /\ Listed \in Seq(Types)
  BY TypeParts, TypesAssumption DEF IInv
<1>1. CASE Names
  <2>0. /\ pc = "ready" /\ call' = call + 1 /\ call' \in Calls /\ call \in Nat
        /\ Len(answers) = call /\ UNCHANGED <<tt, err, grpErr, worker, ghosts>> /\ next' = 1
    BY <1>0, <1>1 DEF Names, CallInv, CallType, Calls
  <2>1. /\ \A c \in Calls : c > call' => c > call
        /\ \A t \in Types : worker[<<call', t>>] = "none"
    BY <1>0, <2>0 DEF CallInv, Calls
  <2>2. \A i \in DOMAIN Listed : worker'[<<call', Listed[i]>>] = "none"
    BY <1>0, <2>0, <2>1
  <2>3. CASE UNCHANGED answers /\ pc' \in {"row", "dead"}
    <3>1. Len(answers') = call' - 1
      BY <2>0, <2>3
    <3> QED
      BY <1>0, <2>0, <2>1, <2>2, <2>3, <3>1 DEF CallInv, ghosts
  <2>4. ASSUME NEW e, NEW ns, NEW how \in {"map", "early"}, Answer(only', e, ns, how)
        PROVE  CallInv'
    <3>1. /\ pc' = "ready" /\ Len(answers') = call' /\ DOMAIN answers' = 1..(Len(answers) + 1)
          /\ \A a \in DOMAIN answers : answers'[a] = answers[a]
          /\ answers'[Len(answers) + 1].how \in {"map", "early"}
          /\ \A a \in DOMAIN answers' : a \in DOMAIN answers \/ a = Len(answers) + 1
      <4>1. /\ pc' = "ready" /\ Len(answers') = Len(answers) + 1 /\ Len(answers) \in Nat
            /\ DOMAIN answers = 1..Len(answers) /\ DOMAIN answers' = 1..(Len(answers) + 1)
            /\ \A a \in DOMAIN answers' : a \in DOMAIN answers \/ a = Len(answers) + 1
            /\ \A a \in DOMAIN answers : answers'[a] = answers[a]
            /\ answers'[Len(answers) + 1] = [only |-> only', err |-> e, names |-> ns, how |-> how]
        BY <1>0, <2>4, Answering DEF Answer
      <4> QED
        BY <4>1, <2>0
    <3>2. \A a \in DOMAIN answers' : answers'[a].how = "waited" =>
            \A t \in Types : worker'[<<a, t>>] \in {"none", "done"}
      BY <1>0, <2>0, <3>1 DEF CallInv
    <3> QED
      BY <1>0, <2>0, <2>1, <3>1, <3>2 DEF CallInv, ghosts
  <2> QED
    BY <1>1, <2>3, <2>4 DEF Names
<1>2. CASE Row \/ RowsEnd \/ Close
  <2>1. /\ call \in Calls /\ pc' # "ready" /\ pc # "ready"
        /\ UNCHANGED <<call, answers, grpErr, worker, failed>>
    BY <1>0, <1>2 DEF CallInv, Row, RowsEnd, Close, ghosts
  <2>2. \A c \in Calls : c > call => c # call
    BY <1>0 DEF CallType, Calls
  <2>3. \A c \in Calls : c > call => err'[c] = err[c] /\ (c \in raced' \cup cut' <=> c \in raced \cup cut)
    BY <1>0, <1>2, <2>2 DEF Row, RowsEnd, Close, ghosts, WorkType
  <2>4. /\ pc' = "go" => next' <= Len(Listed)
        /\ pc' \in {"row", "go"} =>
             pc = "row" /\ \A i \in DOMAIN Listed : i >= next' => i >= next
    BY <1>0, <1>2 DEF Row, RowsEnd, Close, CallType
  <2> QED
    BY <1>0, <2>1, <2>3, <2>4 DEF CallInv
<1>3. CASE ScanFails \/ CheckClose \/ Wait
  <2>1. /\ call \in Calls /\ pc # "ready" /\ Len(answers) = call - 1 /\ call \in Nat \ {0}
        /\ UNCHANGED <<call, next, only, grpErr, worker, failed, raced, cut>>
    BY <1>0, <1>3 DEF CallInv, ScanFails, CheckClose, Wait, ghosts, Calls
  <2>2. \A c \in Calls : c > call => err'[c] = err[c]
    BY <1>0, <1>3 DEF ScanFails, CheckClose, Wait, WorkType, CallType, Calls
  <2>3. CASE CheckClose /\ pc' = "wait"
    <3>1. UNCHANGED answers
      BY <2>3 DEF CheckClose, Answer
    <3> QED
      BY <1>0, <2>1, <2>2, <2>3, <3>1 DEF CallInv
  <2>4. ASSUME NEW e, NEW ns, NEW how, Answer(only, e, ns, how),
               how = "waited" => \A t \in Types : worker[<<call, t>>] \in {"none", "done"}
        PROVE  CallInv'
    <3>1. /\ pc' = "ready" /\ Len(answers') = call /\ DOMAIN answers' = 1..(Len(answers) + 1)
          /\ \A a \in DOMAIN answers : answers'[a] = answers[a]
          /\ answers'[Len(answers) + 1].how = how
          /\ \A a \in DOMAIN answers' : a \in DOMAIN answers \/ a = Len(answers) + 1
      <4>1. /\ pc' = "ready" /\ Len(answers') = Len(answers) + 1 /\ Len(answers) \in Nat
            /\ DOMAIN answers = 1..Len(answers) /\ DOMAIN answers' = 1..(Len(answers) + 1)
            /\ \A a \in DOMAIN answers' : a \in DOMAIN answers \/ a = Len(answers) + 1
            /\ \A a \in DOMAIN answers : answers'[a] = answers[a]
            /\ answers'[Len(answers) + 1] = [only |-> only, err |-> e, names |-> ns, how |-> how]
        BY <1>0, <2>4, Answering DEF Answer
      <4> QED
        BY <4>1, <2>1
    <3>2. \A a \in DOMAIN answers' : answers'[a].how = "waited" =>
            \A t \in Types : worker'[<<a, t>>] \in {"none", "done"}
      BY <1>0, <2>1, <2>4, <3>1 DEF CallInv
    <3> QED
      BY <1>0, <2>1, <2>2, <3>1, <3>2 DEF CallInv
  <2>5. CASE Wait
    <3>1. \A t \in Types : worker[<<call, t>>] \in {"none", "done"}
      BY <2>5 DEF Wait, AllReturned, Active
    <3> QED
      BY <2>4, <2>5, <3>1 DEF Wait
  <2> QED
    BY <1>3, <2>3, <2>4, <2>5 DEF ScanFails, CheckClose
<1>4. CASE Go
  <2>1. UNCHANGED <<call, answers, err, grpErr, ghosts>> /\ next' = next + 1 /\ pc' = "row" /\ pc = "go"
    BY <1>4 DEF Go
  <2>2. /\ call \in Calls /\ next \in DOMAIN Listed /\ worker[<<call, Listed[next]>>] = "none"
        /\ \A d \in Calls, u \in Types :
             d # call \/ u # Listed[next] => worker'[<<d, u>>] = worker[<<d, u>>]
    BY <1>0, <1>4, GoStarts
  <2>3. ASSUME NEW i \in DOMAIN Listed, i >= next'
        PROVE  worker'[<<call, Listed[i]>>] = "none"
    <3>1. i >= next /\ i # next /\ Listed[i] \in Types
      BY <1>0, <2>1, <2>3 DEF CallType
    <3>2. Listed[i] # Listed[next]
      BY <2>2, <3>1, TypesAssumption
    <3> QED
      BY <1>0, <2>1, <2>2, <3>1, <3>2 DEF CallInv
  <2>4. \A c \in Calls : c > call => \A t \in Types : worker'[<<c, t>>] = "none"
    BY <1>0, <2>2 DEF CallInv, CallType, Calls
  <2>5. ASSUME NEW a \in DOMAIN answers, answers[a].how = "waited", NEW t \in Types
        PROVE  worker'[<<a, t>>] \in {"none", "done"}
    <3>1. a \in Calls /\ a # call
      BY <1>0, <2>1 DEF CallInv, CallType, Calls
    <3> QED
      BY <1>0, <2>2, <2>5, <3>1 DEF CallInv
  <2> QED
    BY <1>0, <2>1, <2>3, <2>4, <2>5 DEF CallInv, ghosts
<1>5. ASSUME NEW c \in Calls, NEW t \in Types, Worker(c, t) PROVE CallInv'
  <2>1. /\ UNCHANGED <<names, cut>> /\ worker[<<c, t>>] \in {"start"} \cup Inside
        /\ \A d \in Calls, u \in Types : d # c \/ u # t => worker'[<<d, u>>] = worker[<<d, u>>]
        /\ \A d \in Calls : d # c =>
             /\ err'[d] = err[d] /\ grpErr'[d] = grpErr[d] /\ failed'[d] = failed[d]
             /\ d \in raced' <=> d \in raced
    BY <1>0, <1>5, OthersKept
  <2>2. /\ c <= call
        /\ \A a \in DOMAIN answers : a = c => answers[a].how # "waited"
        /\ pc \in {"row", "go"} =>
             \A i \in DOMAIN Listed : i >= next => c # call \/ t # Listed[i]
    BY <1>0, <2>1, RunningCall
  <2>3. \A d \in Calls : d > call => d # c
    BY <1>0, <2>2 DEF CallType, Calls
  <2>4. \A d \in Calls : d > call =>
          /\ \A u \in Types : worker'[<<d, u>>] = "none"
          /\ err'[d] = "nil" /\ grpErr'[d] = "nil" /\ failed'[d] = {} /\ d \notin raced' \cup cut'
    BY <1>0, <2>1, <2>3 DEF CallInv
  <2>5. pc \in {"row", "go"} =>
          \A i \in DOMAIN Listed : i >= next => worker'[<<call, Listed[i]>>] = "none"
    <3> SUFFICES ASSUME pc \in {"row", "go"}, NEW i \in DOMAIN Listed, i >= next
                 PROVE  worker'[<<call, Listed[i]>>] = "none"
      OBVIOUS
    <3>1. call \in Calls /\ Listed[i] \in Types
      BY <1>0 DEF CallInv
    <3> QED
      BY <1>0, <2>1, <2>2, <3>1 DEF CallInv
  <2>6. ASSUME NEW a \in DOMAIN answers, answers[a].how = "waited", NEW u \in Types
        PROVE  worker'[<<a, u>>] \in {"none", "done"}
    <3>1. a \in Calls
      BY <1>0 DEF CallInv, CallType, Calls
    <3> QED
      BY <1>0, <2>1, <2>2, <2>6, <3>1 DEF CallInv
  <2> QED
    BY <1>0, <2>1, <2>4, <2>5, <2>6 DEF CallInv, names
<1>6. CASE UNCHANGED vars
  BY <1>0, <1>6 DEF vars, names, ghosts, CallInv
<1> QED
  BY <1>1, <1>2, <1>3, <1>4, <1>5, <1>6 DEF Next, Caller, Terminated

-----------------------------------------------------------------------------
(* The errors.                                                              *)

(* No two goroutines are between Lock and Unlock.                           *)
LEMMA Alone ==
  ASSUME LockInv, NEW c \in Calls, NEW t \in Types, worker[<<c, t>>] \in Inside
  PROVE  \A d \in Calls, u \in Types : d # c \/ u # t => worker[<<d, u>>] \notin Inside
<1> SUFFICES ASSUME NEW d \in Calls, NEW u \in Types, worker[<<d, u>>] \in Inside
             PROVE  d = c /\ u = t
  OBVIOUS
<1>1. mu = {<<c, t>>} /\ mu = {<<d, u>>}
  BY WorkerPairs DEF LockInv
<1> QED
  BY <1>1

(* err holds a failure until its goroutine has told the group, and what is  *)
(* not supported is forgotten before: unless another assigned in between.   *)
LEMMA StepErr == IInv /\ [Next]_vars => ErrInv'
<1> SUFFICES ASSUME IInv, [Next]_vars PROVE ErrInv'
  OBVIOUS
<1>0. TypeOK /\ WorkType /\ CallType /\ CallInv /\ LockInv /\ ErrInv
  BY TypeParts DEF IInv
<1>1. CASE Names \/ Row \/ ScanFails \/ RowsEnd \/ CheckClose
  <2>1. UNCHANGED <<err, grpErr, worker, failed, raced>> /\ pc' # "check"
    BY <1>1 DEF Names, Row, ScanFails, RowsEnd, CheckClose, Answer, ghosts
  <2> QED
    BY <1>0, <2>1 DEF ErrInv
<1>2. CASE Go
  <2>1. UNCHANGED <<err, grpErr, failed, raced>> /\ pc' # "check"
    BY <1>2 DEF Go, ghosts
  <2>2. \A c \in Calls, t \in Types :
          worker'[<<c, t>>] = worker[<<c, t>>] \/
            (worker[<<c, t>>] = "none" /\ worker'[<<c, t>>] = "start")
    BY <1>0, <1>2, GoStarts
  <2>3. \A c \in Calls, t \in Types :
          /\ worker'[<<c, t>>] = "checked" <=> worker[<<c, t>>] = "checked"
          /\ worker'[<<c, t>>] = "assigned" <=> worker[<<c, t>>] = "assigned"
    BY <2>2
  <2> QED
    BY <1>0, <2>1, <2>3 DEF ErrInv
<1>3. CASE Close
  <2>1. call \in Calls /\ UNCHANGED <<call, grpErr, worker, failed>>
    BY <1>0, <1>3 DEF Close, CallInv
  <2>2. err'[call] \in {"nil", "failed"} /\ \A c \in Calls : c # call => err'[c] = err[c]
    BY <1>0, <1>3, <2>1 DEF Close, WorkType
  <2>3. /\ raced \subseteq raced' /\ \A c \in Calls : c # call => (c \in raced' <=> c \in raced)
        /\ call \notin raced' => \A t \in Types : worker[<<call, t>>] \notin {"assigned", "checked"}
    BY <1>3 DEF Close
  <2>4. ASSUME NEW c \in Calls, c \notin raced'
        PROVE /\ failed'[c] # {} => grpErr'[c] # "nil" \/ (err'[c] = "failed" /\ \E t \in Types :
                                                   worker'[<<c, t>>] \in {"assigned", "checked"})
              /\ grpErr'[c] # "unsupported"
              /\ (\E t \in Types : worker'[<<c, t>>] = "checked") => err'[c] # "unsupported"
    <3>1. CASE c = call
      BY <1>0, <2>1, <2>2, <2>3, <2>4, <3>1 DEF ErrInv
    <3>2. CASE c # call
      BY <1>0, <2>1, <2>2, <2>3, <2>4, <3>2 DEF ErrInv
    <3> QED
      BY <3>1, <3>2
  <2> QED
    BY <2>1, <2>2, <2>4 DEF ErrInv
<1>4. CASE Wait
  <2>1. call \in Calls /\ UNCHANGED <<call, grpErr, worker, failed, raced>> /\ pc' = "ready"
    BY <1>0, <1>4 DEF Wait, CallInv, Answer, ghosts
  <2>2. \A c \in Calls : c # call => err'[c] = err[c]
    BY <1>0, <1>4 DEF Wait, WorkType
  <2>3. \A t \in Types : worker[<<call, t>>] \notin {"assigned", "checked"}
    BY <1>4 DEF Wait, AllReturned, Active
  <2>4. ASSUME NEW c \in Calls, c \notin raced'
        PROVE /\ failed'[c] # {} => grpErr'[c] # "nil" \/ (err'[c] = "failed" /\ \E t \in Types :
                                                   worker'[<<c, t>>] \in {"assigned", "checked"})
              /\ grpErr'[c] # "unsupported"
              /\ (\E t \in Types : worker'[<<c, t>>] = "checked") => err'[c] # "unsupported"
    <3>1. CASE c = call
      BY <1>0, <2>1, <2>3, <2>4, <3>1 DEF ErrInv
    <3>2. CASE c # call
      BY <1>0, <2>1, <2>2, <2>4, <3>2 DEF ErrInv
    <3> QED
      BY <3>1, <3>2
  <2> QED
    BY <2>1, <2>4 DEF ErrInv
<1>5. ASSUME NEW c \in Calls, NEW t \in Types, Worker(c, t) PROVE ErrInv'
  <2>0. <<c, t>> \in Workers
    BY WorkerPairs
  <2>1. /\ UNCHANGED <<names, cut>> /\ worker[<<c, t>>] \in {"start"} \cup Inside
        /\ \A d \in Calls, u \in Types : d # c \/ u # t => worker'[<<d, u>>] = worker[<<d, u>>]
        /\ \A d \in Calls : d # c =>
             /\ err'[d] = err[d] /\ grpErr'[d] = grpErr[d] /\ failed'[d] = failed[d]
             /\ d \in raced' <=> d \in raced
    BY <1>0, <1>5, OthersKept
  <2>2. worker[<<c, t>>] \in Inside =>
          \A u \in Types : u # t => worker[<<c, u>>] \notin Inside /\ worker'[<<c, u>>] \notin Inside
    BY <1>0, <2>1, Alone
  <2>3. raced \subseteq raced'
    BY <1>5 DEF Worker, Lock, Descend, Find, Resolve, CutOff, ReturnAsIs, NotSupported, GetFails, CheckErr, ReturnErr, Returns, Assigns, ghosts
  <2>4. ASSUME NEW d \in Calls, d # c, d \notin raced'
        PROVE /\ failed'[d] # {} => grpErr'[d] # "nil" \/ (err'[d] = "failed" /\ \E u \in Types :
                                                   worker'[<<d, u>>] \in {"assigned", "checked"})
              /\ grpErr'[d] # "unsupported"
              /\ (\E u \in Types : worker'[<<d, u>>] = "checked") => err'[d] # "unsupported"
    <3>1. d \notin raced /\ err'[d] = err[d] /\ grpErr'[d] = grpErr[d] /\ failed'[d] = failed[d]
      BY <2>1, <2>4
    <3>2. \A u \in Types : worker'[<<d, u>>] = worker[<<d, u>>]
      BY <2>1, <2>4
    <3>3. /\ failed[d] # {} => grpErr[d] # "nil" \/ (err[d] = "failed" /\ \E u \in Types :
                                                   worker[<<d, u>>] \in {"assigned", "checked"})
          /\ grpErr[d] # "unsupported"
          /\ (\E u \in Types : worker[<<d, u>>] = "checked") => err[d] # "unsupported"
      BY <1>0, <3>1 DEF ErrInv
    <3> QED
      BY <3>1, <3>2, <3>3
  <2>5. ASSUME c \notin raced'
        PROVE /\ failed'[c] # {} => grpErr'[c] # "nil" \/ (err'[c] = "failed" /\ \E u \in Types :
                                                   worker'[<<c, u>>] \in {"assigned", "checked"})
              /\ grpErr'[c] # "unsupported"
              /\ (\E u \in Types : worker'[<<c, u>>] = "checked") => err'[c] # "unsupported"
              /\ pc = "check" /\ c = call => err'[c] # "unsupported"
    <3>0. /\ c \notin raced
          /\ failed[c] # {} => grpErr[c] # "nil" \/ (err[c] = "failed" /\ \E u \in Types :
                                                   worker[<<c, u>>] \in {"assigned", "checked"})
          /\ grpErr[c] # "unsupported"
          /\ (\E u \in Types : worker[<<c, u>>] = "checked") => err[c] # "unsupported"
          /\ pc = "check" /\ c = call => err[c] # "unsupported"
      BY <1>0, <2>3, <2>5 DEF ErrInv
    <3>1. CASE Lock(c, t)
      <4>1. /\ UNCHANGED <<err, grpErr, failed>> /\ worker[<<c, t>>] = "start"
            /\ worker'[<<c, t>>] \in {"get", "done"}
        BY <1>0, <2>0, <3>1 DEF Lock, WorkType, ghosts
      <4> QED
        BY <2>1, <3>0, <4>1
    <3>2. CASE Descend(c, t)
      BY <3>0, <3>2 DEF Descend, ghosts
    <3>3. ASSUME NEW e \in {"nil", "unsupported", "failed"}, Assigns(c, t, e),
                 worker[<<c, t>>] = "get", UNCHANGED grpErr,
                 failed' = failed \/ e = "failed"
          PROVE  /\ failed'[c] # {} => grpErr'[c] # "nil" \/ (err'[c] = "failed" /\ \E u \in Types :
                                                   worker'[<<c, u>>] \in {"assigned", "checked"})
                 /\ grpErr'[c] # "unsupported"
                 /\ (\E u \in Types : worker'[<<c, u>>] = "checked") => err'[c] # "unsupported"
                 /\ pc = "check" /\ c = call => err'[c] # "unsupported"
      <4>1. err'[c] = e /\ worker'[<<c, t>>] = "assigned" /\ (c = call => pc # "check")
        BY <1>0, <2>0, <2>5, <3>3 DEF Assigns, WorkType
      <4>2. \A u \in Types : worker[<<c, u>>] \notin {"assigned", "checked"}
        BY <2>2, <3>3 DEF Inside
      <4>3. \A u \in Types : worker'[<<c, u>>] # "checked"
        BY <2>1, <4>1, <4>2
      <4> QED
        BY <3>0, <3>3, <4>1, <4>2, <4>3
    <3>4. CASE Ends(c, t)
      <4>0. /\ Returns(c, t) /\ worker[<<c, t>>] = "get" /\ UNCHANGED <<grpErr, failed>>
        BY <3>4 DEF Ends, Resolve, CutOff, ReturnAsIs
      <4>1. CASE Len(stack) = 1
        BY <3>3, <4>0, <4>1 DEF Returns
      <4>2. CASE Len(stack) # 1
        BY <3>0, <4>0, <4>2 DEF Returns
      <4> QED
        BY <4>1, <4>2
    <3>5. CASE NotSupported(c, t)
      BY <3>3, <3>5 DEF NotSupported
    <3>6. CASE GetFails(c, t)
      BY <3>3, <3>6 DEF GetFails
    <3>7. CASE CheckErr(c, t)
      <4>1. UNCHANGED <<grpErr, failed>> /\ worker[<<c, t>>] = "assigned" /\ worker'[<<c, t>>] = "checked"
        BY <1>0, <2>0, <3>7 DEF CheckErr, WorkType, ghosts
      <4>2. err'[c] # "unsupported" /\ (err[c] = "failed" => err'[c] = "failed")
        BY <1>0, <3>7 DEF CheckErr, WorkType
      <4> QED
        BY <3>0, <4>1, <4>2
    <3>8. CASE ReturnErr(c, t)
      <4>1. UNCHANGED <<err, failed>> /\ worker[<<c, t>>] = "checked" /\ worker'[<<c, t>>] = "done"
        BY <1>0, <2>0, <3>8 DEF ReturnErr, WorkType, ghosts
      <4>2. grpErr'[c] = IF grpErr[c] = "nil" THEN err[c] ELSE grpErr[c]
        BY <1>0, <3>8 DEF ReturnErr, FirstError, WorkType
      <4>3. \A u \in Types : worker'[<<c, u>>] # "checked"
        BY <2>2, <4>1 DEF Inside
      <4> QED
        BY <3>0, <4>1, <4>2, <4>3
    <3>9. CASE Find(c, t)
      BY <3>0, <3>9 DEF Find, ghosts
    <3> QED
      BY <1>5, <3>1, <3>2, <3>4, <3>5, <3>6, <3>7, <3>8, <3>9 DEF Worker, Ends
  <2>6. pc' = "check" /\ call' \notin raced' => err'[call'] # "unsupported"
    <3>1. CASE c = call
      BY <2>1, <2>5, <3>1 DEF names
    <3>2. CASE c # call
      <4>1. pc = "check" => call \in Calls
        BY <1>0 DEF CallInv
      <4> QED
        BY <1>0, <2>1, <3>2, <4>1 DEF ErrInv, names
    <3> QED
      BY <3>1, <3>2
  <2> QED
    BY <2>4, <2>5, <2>6 DEF ErrInv
<1>6. CASE UNCHANGED vars
  BY <1>0, <1>6 DEF vars, names, ghosts, ErrInv
<1> QED
  BY <1>1, <1>2, <1>3, <1>4, <1>5, <1>6 DEF Next, Caller, Terminated

(* A call that waited answers with what its group heard of.                 *)
LEMMA StepFailureTold == IInv /\ [Next]_vars => FailureTold'
<1> SUFFICES ASSUME IInv, [Next]_vars PROVE FailureTold'
  OBVIOUS
<1>0. TypeOK /\ WorkType /\ CallType /\ CallInv /\ ErrInv /\ FailureTold
  BY TypeParts DEF IInv
<1>1. \A a \in DOMAIN answers : a \in Calls
  BY <1>0, AnsweredCalls
<1>2. ASSUME NEW e, NEW ns, NEW how, NEW o, answers' = Append(answers, [only |-> o, err |-> e, names |-> ns, how |-> how]),
             Len(answers') = call', UNCHANGED <<failed, raced>>,
             how = "waited" /\ e = "nil" /\ failed[call'] # {} => call' \in raced,
             e = "unsupported" => call' \in raced
      PROVE  FailureTold'
  <2>1. /\ Len(answers') = Len(answers) + 1
        /\ \A a \in DOMAIN answers' : a \in DOMAIN answers \/ a = Len(answers) + 1
        /\ \A a \in DOMAIN answers : answers'[a] = answers[a]
        /\ answers'[Len(answers) + 1] = [only |-> o, err |-> e, names |-> ns, how |-> how]
    BY <1>0, <1>2, Answering
  <2>2. /\ answers'[call'].how = how /\ answers'[call'].err = e
        /\ \A a \in DOMAIN answers' : a \in DOMAIN answers \/ a = call'
    BY <1>2, <2>1
  <2> SUFFICES ASSUME NEW a \in DOMAIN answers'
               PROVE  /\ answers'[a].how = "waited" /\ answers'[a].err = "nil" /\ failed'[a] # {} => a \in raced'
                      /\ answers'[a].err = "unsupported" => a \in raced'
    BY DEF FailureTold, Answered
  <2>3. CASE a \in DOMAIN answers
    BY <1>0, <1>2, <2>1, <2>3 DEF FailureTold, Answered
  <2>4. CASE a = call'
    BY <1>2, <2>2, <2>4
  <2> QED
    BY <2>2, <2>3, <2>4
<1>3. CASE UNCHANGED <<answers, failed>> /\ raced \subseteq raced'
  BY <1>0, <1>3 DEF FailureTold, Answered
<1>4. CASE Names
  <2>1. pc = "ready" /\ UNCHANGED <<failed, raced>> /\ call' = call + 1
    BY <1>4 DEF Names, ghosts
  <2>2. CASE UNCHANGED answers
    BY <1>3, <2>1, <2>2
  <2>3. ASSUME NEW e \in {"nil", "failed"}, NEW ns, NEW how \in {"map", "early"}, NEW o,
               answers' = Append(answers, [only |-> o, err |-> e, names |-> ns, how |-> how])
        PROVE  FailureTold'
    <3>1. Len(answers') = call'
      BY <1>0, <2>1, <2>3, Answering DEF CallInv
    <3> QED
      BY <1>2, <2>1, <2>3, <3>1
  <2> QED
    BY <1>4, <2>2, <2>3 DEF Names, Answer
<1>5. CASE Row \/ RowsEnd \/ Go \/ Close
  BY <1>3, <1>5 DEF Row, RowsEnd, Go, Close, ghosts
<1>6. CASE ScanFails \/ CheckClose \/ Wait
  <2>1. call \in Calls /\ UNCHANGED <<call, failed, raced>> /\ Len(answers) = call - 1 /\ pc # "ready" /\ call \in Nat
    BY <1>0, <1>6 DEF CallInv, ScanFails, CheckClose, Wait, ghosts, Calls
  <2>2. CASE UNCHANGED answers
    BY <1>3, <2>1, <2>2
  <2>3. ASSUME NEW e, NEW ns, NEW how, NEW o,
               answers' = Append(answers, [only |-> o, err |-> e, names |-> ns, how |-> how]),
               how = "waited" /\ e = "nil" /\ failed[call] # {} => call \in raced,
               e = "unsupported" => call \in raced
        PROVE  FailureTold'
    <3>1. Len(answers') = call'
      BY <1>0, <2>1, <2>3, Answering
    <3> QED
      BY <1>2, <2>1, <2>3, <3>1
  <2>4. CASE ScanFails
    BY <2>3, <2>4 DEF ScanFails, Answer
  <2>5. CASE CheckClose
    <3>1. err[call] = "unsupported" => call \in raced
      BY <1>0, <2>5 DEF CheckClose, ErrInv
    <3> QED
      BY <2>2, <2>3, <2>5, <3>1 DEF CheckClose, Answer
  <2>6. CASE Wait
    <3>1. \A t \in Types : worker[<<call, t>>] \notin {"assigned", "checked"}
      BY <2>6 DEF Wait, AllReturned, Active
    <3>2. /\ grpErr[call] = "unsupported" => call \in raced
          /\ grpErr[call] = "nil" /\ failed[call] # {} => call \in raced
      BY <1>0, <2>1, <3>1 DEF ErrInv
    <3> QED
      BY <2>3, <2>6, <3>2 DEF Wait, Answer
  <2> QED
    BY <1>6, <2>4, <2>5, <2>6
<1>7. ASSUME NEW c \in Calls, NEW t \in Types, Worker(c, t) PROVE FailureTold'
  <2>1. /\ UNCHANGED answers /\ worker[<<c, t>>] \in {"start"} \cup Inside
        /\ \A d \in Calls : d # c => failed'[d] = failed[d]
    BY <1>0, <1>7, OthersKept DEF names
  <2>2. raced \subseteq raced'
    BY <1>7 DEF Worker, Lock, Descend, Find, Resolve, CutOff, ReturnAsIs, NotSupported, GetFails, CheckErr, ReturnErr, Returns, Assigns, ghosts
  <2>3. \A a \in DOMAIN answers : answers[a].how = "waited" => a # c
    BY <1>0, <2>1, RunningCall
  <2> QED
    BY <1>0, <1>1, <2>1, <2>2, <2>3 DEF FailureTold, Answered
<1>8. CASE UNCHANGED vars
  BY <1>3, <1>8 DEF vars, names, ghosts
<1> QED
  BY <1>4, <1>5, <1>6, <1>7, <1>8 DEF Next, Caller, Terminated

-----------------------------------------------------------------------------
(* The map.                                                                 *)

(* What is in the map stays there, and a goroutine that was started is not  *)
(* forgotten.                                                               *)
LEMMA NothingLeaves ==
  ASSUME TypeOK, CallInv, [Next]_vars
  PROVE  /\ Keys \subseteq Keys' /\ \A t \in Types : m[t] # "absent" => m'[t] # "absent"
         /\ \A c \in Calls, t \in Types : worker[<<c, t>>] # "none" => worker'[<<c, t>>] # "none"
         /\ cut \subseteq cut'
<1>0. MapType
  BY TypeParts
<1>1. CASE Caller
  <2>1. m' = m /\ cut \subseteq cut'
    BY <1>1 DEF Caller, Names, Row, ScanFails, RowsEnd, Go, Close, CheckClose, Wait, tt, ghosts
  <2>2. CASE Go
    <3>1. \A c \in Calls, t \in Types :
            worker'[<<c, t>>] = worker[<<c, t>>] \/ worker'[<<c, t>>] = "start"
      BY <2>2, GoStarts
    <3> QED
      BY <2>1, <3>1 DEF Keys
  <2>3. CASE ~Go
    BY <1>1, <2>1, <2>3, CallerKeeps DEF Keys
  <2> QED
    BY <2>2, <2>3
<1>2. ASSUME NEW c \in Calls, NEW t \in Types, Worker(c, t)
      PROVE  /\ Keys \subseteq Keys' /\ \A u \in Types : m[u] # "absent" => m'[u] # "absent"
             /\ \A d \in Calls, u \in Types : worker[<<d, u>>] # "none" => worker'[<<d, u>>] # "none"
             /\ cut \subseteq cut'
  <2>1. /\ cut' = cut /\ worker'[<<c, t>>] \in Inside \cup {"done"}
        /\ \A d \in Calls, u \in Types : d # c \/ u # t => worker'[<<d, u>>] = worker[<<d, u>>]
    BY <1>2, OthersKept
  <2>2. \A d \in Calls, u \in Types : worker[<<d, u>>] # "none" => worker'[<<d, u>>] # "none"
    BY <2>1 DEF Inside
  <2>3. m' = m \/ \E k, s : m' = [m EXCEPT ![k] = s] /\ s \in {"placeholder", "resolved", "partial"}
    BY <1>2 DEF Worker, Lock, Descend, Find, Resolve, CutOff, ReturnAsIs, NotSupported, GetFails, CheckErr, ReturnErr, tt
  <2>4. \A u \in Types : m[u] # "absent" => m'[u] # "absent"
    BY <1>0, <2>3 DEF MapType
  <2> QED
    BY <2>1, <2>2, <2>4 DEF Keys
<1>3. CASE UNCHANGED vars
  BY <1>3 DEF vars, tt, ghosts, Keys
<1> QED
  BY <1>1, <1>2, <1>3 DEF Next, Terminated

(* Each row is in the map or has a goroutine, which puts it there.          *)
LEMMA StepCover == IInv /\ [Next]_vars => CoverInv'
<1> SUFFICES ASSUME IInv, [Next]_vars PROVE CoverInv'
  OBVIOUS
<1>0. TypeOK /\ WorkType /\ CallType /\ MapType /\ CallInv /\ CoverInv /\ Listed \in Seq(Types)
  BY TypeParts, TypesAssumption DEF IInv
<1>1. /\ Keys \subseteq Keys' /\ \A t \in Types : m[t] # "absent" => m'[t] # "absent"
      /\ \A c \in Calls, t \in Types : worker[<<c, t>>] # "none" => worker'[<<c, t>>] # "none"
      /\ cut \subseteq cut'
  BY <1>0, NothingLeaves
<1>2. \A i \in DOMAIN Listed : Listed[i] \in Types
  BY <1>0
<1>3. \A c \in Calls, t \in Types :
        worker'[<<c, t>>] \notin {"none", "start"} => m'[t] # "absent"
  <2>1. CASE Go
    BY <1>0, <1>1, <2>1, GoStarts DEF CoverInv
  <2>2. CASE Caller /\ ~Go
    BY <1>0, <1>1, <2>2, CallerKeeps DEF CoverInv
  <2>3. ASSUME NEW d \in Calls, NEW u \in Types, Worker(d, u), NEW c \in Calls, NEW t \in Types,
               worker'[<<c, t>>] \notin {"none", "start"}
        PROVE  m'[t] # "absent"
    <3>1. CASE c # d \/ t # u
      <4>1. worker'[<<c, t>>] = worker[<<c, t>>]
        BY <1>0, <2>3, <3>1, OthersKept
      <4> QED
        BY <1>0, <1>1, <2>3, <4>1 DEF CoverInv
    <3>2. CASE c = d /\ t = u
      <4>1. CASE Lock(c, t)
        BY <1>0, <1>1, <4>1 DEF Lock, InMap, MapType
      <4>2. CASE ~Lock(c, t)
        BY <1>0, <1>1, <2>3, <3>2, <4>2 DEF CoverInv, Worker, Descend, Find, Resolve, CutOff, ReturnAsIs, NotSupported,
                                           GetFails, CheckErr, ReturnErr
      <4> QED
        BY <4>1, <4>2
    <3> QED
      BY <3>1, <3>2
  <2>4. CASE UNCHANGED vars
    BY <1>0, <1>1, <2>4 DEF CoverInv, vars
  <2> QED
    BY <2>1, <2>2, <2>3, <2>4 DEF Next, Caller, Terminated
<1>4. call' = 0 => Keys' = {}
  <2>1. CASE Names
    BY <1>0, <2>1 DEF Names, CallType
  <2>2. CASE Caller /\ ~Names
    <3>1. call' = call /\ pc # "ready"
      BY <2>2 DEF Caller, Row, ScanFails, RowsEnd, Go, Close, CheckClose, Wait
    <3> QED
      BY <1>0, <3>1 DEF CallInv, Calls
  <2>3. ASSUME NEW c \in Calls, NEW t \in Types, Worker(c, t)
        PROVE  call' # 0
    <3>1. call' = call /\ worker[<<c, t>>] \in {"start"} \cup Inside
      BY <1>0, <2>3, OthersKept DEF names
    <3>2. c <= call
      BY <1>0, <3>1, RunningCall
    <3> QED
      BY <1>0, <3>1, <3>2 DEF CallType, Calls
  <2>4. CASE UNCHANGED vars
    BY <1>0, <2>4 DEF CoverInv, vars, tt, names, Keys
  <2> QED
    BY <2>1, <2>2, <2>3, <2>4 DEF Next, Caller, Terminated
<1> DEFINE Covered(n, o, c, M, W) ==
             \A i \in DOMAIN Listed : i < n /\ ~(o # {} /\ Listed[i] \notin o) =>
               M[Listed[i]] # "absent" \/ W[<<c, Listed[i]>>] # "none"
<1>5. pc' \in {"row", "go", "close", "check", "wait"} => Covered(next', only', call', m', worker')
  <2>0. pc \in {"row", "go", "close", "check", "wait"} => Covered(next, only, call, m, worker) /\ call \in Calls
    BY <1>0 DEF CoverInv, Skipped, CallInv
  <2>1. pc \in {"row", "go", "close", "check", "wait"} => Covered(next, only, call, m', worker')
    BY <1>1, <1>2, <2>0
  <2>2. CASE Names
    <3>1. next' = 1
      BY <2>2 DEF Names
    <3> QED
      BY <1>0, <3>1
  <2>3. CASE Row
    <3>1. /\ UNCHANGED <<call, only, worker, m>> /\ next <= Len(Listed) /\ pc = "row"
          /\ \/ next' = next
             \/ next' = next + 1 /\ (Skipped(Listed[next]) \/ m[Listed[next]] # "absent")
      BY <2>3 DEF Row, tt
    <3>2. \A i \in DOMAIN Listed : i < next + 1 => i < next \/ i = next
      BY <1>0 DEF CallType
    <3> QED
      BY <2>1, <3>1, <3>2 DEF Skipped
  <2>4. CASE Go
    <3>1. UNCHANGED <<call, only, m>> /\ next' = next + 1 /\ pc = "go"
      BY <2>4 DEF Go, tt
    <3>2. worker'[<<call, Listed[next]>>] = "start"
      BY <1>0, <2>4, GoStarts
    <3>3. \A i \in DOMAIN Listed : i < next + 1 => i < next \/ i = next
      BY <1>0 DEF CallType
    <3> QED
      BY <2>1, <3>1, <3>2, <3>3
  <2>5. CASE ScanFails \/ RowsEnd \/ Close \/ CheckClose \/ Wait
    BY <2>1, <2>5 DEF ScanFails, RowsEnd, Close, CheckClose, Wait, Answer
  <2>6. ASSUME NEW c \in Calls, NEW t \in Types, Worker(c, t) PROVE UNCHANGED names
    BY <1>0, <2>6, OthersKept
  <2>7. CASE UNCHANGED names
    BY <2>1, <2>7 DEF names
  <2> QED
    BY <2>2, <2>3, <2>4, <2>5, <2>6, <2>7 DEF Next, Caller, Terminated, vars
<1>6. pc' \in {"close", "check", "wait"} /\ call' \notin cut' => next' > Len(Listed)
  <2>1. CASE RowsEnd
    BY <1>0, <2>1 DEF RowsEnd, CallType
  <2>2. CASE Close \/ CheckClose
    BY <1>0, <2>2 DEF Close, CheckClose, CoverInv, Answer, ghosts
  <2>3. CASE Names \/ Row \/ ScanFails \/ Go \/ Wait
    BY <2>3 DEF Names, Row, ScanFails, Go, Wait, Answer
  <2>4. ASSUME NEW c \in Calls, NEW t \in Types, Worker(c, t) PROVE UNCHANGED <<names, cut>>
    BY <1>0, <2>4, OthersKept
  <2>5. CASE UNCHANGED <<names, cut>>
    BY <1>0, <2>5 DEF names, CoverInv
  <2> QED
    BY <2>1, <2>2, <2>3, <2>4, <2>5 DEF Next, Caller, Terminated, vars, ghosts
<1>7. \A a \in DOMAIN answers' :
        /\ answers'[a].names \subseteq Keys'
        /\ answers'[a].err = "nil" => answers'[a].how \in {"map", "waited"}
        /\ answers'[a].how = "map" => answers'[a].only = {}
  <2>1. CASE UNCHANGED answers
    BY <1>0, <1>1, <2>1 DEF CoverInv
  <2>2. ASSUME NEW o, NEW e, NEW ns \in SUBSET Keys, NEW how,
               answers' = Append(answers, [only |-> o, err |-> e, names |-> ns, how |-> how]),
               e = "nil" => how \in {"map", "waited"}, how = "map" => o = {}
        PROVE  \A a \in DOMAIN answers' :
                 /\ answers'[a].names \subseteq Keys'
                 /\ answers'[a].err = "nil" => answers'[a].how \in {"map", "waited"}
                 /\ answers'[a].how = "map" => answers'[a].only = {}
    <3>1. /\ \A a \in DOMAIN answers' : a \in DOMAIN answers \/ a = Len(answers) + 1
          /\ \A a \in DOMAIN answers : answers'[a] = answers[a]
          /\ answers'[Len(answers) + 1] = [only |-> o, err |-> e, names |-> ns, how |-> how]
      BY <1>0, <2>2, Answering
    <3> QED
      BY <1>0, <1>1, <2>2, <3>1 DEF CoverInv
  <2>3. {} \in SUBSET Keys /\ Keys \in SUBSET Keys
    OBVIOUS
  <2>4. CASE Names
    <3>1. CASE Answer(only', "nil", Keys, "map") /\ only' = {}
      BY <2>2, <2>3, <3>1 DEF Answer
    <3>2. CASE Answer(only', "failed", {}, "early")
      BY <2>2, <2>3, <3>2 DEF Answer
    <3> QED
      BY <2>1, <2>4, <3>1, <3>2 DEF Names, Fast
  <2>5. CASE ScanFails
    BY <2>2, <2>3, <2>5 DEF ScanFails, Answer
  <2>6. CASE CheckClose
    BY <2>1, <2>2, <2>3, <2>6 DEF CheckClose, Answer
  <2>7. CASE Wait
    BY <2>2, <2>3, <2>7 DEF Wait, Answer
  <2>8. CASE Row \/ RowsEnd \/ Go \/ Close
    BY <2>1, <2>8 DEF Row, RowsEnd, Go, Close
  <2>9. ASSUME NEW c \in Calls, NEW t \in Types, Worker(c, t) PROVE UNCHANGED answers
    BY <1>0, <2>9, OthersKept DEF names
  <2> QED
    BY <2>1, <2>4, <2>5, <2>6, <2>7, <2>8, <2>9 DEF Next, Caller, Terminated, vars, names
<1>8. pc' \in {"row", "go", "close", "check", "wait"} =>
        \A i \in DOMAIN Listed : i < next' /\ ~(Skipped(Listed[i]))' =>
          m'[Listed[i]] # "absent" \/ worker'[<<call', Listed[i]>>] # "none"
  BY <1>5 DEF Skipped
<1> QED
  BY <1>3, <1>4, <1>6, <1>7, <1>8 DEF CoverInv

(* What an answer is excused by stays.                                      *)
LEMMA ExcusesStay ==
  ASSUME TypeOK, CallInv, [Next]_vars, NEW c \in DOMAIN answers, Excused(c),
         \A a \in DOMAIN answers : answers'[a] = answers[a]
  PROVE  Excused(c)'
<1>1. cut \subseteq cut'
  BY NothingLeaves
<1>2. DOMAIN answers = 1..Len(answers) /\ Len(answers) \in Nat
  BY TypeParts DEF CallType
<1>3. \A e \in 1..(c-1) : e \in DOMAIN answers
  BY <1>2
<1> QED
  BY <1>1, <1>3 DEF Excused

(* An answer without an error lists what is in the map after all rows, and  *)
(* so does the answer of a later call that is given the map.                *)
LEMMA StepListed == IInv /\ [Next]_vars => ListedInv'
<1> SUFFICES ASSUME IInv, [Next]_vars PROVE ListedInv'
  OBVIOUS
<1>0. TypeOK /\ WorkType /\ CallType /\ CallInv /\ CoverInv /\ ListedInv /\ Listed \in Seq(Types)
  BY TypeParts, TypesAssumption DEF IInv
<1>1. \A i \in DOMAIN Listed : Listed[i] \in Types
  BY <1>0
<1>2. ASSUME \A a \in DOMAIN answers : answers'[a] = answers[a],
             NEW c \in DOMAIN answers, answers'[c].err = "nil", ~(Asked(c)' \subseteq answers'[c].names)
      PROVE  Excused(c)'
  <2>1. answers[c].err = "nil" /\ ~(Asked(c) \subseteq answers[c].names)
    BY <1>2 DEF Asked
  <2> QED
    BY <1>0, <1>2, <2>1, ExcusesStay DEF ListedInv
<1>3. CASE UNCHANGED answers
  BY <1>2, <1>3 DEF ListedInv
<1> PICK n \in Nat : n = Len(answers) + 1
  BY <1>0 DEF CallType
<1>4. ASSUME NEW o, NEW e, NEW ns, NEW how,
             answers' = Append(answers, [only |-> o, err |-> e, names |-> ns, how |-> how]),
             e = "nil" => \A x \in ToSet(Listed) : (o = {} \/ x \in o) /\ x \notin ns => Excused(n)'
      PROVE  ListedInv'
  <2>1. /\ \A a \in DOMAIN answers' : a \in DOMAIN answers \/ a = Len(answers) + 1
        /\ \A a \in DOMAIN answers : answers'[a] = answers[a]
        /\ answers'[Len(answers) + 1] = [only |-> o, err |-> e, names |-> ns, how |-> how]
    BY <1>0, <1>4, Answering
  <2> SUFFICES ASSUME NEW c \in DOMAIN answers', answers'[c].err = "nil",
                      ~(Asked(c)' \subseteq answers'[c].names)
               PROVE  Excused(c)'
    BY DEF ListedInv
  <2>2. CASE c \in DOMAIN answers
    BY <1>2, <2>1, <2>2
  <2>3. CASE c = n
    <3>1. answers'[c].err = e /\ answers'[c].names = ns /\ answers'[c].only = o
      BY <2>1, <2>3
    <3>2. PICK x \in ToSet(Listed) : (o = {} \/ x \in o) /\ x \notin ns
      BY <3>1 DEF Asked
    <3> QED
      BY <1>4, <2>3, <3>1, <3>2
  <2> QED
    BY <2>1, <2>2, <2>3
<1>5. CASE Names
  <2>1. /\ pc = "ready" /\ Len(answers) = call /\ call \in Nat /\ UNCHANGED <<tt, ghosts>>
        /\ DOMAIN answers = 1..Len(answers) /\ call' = call + 1
    BY <1>0, <1>5 DEF Names, CallInv, CallType
  <2>2. CASE Answer(only', "failed", {}, "early")
    BY <1>4, <2>2 DEF Answer
  <2>3. CASE Fast(only') /\ Answer(only', "nil", Keys, "map")
    <3>1. answers' = Append(answers, [only |-> only', err |-> "nil", names |-> Keys, how |-> "map"])
      BY <2>3 DEF Answer
    <3>2. /\ answers'[n].how = "map"
          /\ \A a \in DOMAIN answers : answers'[a] = answers[a]
      BY <1>0, <3>1, Answering
    <3>3. ASSUME NEW x \in ToSet(Listed), x \notin Keys, ~(Excused(n)')
          PROVE  FALSE
      <4>1. call \in DOMAIN answers /\ call >= 1
        BY <1>0, <2>1, <2>3 DEF CoverInv, Fast
      <4>2. \A a \in 1..call : answers[a].only = {} /\ answers[a].err = "nil" /\ a \notin cut
        <5> SUFFICES ASSUME NEW a \in 1..call
                     PROVE  answers[a].only = {} /\ answers[a].err = "nil" /\ a \notin cut
          OBVIOUS
        <5>1. a \in 1..(n - 1) /\ a \in DOMAIN answers
          BY <2>1
        <5>2. ~(answers'[a].only # {} \/ answers'[a].err # "nil" \/ a \in cut')
          BY <3>2, <3>3, <5>1 DEF Excused
        <5> QED
          BY <2>1, <3>2, <5>1, <5>2 DEF ghosts
      <4>3. ~Excused(call)
        <5>1. call \in 1..call /\ \A a \in 1..(call - 1) : a \in 1..call
          BY <2>1, <4>1
        <5> QED
          BY <4>1, <4>2, <5>1 DEF Excused
      <4>4. Asked(call) \subseteq answers[call].names
        <5>1. call \in 1..call
          BY <2>1, <4>1
        <5> QED
          BY <1>0, <4>1, <4>2, <4>3, <5>1 DEF ListedInv
      <4>5. Asked(call) = ToSet(Listed)
        <5>1. call \in 1..call
          BY <2>1, <4>1
        <5> QED
          BY <4>2, <5>1 DEF Asked
      <4>6. answers[call].names \subseteq Keys
        BY <1>0, <4>1 DEF CoverInv
      <4> QED
        BY <3>3, <4>4, <4>5, <4>6
    <3> QED
      BY <1>4, <3>1, <3>3
  <2> QED
    BY <1>3, <1>5, <2>2, <2>3 DEF Names
<1>6. CASE ScanFails
  BY <1>4, <1>6 DEF ScanFails, Answer
<1>7. CASE CheckClose
  BY <1>3, <1>4, <1>7 DEF CheckClose, Answer
<1>8. CASE Wait
  <2>1. /\ pc = "wait" /\ call \in Calls /\ Len(answers) + 1 = call /\ UNCHANGED cut
        /\ \A t \in Types : worker[<<call, t>>] \in {"none", "done"}
    BY <1>0, <1>8 DEF Wait, CallInv, CallType, Calls, ghosts, AllReturned, Active
  <2>2. ASSUME NEW x \in ToSet(Listed), only = {} \/ x \in only, x \notin Keys
        PROVE  Excused(n)'
    <3>1. PICK i \in DOMAIN Listed : x = Listed[i]
      BY DEF ToSet
    <3>2. ~Skipped(x) /\ x \in Types /\ m[x] = "absent"
      BY <1>1, <2>2, <3>1 DEF Skipped, Keys
    <3>3. worker[<<call, x>>] = "none"
      BY <1>0, <2>1, <3>2 DEF CoverInv
    <3>4. ~(i < next)
      BY <1>0, <2>1, <3>1, <3>2, <3>3 DEF CoverInv
    <3>5. call \in cut
      BY <1>0, <2>1, <3>1, <3>4 DEF CoverInv, CallType
    <3> QED
      BY <2>1, <3>5 DEF Excused
  <2> QED
    BY <1>4, <1>8, <2>2 DEF Wait, Answer
<1>9. CASE Row \/ RowsEnd \/ Go \/ Close
  BY <1>3, <1>9 DEF Row, RowsEnd, Go, Close
<1>10. ASSUME NEW c \in Calls, NEW t \in Types, Worker(c, t) PROVE UNCHANGED answers
  BY <1>0, <1>10, OthersKept DEF names
<1>11. CASE UNCHANGED vars
  BY <1>3, <1>11 DEF vars, names
<1> QED
  BY <1>3, <1>5, <1>6, <1>7, <1>8, <1>9, <1>10, <1>11 DEF Next, Caller, Terminated

-----------------------------------------------------------------------------
(* What a type needs.                                                       *)

(* A type needs itself, and what the types that it is made of need.         *)
LEMMA ChildNeeds ==
  ASSUME NEW t \in Types
  PROVE  /\ t \in Unsupported => NeedsUnsupported(t)
         /\ \A k \in Members(t) : NeedsUnsupported(k) => NeedsUnsupported(t)
<1>1. t \in Needs({t})
  BY DEF Needs
<1>2. ASSUME NEW k \in Members(t) PROVE Needs({k}) \subseteq Needs({t})
  <2>1. \A C \in SUBSET Types : {t} \subseteq C /\ IsClosed(C) => {k} \subseteq C
    BY DEF IsClosed
  <2> QED
    BY <2>1 DEF Needs
<1> QED
  BY <1>1, <1>2 DEF NeedsUnsupported

(* What get goes on with is, once found, what the type is made of.          *)
LEMMA ChildMember ==
  ASSUME MapType, stack # <<>>, Top.next > 0, Top.next <= Len(Children[Top.type])
  PROVE  Found[Children[Top.type][Top.next]] \in Members(Top.type)
BY ChildType DEF Members

-----------------------------------------------------------------------------
(* The recursion.                                                           *)

(* A set with 0 and the successor of each of its numbers has all of them.   *)
LEMMA SetInduction ==
  ASSUME NEW S, 0 \in S, \A n \in Nat : n \in S => n + 1 \in S
  PROVE  \A n \in Nat : n \in S
<1> DEFINE T == Nat \ S
           R == {ss \in Nat \X Nat : ss[1] < ss[2]}
<1> SUFFICES ASSUME T # {} PROVE FALSE
  OBVIOUS
<1>1. IsWellFoundedOn(R, Nat)
  BY NatLessThanWellFounded DEF OpToRel
<1>2. T \subseteq Nat
  OBVIOUS
<1>3. PICK e \in T : \A y \in T : ~(<<y, e>> \in R)
  <2> HIDE DEF T, R
  <2> QED
    BY <1>1, <1>2, WFMin
<1>4. e # 0 /\ e - 1 \in Nat /\ e = (e - 1) + 1
  OBVIOUS
<1>5. <<e - 1, e>> \in R
  BY <1>4
<1>6. e - 1 \in S
  BY <1>3, <1>4, <1>5
<1> QED
  BY <1>4, <1>6

(* When the last type of the recursion is not supported, each type of it    *)
(* needs one that is not.                                                   *)
LEMMA AllNeed ==
  ASSUME MapType, StackInv, stack # <<>>, Top.next > 0, Top.type \in Unsupported
  PROVE  \A i \in DOMAIN stack : NeedsUnsupported(stack[i].type)
<1>1. /\ stack \in Seq(Frames) /\ Len(stack) \in Nat \ {0} /\ DOMAIN stack = 1..Len(stack)
      /\ \A i \in DOMAIN stack : stack[i].type \in Types
      /\ \A i \in DOMAIN stack : Meant(stack[i]) = stack[i].type
  <2>1. stack \in Seq(Frames) /\ Len(stack) \in Nat \ {0} /\ DOMAIN stack = 1..Len(stack)
    BY DEF MapType
  <2>2. \A i \in DOMAIN stack : stack[i] \in Frames
    BY <2>1
  <2>3. \A i \in DOMAIN stack : stack[i].next > 0
    BY <2>1, TopFrame DEF StackInv
  <2> QED
    BY <2>1, <2>2, <2>3 DEF Frames, Meant
<1>2. PICK l \in Nat \ {0} : l = Len(stack)
  BY <1>1
<1> DEFINE S == {n \in Nat : n < l => NeedsUnsupported(stack[l-n].type)}
<1>3. 0 \in S
  <2>1. l - 0 = l /\ Top = stack[l] /\ Top.type \in Types
    BY <1>2, TopFrame
  <2> QED
    BY <2>1, ChildNeeds
<1>4. ASSUME NEW n \in Nat, n \in S PROVE n + 1 \in S
  <2> SUFFICES ASSUME n + 1 < l PROVE NeedsUnsupported(stack[l-(n+1)].type)
    OBVIOUS
  <2>1. l - n \in DOMAIN stack /\ l - n > 1 /\ (l - n) - 1 = l - (n + 1) /\ l - (n + 1) \in DOMAIN stack
    BY <1>1, <1>2
  <2>2. NeedsUnsupported(stack[l-n].type)
    BY <1>4
  <2>3. stack[l-n].type \in Members(stack[l-(n+1)].type)
    BY <1>1, <2>1 DEF StackInv
  <2>4. stack[l-(n+1)].type \in Types
    BY <1>1, <2>1
  <2> QED
    BY <2>2, <2>3, <2>4, ChildNeeds
<1>5. \A n \in Nat : n \in S
  <2> HIDE DEF S
  <2> QED
    BY <1>3, <1>4, SetInduction
<1> SUFFICES ASSUME NEW i \in DOMAIN stack PROVE NeedsUnsupported(stack[i].type)
  OBVIOUS
<1>6. l - i \in Nat /\ l - i < l /\ l - (l - i) = i
  BY <1>1, <1>2
<1> QED
  BY <1>5, <1>6

(* A type is left as a placeholder only when a get fails, or is not         *)
(* supported.                                                               *)
LEMMA StepStack == IInv /\ [Next]_vars => StackInv'
<1> SUFFICES ASSUME IInv, [Next]_vars PROVE StackInv'
  OBVIOUS
<1>0. TypeOK /\ WorkType /\ MapType /\ LockInv /\ StackInv
  BY TypeParts DEF IInv
<1>1. CASE UNCHANGED <<m, stack, failed>>
  BY <1>0, <1>1 DEF StackInv
<1>2. CASE Caller
  <2>1. UNCHANGED <<m, stack, failed>>
    BY <1>2 DEF Caller, Names, Row, ScanFails, RowsEnd, Go, Close, CheckClose, Wait, tt, ghosts
  <2> QED
    BY <1>1, <2>1
<1>3. ASSUME NEW c \in Calls, NEW t \in Types, Worker(c, t) PROVE StackInv'
  <2>0. <<c, t>> \in Workers
    BY WorkerPairs
  <2>1. worker[<<c, t>>] = "get" => stack # <<>>
    BY <1>0, <2>0 DEF LockInv
  <2>2. CASE Lock(c, t)
    <3>1. CASE UNCHANGED tt
      BY <1>1, <2>2, <3>1 DEF Lock, tt, ghosts
    <3>2. CASE ~(UNCHANGED tt)
      <4>1. /\ stack = <<>> /\ m' = [m EXCEPT ![t] = "placeholder"] /\ UNCHANGED failed
            /\ stack' = <<[type |-> t, next |-> 1]>>
        BY <1>0, <2>2, <3>2 DEF Lock, MapType, ghosts
      <4>2. DOMAIN stack' = {1} /\ stack'[1].type = t /\ Len(stack') = 1
        BY <4>1
      <4>3. \A u \in Types : m'[u] = "placeholder" => u = t \/ m[u] = "placeholder"
        BY <1>0, <4>1 DEF MapType
      <4> QED
        BY <1>0, <4>1, <4>2, <4>3 DEF StackInv
    <3> QED
      BY <3>1, <3>2
  <2>3. CASE Descend(c, t)
    <3>1. stack # <<>> /\ UNCHANGED failed
      BY <2>1, <2>3 DEF Descend, ghosts
    <3>2. PICK k : k = Children[Top.type][Top.next] /\ m' = [m EXCEPT ![k] = "placeholder"]
                   /\ stack' = Pushed(k)
      BY <2>3 DEF Descend
    <3>3. k \in Types /\ Found[k] \in Members(Top.type) /\ Top.next > 0
      BY <1>0, <2>3, <3>1, <3>2, ChildType, ChildMember DEF Descend
    <3>4. /\ Len(stack') = Len(stack) + 1 /\ stack' \in Seq(Frames) /\ stack \in Seq(Frames)
          /\ stack'[Len(stack) + 1] = [type |-> k, next |-> 0]
          /\ stack'[Len(stack)] = [type |-> Top.type, next |-> Top.next + 1]
          /\ \A i \in 1..Len(stack) : stack'[i].type = stack[i].type
          /\ \A i \in 1..(Len(stack) - 1) : stack'[i] = stack[i]
      BY <1>0, <3>1, <3>2, <3>3, PushedFrame DEF MapType
    <3>5. /\ Len(stack) \in Nat \ {0} /\ DOMAIN stack = 1..Len(stack)
          /\ DOMAIN stack' = 1..(Len(stack) + 1) /\ Top = stack[Len(stack)] /\ Top.next \in Nat
      BY <1>0, <3>1, <3>4, TopFrame
    <3>6. ASSUME NEW i \in DOMAIN stack', i > 1
          PROVE  Meant(stack'[i]) \in Members(stack'[i-1].type)
      <4>0. i - 1 \in 1..Len(stack) /\ stack'[i-1].type = stack[i-1].type
        BY <3>4, <3>5, <3>6
      <4>1. CASE i = Len(stack) + 1
        <5>1. Meant(stack'[i]) = Found[k]
          BY <3>4, <4>1 DEF Meant
        <5>2. stack'[i-1].type = Top.type
          BY <3>5, <4>0, <4>1
        <5> QED
          BY <3>3, <5>1, <5>2
      <4>2. CASE i = Len(stack)
        <5>1. Meant(stack'[i]) = Top.type /\ Meant(stack[i]) = Top.type
          BY <3>3, <3>4, <3>5, <4>2 DEF Meant
        <5>2. Meant(stack[i]) \in Members(stack[i-1].type)
          BY <1>0, <3>5, <3>6, <4>2 DEF StackInv
        <5> QED
          BY <4>0, <5>1, <5>2
      <4>3. CASE i \notin {Len(stack), Len(stack) + 1}
        <5>1. i \in 1..(Len(stack) - 1) /\ i \in DOMAIN stack
          BY <3>5, <3>6, <4>3
        <5>2. Meant(stack[i]) \in Members(stack[i-1].type)
          BY <1>0, <3>6, <5>1 DEF StackInv
        <5> QED
          BY <3>4, <4>0, <5>1, <5>2
      <4> QED
        BY <4>1, <4>2, <4>3
    <3>10. ASSUME NEW i \in DOMAIN stack', i < Len(stack')
           PROVE  stack'[i].next > 0
      <4>1. CASE i = Len(stack)
        BY <3>3, <3>4, <3>5, <4>1
      <4>2. CASE i # Len(stack)
        <5>1. i \in 1..(Len(stack) - 1) /\ i \in DOMAIN stack /\ i < Len(stack)
          BY <3>4, <3>5, <3>10, <4>2
        <5> QED
          BY <1>0, <3>4, <5>1 DEF StackInv
      <4> QED
        BY <4>1, <4>2
    <3>7. \A u \in Types : m'[u] = "placeholder" => u = k \/ m[u] = "placeholder"
      BY <1>0, <3>2, <3>3 DEF MapType
    <3>8. \A i \in DOMAIN stack : i \in DOMAIN stack' /\ stack'[i].type = stack[i].type
      BY <3>4, <3>5
    <3>9. Len(stack) + 1 \in DOMAIN stack'
      BY <3>5
    <3>11. ASSUME \A d \in Calls : failed[d] = {}, NEW u \in Types, m'[u] = "placeholder"
           PROVE  u \in NeverResolved \/ \E i \in DOMAIN stack' : stack'[i].type = u
      <4>1. CASE u = k
        BY <3>4, <3>9, <4>1
      <4>2. CASE u # k
        BY <1>0, <3>7, <3>8, <3>11, <4>2 DEF StackInv
      <4> QED
        BY <4>1, <4>2
    <3>12. (\A d \in Calls : failed'[d] = {}) => \A d \in Calls : failed[d] = {}
      BY <3>1
    <3> QED
      BY <3>6, <3>10, <3>11, <3>12 DEF StackInv
  <2>4. CASE Ends(c, t)
    <3>1. /\ stack # <<>> /\ UNCHANGED failed /\ Returns(c, t)
          /\ \/ m' = [m EXCEPT ![Top.type] = "resolved"]
             \/ m' = [m EXCEPT ![Top.type] = "partial"]
             \/ m' = m /\ Top.type \in Opaque
      BY <2>1, <2>4 DEF Ends, Resolve, CutOff, ReturnAsIs
    <3>2. /\ stack \in Seq(Frames) /\ Len(stack) \in Nat \ {0} /\ DOMAIN stack = 1..Len(stack)
          /\ Top = stack[Len(stack)] /\ Top.type \in Types
      BY <1>0, <3>1, TopFrame DEF MapType
    <3>3. \A u \in Types : m'[u] = "placeholder" =>
            m[u] = "placeholder" /\ (u # Top.type \/ u \in NeverResolved)
      BY <1>0, <3>1, <3>2 DEF MapType, NeverResolved
    <3>4. CASE Len(stack) = 1
      <4>1. stack' = <<>>
        BY <3>1, <3>4 DEF Returns, Assigns
      <4>2. \A i \in DOMAIN stack : stack[i].type = Top.type
        BY <3>2, <3>4
      <4> QED
        BY <1>0, <3>1, <3>3, <4>1, <4>2 DEF StackInv
    <3>5. CASE Len(stack) # 1
      <4>1. stack' = Front(stack)
        BY <3>1, <3>5 DEF Returns
      <4>2. /\ stack' \in Seq(Frames) /\ Len(stack') = Len(stack) - 1
            /\ \A i \in 1..(Len(stack) - 1) : stack'[i] = stack[i]
        BY <1>0, <3>1, <4>1, Popped
      <4>3. DOMAIN stack' = 1..(Len(stack) - 1)
        BY <4>2
      <4>4. \A i \in DOMAIN stack : i = Len(stack) \/ i \in DOMAIN stack'
        BY <3>2, <4>3
      <4>5. \A i \in DOMAIN stack' :
              /\ i \in DOMAIN stack /\ (i < Len(stack') => i < Len(stack))
              /\ i > 1 => i - 1 \in DOMAIN stack'
        BY <3>2, <4>2, <4>3
      <4> QED
        BY <1>0, <3>1, <3>2, <3>3, <4>2, <4>3, <4>4, <4>5 DEF StackInv
    <3> QED
      BY <3>4, <3>5
  <2>5. CASE NotSupported(c, t)
    <3>1. stack # <<>> /\ Top.next > 0 /\ Top.type \in Unsupported
          /\ stack' = <<>> /\ UNCHANGED <<m, failed>>
      BY <2>1, <2>5 DEF NotSupported, Assigns
    <3>2. \A i \in DOMAIN stack : NeedsUnsupported(stack[i].type)
      BY <1>0, <3>1, AllNeed
    <3>3. \A u \in Types : (\E i \in DOMAIN stack : stack[i].type = u) => u \in NeverResolved
      BY <3>2 DEF NeverResolved
    <3> QED
      BY <1>0, <3>1, <3>3 DEF StackInv
  <2>6. CASE GetFails(c, t)
    <3>1. stack' = <<>> /\ failed'[c] # {}
      BY <1>0, <2>6 DEF GetFails, Assigns, WorkType
    <3> QED
      BY <3>1 DEF StackInv
  <2>7. CASE CheckErr(c, t) \/ ReturnErr(c, t)
    BY <1>1, <2>7 DEF CheckErr, ReturnErr, tt, ghosts
  <2>8. CASE Find(c, t)
    <3>1. /\ stack # <<>> /\ UNCHANGED failed /\ Top.next = 0 /\ stack' = Renamed
          /\ m' = [m EXCEPT ![Found[Top.type]] = "placeholder"]
      BY <2>1, <2>8 DEF Find, ghosts
    <3>2. /\ Len(stack) \in Nat \ {0} /\ Top = stack[Len(stack)] /\ Top.type \in Types
          /\ stack' \in Seq(Frames) /\ Len(stack') = Len(stack)
          /\ stack'[Len(stack)] = [type |-> Found[Top.type], next |-> 1]
          /\ \A i \in 1..(Len(stack) - 1) : stack'[i] = stack[i]
      BY <1>0, <3>1, TopFrame, RenamedFrame
    <3>3. DOMAIN stack = 1..Len(stack) /\ DOMAIN stack' = 1..Len(stack)
      BY <1>0, <3>2 DEF MapType
    <3>4. ASSUME NEW i \in DOMAIN stack', i < Len(stack')
          PROVE  stack'[i].next > 0
      <4>1. i \in 1..(Len(stack) - 1) /\ i \in DOMAIN stack /\ i < Len(stack)
        BY <3>2, <3>3, <3>4
      <4> QED
        BY <1>0, <3>2, <4>1 DEF StackInv
    <3>5. ASSUME NEW i \in DOMAIN stack', i > 1
          PROVE  Meant(stack'[i]) \in Members(stack'[i-1].type)
      <4>1. i \in DOMAIN stack /\ i - 1 \in 1..(Len(stack) - 1) /\ stack'[i-1] = stack[i-1]
        BY <3>2, <3>3, <3>5
      <4>2. Meant(stack[i]) \in Members(stack[i-1].type)
        BY <1>0, <3>5, <4>1 DEF StackInv
      <4>3. Meant(stack'[i]) = Meant(stack[i])
        <5>1. CASE i = Len(stack)
          BY <3>1, <3>2, <5>1 DEF Meant
        <5>2. CASE i # Len(stack)
          <6>1. i \in 1..(Len(stack) - 1)
            BY <3>2, <3>3, <5>2
          <6> QED
            BY <3>2, <6>1
        <5> QED
          BY <5>1, <5>2
      <4> QED
        BY <4>1, <4>2, <4>3
    <3>6. ASSUME \A d \in Calls : failed[d] = {}, NEW u \in Types, m'[u] = "placeholder"
          PROVE  u \in NeverResolved \/ \E i \in DOMAIN stack' : stack'[i].type = u
      <4>1. CASE u = Found[Top.type]
        <5>1. Len(stack) \in DOMAIN stack' /\ stack'[Len(stack)].type = u
          BY <3>2, <3>3, <4>1
        <5> QED
          BY <5>1
      <4>2. CASE u # Found[Top.type]
        <5>1. m[u] = "placeholder"
          BY <1>0, <3>1, <3>6, <4>2 DEF MapType
        <5>2. CASE u = Top.type
          BY <4>2, <5>2 DEF NeverResolved
        <5>3. CASE u # Top.type /\ u \notin NeverResolved
          <6>1. PICK i \in DOMAIN stack : stack[i].type = u
            BY <1>0, <3>6, <5>1, <5>3 DEF StackInv
          <6>2. i \in 1..(Len(stack) - 1)
            BY <3>2, <3>3, <5>3, <6>1
          <6>3. i \in DOMAIN stack' /\ stack'[i].type = u
            BY <3>2, <3>3, <6>1, <6>2
          <6> QED
            BY <6>3
        <5> QED
          BY <5>2, <5>3
      <4> QED
        BY <4>1, <4>2
    <3>7. (\A d \in Calls : failed'[d] = {}) => \A d \in Calls : failed[d] = {}
      BY <3>1
    <3> QED
      BY <3>4, <3>5, <3>6, <3>7 DEF StackInv
  <2> QED
    BY <1>3, <2>2, <2>3, <2>4, <2>5, <2>6, <2>7, <2>8 DEF Worker, Ends
<1>4. CASE UNCHANGED vars
  BY <1>1, <1>4 DEF vars, tt, ghosts
<1> QED
  BY <1>2, <1>3, <1>4 DEF Next, Terminated

(* What is stored as resolved has all it is made of in the map.             *)
LEMMA StepMade == IInv /\ [Next]_vars => MadeInv'
<1> SUFFICES ASSUME IInv, [Next]_vars PROVE MadeInv'
  OBVIOUS
<1>0. TypeOK /\ MapType /\ LockInv /\ CallInv /\ StackInv /\ MadeInv
  BY TypeParts DEF IInv
<1>1. Keys \subseteq Keys'
  BY <1>0, NothingLeaves
<1>2. CASE UNCHANGED <<m, stack, lost>>
  BY <1>0, <1>1, <1>2 DEF MadeInv, Through, Pending, Top
<1>3. CASE Caller
  <2>1. UNCHANGED <<m, stack, lost>>
    BY <1>3 DEF Caller, Names, Row, ScanFails, RowsEnd, Go, Close, CheckClose, Wait, tt, ghosts
  <2> QED
    BY <1>2, <2>1
<1>4. ASSUME \A u \in Types : m'[u] = "resolved" => m[u] = "resolved",
             \A u \in Types : m'[u] = "partial" => m[u] = "partial",
             UNCHANGED lost
      PROVE  /\ \A u \in Types : m'[u] = "resolved" => Members(u) \subseteq Keys'
             /\ \A u \in Types : m'[u] = "partial" => u \in lost'
  BY <1>0, <1>1, <1>4 DEF MadeInv
<1>5. ASSUME NEW c \in Calls, NEW t \in Types, Worker(c, t) PROVE MadeInv'
  <2>0. <<c, t>> \in Workers
    BY WorkerPairs
  <2>1. worker[<<c, t>>] = "get" => stack # <<>>
    BY <1>0, <2>0 DEF LockInv
  <2>2. CASE Lock(c, t)
    <3>1. CASE UNCHANGED tt
      BY <1>2, <2>2, <3>1 DEF Lock, tt, ghosts
    <3>2. CASE ~(UNCHANGED tt)
      <4>1. /\ m' = [m EXCEPT ![t] = "placeholder"] /\ UNCHANGED lost
            /\ stack' = <<[type |-> t, next |-> 1]>>
        BY <2>2, <3>2 DEF Lock, ghosts
      <4>2. \A i \in DOMAIN stack' : Through(stack'[i]) = {}
        <5>1. DOMAIN stack' = {1} /\ stack'[1] = [type |-> t, next |-> 1]
          BY <4>1
        <5>2. Children[t] \in Seq(Types)
          BY TypesAssumption
        <5> QED
          BY <5>1, <5>2 DEF Through
      <4>3. /\ \A u \in Types : m'[u] = "resolved" => m[u] = "resolved"
            /\ \A u \in Types : m'[u] = "partial" => m[u] = "partial"
        BY <1>0, <4>1 DEF MapType
      <4> QED
        BY <1>4, <4>1, <4>2, <4>3 DEF MadeInv
    <3> QED
      BY <3>1, <3>2
  <2>3. CASE Descend(c, t)
    <3>1. stack # <<>> /\ UNCHANGED lost /\ Top.next > 0
      BY <2>1, <2>3 DEF Descend, ghosts
    <3>2. PICK k : k = Children[Top.type][Top.next] /\ m' = [m EXCEPT ![k] = "placeholder"]
                   /\ stack' = Pushed(k)
      BY <2>3 DEF Descend
    <3>3. k \in Types
      BY <1>0, <2>3, <3>1, <3>2, ChildType DEF Descend
    <3>4. /\ Len(stack') = Len(stack) + 1 /\ stack' \in Seq(Frames) /\ stack \in Seq(Frames)
          /\ stack'[Len(stack) + 1] = [type |-> k, next |-> 0]
          /\ stack'[Len(stack)] = [type |-> Top.type, next |-> Top.next + 1]
          /\ \A i \in 1..(Len(stack) - 1) : stack'[i] = stack[i]
      BY <1>0, <3>1, <3>2, <3>3, PushedFrame DEF MapType
    <3>5. /\ Len(stack) \in Nat \ {0} /\ DOMAIN stack = 1..Len(stack)
          /\ DOMAIN stack' = 1..(Len(stack) + 1) /\ Top = stack[Len(stack)] /\ Top.next \in Nat
          /\ Top.type \in Types
      BY <1>0, <3>1, <3>4, TopFrame
    <3>6. Pending = {} /\ Pending' = {Found[k]}
      <4>1. Top' = [type |-> k, next |-> 0] /\ stack' # <<>>
        BY <3>4, <3>5 DEF Top, Last
      <4>2. Pending' = IF stack' # <<>> /\ (Top').next = 0 THEN {Found[(Top').type]} ELSE {}
        BY DEF Pending
      <4> QED
        BY <3>1, <4>1, <4>2 DEF Pending
    <3>7. \A i \in DOMAIN stack : Through(stack[i]) \subseteq Keys
      BY <1>0, <3>6 DEF MadeInv
    <3>8. ASSUME NEW i \in DOMAIN stack'
          PROVE  Through(stack'[i]) \subseteq Keys' \cup {Found[k]}
      <4>1. CASE i = Len(stack) + 1
        <5>1. Children[k] \in Seq(Types)
          BY <3>3, TypesAssumption
        <5>2. Through(stack'[i]) = {}
          BY <3>4, <4>1, <5>1 DEF Through
        <5> QED
          BY <5>2
      <4>2. CASE i = Len(stack)
        <5>1. Children[Top.type] \in Seq(Types)
          BY <3>5, TypesAssumption
        <5>2. Through(stack'[i]) \subseteq Through(Top) \cup {Found[k]}
          <6>1. stack'[i] = [type |-> Top.type, next |-> Top.next + 1]
            BY <3>4, <4>2
          <6>2. \A j \in DOMAIN Children[Top.type] : j < Top.next + 1 => j < Top.next \/ j = Top.next
            BY <3>5, <5>1
          <6> QED
            BY <3>2, <6>1, <6>2 DEF Through
        <5> QED
          BY <1>1, <3>5, <3>7, <5>2
      <4>3. CASE i \notin {Len(stack), Len(stack) + 1}
        <5>1. i \in 1..(Len(stack) - 1) /\ i \in DOMAIN stack
          BY <3>5, <3>8, <4>3
        <5> QED
          BY <1>1, <3>4, <3>7, <5>1
      <4> QED
        BY <4>1, <4>2, <4>3
    <3>9. /\ \A u \in Types : m'[u] = "resolved" => m[u] = "resolved"
          /\ \A u \in Types : m'[u] = "partial" => m[u] = "partial"
      BY <1>0, <3>2, <3>3 DEF MapType
    <3>10. \A i \in DOMAIN stack' : Through(stack'[i]) \subseteq Keys' \cup Pending'
      BY <3>6, <3>8
    <3> QED
      BY <1>4, <3>1, <3>9, <3>10 DEF MadeInv, Through
  <2>4. CASE Find(c, t)
    <3>1. /\ stack # <<>> /\ UNCHANGED lost /\ Top.next = 0 /\ stack' = Renamed
          /\ m' = [m EXCEPT ![Found[Top.type]] = "placeholder"]
      BY <2>1, <2>4 DEF Find, ghosts
    <3>2. /\ Len(stack) \in Nat \ {0} /\ Top.type \in Types /\ Found[Top.type] \in Types
          /\ stack' \in Seq(Frames) /\ Len(stack') = Len(stack)
          /\ stack'[Len(stack)] = [type |-> Found[Top.type], next |-> 1]
          /\ \A i \in 1..(Len(stack) - 1) : stack'[i] = stack[i]
      BY <1>0, <3>1, TopFrame, RenamedFrame, TypesAssumption
    <3>3. DOMAIN stack = 1..Len(stack) /\ DOMAIN stack' = 1..Len(stack)
      BY <1>0, <3>2 DEF MapType
    <3>4. Pending \subseteq Keys'
      BY <1>0, <3>1, <3>2 DEF Pending, Keys, MapType
    <3>5. ASSUME NEW i \in DOMAIN stack' PROVE Through(stack'[i]) \subseteq Keys'
      <4>1. CASE i = Len(stack)
        <5>1. Children[Found[Top.type]] \in Seq(Types)
          BY <3>2, TypesAssumption
        <5>2. Through(stack'[i]) = {}
          BY <3>2, <4>1, <5>1 DEF Through
        <5> QED
          BY <5>2
      <4>2. CASE i # Len(stack)
        <5>1. i \in 1..(Len(stack) - 1) /\ i \in DOMAIN stack
          BY <3>2, <3>3, <4>2
        <5>2. Through(stack[i]) \subseteq Keys \cup Pending
          BY <1>0, <5>1 DEF MadeInv
        <5> QED
          BY <1>1, <3>2, <3>4, <5>1, <5>2
      <4> QED
        BY <4>1, <4>2
    <3>6. /\ \A u \in Types : m'[u] = "resolved" => m[u] = "resolved"
          /\ \A u \in Types : m'[u] = "partial" => m[u] = "partial"
      BY <1>0, <3>1, <3>2 DEF MapType
    <3> QED
      BY <1>4, <3>1, <3>5, <3>6 DEF MadeInv, Through
  <2>5. CASE Ends(c, t)
    <3>1. stack # <<>> /\ Top.next > 0 /\ Returns(c, t) /\ lost \subseteq lost'
      BY <2>1, <2>5 DEF Ends, Resolve, CutOff, ReturnAsIs
    <3>2. /\ Len(stack) \in Nat \ {0} /\ DOMAIN stack = 1..Len(stack)
          /\ Top = stack[Len(stack)] /\ Top.type \in Types /\ Top.next \in Nat
      BY <1>0, <3>1, TopFrame DEF MapType
    <3>3. Pending = {}
      BY <3>1 DEF Pending
    <3>4. \A i \in DOMAIN stack : Through(stack[i]) \subseteq Keys
      BY <1>0, <3>3 DEF MadeInv
    <3>5. \A i \in DOMAIN stack' : Through(stack'[i]) \subseteq Keys
      <4>1. CASE Len(stack) = 1
        <5>1. stack' = <<>>
          BY <3>1, <4>1 DEF Returns, Assigns
        <5> QED
          BY <5>1
      <4>2. CASE Len(stack) # 1
        <5>1. stack' = Front(stack)
          BY <3>1, <4>2 DEF Returns
        <5>2. /\ DOMAIN stack' = 1..(Len(stack) - 1)
              /\ \A i \in 1..(Len(stack) - 1) : stack'[i] = stack[i] /\ i \in DOMAIN stack
          BY <1>0, <3>1, <3>2, <5>1, Popped
        <5> QED
          BY <3>4, <5>2
      <4> QED
        BY <4>1, <4>2
    <3>6. ASSUME NEW u \in Types, m'[u] = "resolved" PROVE Members(u) \subseteq Keys
      <4>1. CASE m[u] = "resolved"
        BY <1>0, <4>1 DEF MadeInv
      <4>2. CASE m[u] # "resolved"
        <5>1. u = Top.type /\ Top.next > Len(Children[u])
          BY <1>0, <2>5, <3>2, <3>6, <4>2 DEF Ends, Resolve, CutOff, ReturnAsIs, MapType
        <5>2. Children[u] \in Seq(Types)
          BY TypesAssumption
        <5>3. Members(u) = Through(Top)
          BY <3>2, <5>1, <5>2 DEF Members, Through, ToSet
        <5> QED
          BY <3>2, <3>4, <5>3
      <4> QED
        BY <4>1, <4>2
    <3>7. ASSUME NEW u \in Types, m'[u] = "partial" PROVE u \in lost'
      <4>1. CASE m[u] = "partial"
        BY <1>0, <3>1, <4>1 DEF MadeInv
      <4>2. CASE m[u] # "partial"
        BY <1>0, <2>5, <3>2, <3>7, <4>2 DEF Ends, Resolve, CutOff, ReturnAsIs, MapType
      <4> QED
        BY <4>1, <4>2
    <3> QED
      BY <1>1, <3>5, <3>6, <3>7 DEF MadeInv, Through
  <2>6. CASE NotSupported(c, t) \/ GetFails(c, t)
    <3>1. stack' = <<>> /\ UNCHANGED <<m, lost>>
      BY <2>6 DEF NotSupported, GetFails, Assigns
    <3> QED
      BY <1>4, <3>1 DEF MadeInv
  <2>7. CASE CheckErr(c, t) \/ ReturnErr(c, t)
    BY <1>2, <2>7 DEF CheckErr, ReturnErr, tt, ghosts
  <2> QED
    BY <1>5, <2>2, <2>3, <2>4, <2>5, <2>6, <2>7 DEF Worker, Ends
<1>6. CASE UNCHANGED vars
  BY <1>2, <1>6 DEF vars, tt, ghosts
<1> QED
  BY <1>3, <1>5, <1>6 DEF Next, Terminated

-----------------------------------------------------------------------------
(* The theorems.                                                            *)

(* The invariant is inductive.                                              *)
LEMMA Inductive == IInv /\ [Next]_vars => IInv'
BY StepType, StepLock, StepCall, StepErr, StepFailureTold, StepCover, StepListed, StepStack,
   StepMade DEF IInv

LEMMA Invariant == Spec => []IInv
BY InitIInv, Inductive, PTL DEF Spec

(* In every reachable state the variables have their types, and no call has *)
(* more goroutines than grp.SetLimit allows.                                *)
THEOREM TypeCorrect == Spec => []TypeOK
<1>1. IInv => TypeOK
  BY DEF IInv
<1> QED
  BY <1>1, Invariant, PTL

(* A call in one of whose goroutines get returned an error tells so, except *)
(* when it raced with them for err; and "not supported", which is only      *)
(* logged, is never returned but by such a race. Rows of attributes that    *)
(* break off are no error of get.                                           *)
THEOREM FailureToldHolds == Spec => []FailureTold
<1>1. IInv => FailureTold
  BY DEF IInv
<1> QED
  BY <1>1, Invariant, PTL

(* An answer without an error lists what was asked for, but for cut rows and*)
(* maps that such a call, or one with arguments, has begun. What the map has*)
(* as resolved has all it is made of there; what is cut off there was by    *)
(* rows that broke off; and an unlocked map leaves a type unresolved only   *)
(* after a failure, or because it needs one that is not supported, is a JSON*)
(* type, or another name of a type.                                         *)
THEOREM ListsWhatIsAskedHolds == Spec => []ListsWhatIsAsked
<1>1. IInv => ListsWhatIsAsked
  <2> SUFFICES ASSUME IInv PROVE ListsWhatIsAsked
    OBVIOUS
  <2>1. MapType /\ ListedInv /\ StackInv /\ MadeInv
    BY TypeParts DEF IInv
  <2>2. mu = {} => DOMAIN stack = {}
    BY <2>1 DEF MapType
  <2>3. \A t \in Types :
          mu = {} /\ m[t] = "placeholder" => t \in NeverResolved \/ \E c \in Calls : failed[c] # {}
    BY <2>1, <2>2 DEF StackInv
  <2> QED
    BY <2>1, <2>3 DEF ListsWhatIsAsked, ListedInv, Excused, Answered, MadeInv
<1> QED
  BY <1>1, Invariant, PTL
=============================================================================
