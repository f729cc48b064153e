---------------------------- MODULE ObjectTypes ----------------------------
(***************************************************************************)
(* The object types of a schema (lib/objects/objects.go). Names queries    *)
(* the dictionary for the types and has each resolved by a goroutine of an *)
(* errgroup; get resolves a type, and through its attributes' and elements'*)
(* types, recursively, one query after the other. tt.mu guards the map, but*)
(* not everywhere, and the goroutines share the variable err of the call   *)
(* that started them with that call itself. A type that is refused, cut off *)
(* or found under another name leaves its first entry in the map behind.   *)
(***************************************************************************)
EXTENDS Naturals, Sequences, FiniteSets, SequencesExt

CONSTANTS
  Types,        (* the composite types: those of the schema, and others     *)
  Listed,       (* the query's rows: the schema's types, in order           *)
  Children,     (* of every type its attributes' or element's composite     *)
                (* types, by the names its own rows give them; any number of*)
                (* simple attributes may stand before and between           *)
  Found,        (* the name the dictionary then has a name under            *)
  Collections,  (* the types of elements: their query is left after one row *)
  Unsupported,  (* ... those indexed by something but an integer            *)
  Opaque,       (* the JSON types, which get returns without a look at them *)
  Onlys,        (* the arguments Names is called with; {} is for none       *)
  Limit,        (* grp.SetLimit                                             *)
  MaxDepth,     (* bound: how deep get may recurse before the database      *)
                (* refuses another cursor                                   *)
  MaxCalls      (* bound: the calls of Names, one after the other           *)

ASSUME TypesAssumption ==
  /\ IsFiniteSet(Types)
  /\ Listed \in Seq(Types) /\ \A i, j \in DOMAIN Listed : Listed[i] = Listed[j] => i = j
  /\ Children \in [Types -> Seq(Types)]
  /\ Found \in [Types -> Types]
  /\ Collections \subseteq Types /\ \A t \in Collections : Len(Children[t]) <= 1
  /\ Unsupported \subseteq Collections
  /\ Opaque \subseteq Types \ Collections /\ \A t \in Opaque : Children[t] = <<>>
  /\ \A t \in Unsupported : Children[t] = <<>>
  /\ \A o \in Onlys : o \subseteq Types
  /\ Limit \in Nat \ {0} /\ MaxDepth \in Nat \ {0} /\ MaxCalls \in Nat

VARIABLES
  m,         (* tt.m: a type is absent, a placeholder, resolved, or stored  *)
             (* with a part of its attributes                               *)
  mu,        (* the worker that holds tt.mu, or {}                          *)
  stack,     (* its recursion through get: a type, and its next child; 0    *)
             (* until the dictionary told what the type is                  *)
  call,      (* the number of the last call of Names                        *)
  pc,        (* where it is                                                 *)
  only,      (* its argument                                                *)
  next,      (* its next row                                                *)
  err,       (* every call's err                                            *)
  grpErr,    (* the first error of every call's group, which also cancels it*)
  worker,    (* the goroutines of every call, by type                       *)
  answers,   (* what the calls returned                                     *)
  failed,    (* for the properties: the types get failed for, by call       *)
  raced,     (* ... the calls where err = rows.Close(), or its check, met   *)
             (* a worker's own assignment and check of err                  *)
  cut,       (* ... the calls whose rows ended with an unnoticed error      *)
  lost       (* ... the types whose attributes' rows ended so               *)

tt == <<m, mu, stack>>
names == <<call, pc, only, next, answers>>
ghosts == <<failed, raced, cut, lost>>
vars == <<tt, names, err, grpErr, worker, ghosts>>

Calls == 1..MaxCalls
Errs == {"nil", "unsupported", "failed"}
Workers == {<<c, t>> : c \in Calls, t \in Types}

Active(c) == {t \in Types : worker[<<c, t>>] \notin {"none", "done"}}

TypeOK ==
  /\ m \in [Types -> {"absent", "placeholder", "resolved", "partial"}]
  /\ mu \in {{}} \cup {{w} : w \in Workers}
  /\ stack \in Seq([type : Types, next : Nat]) /\ (mu = {} => stack = <<>>)
  /\ call \in 0..MaxCalls /\ next \in Nat \ {0} /\ only \in Onlys
  /\ pc \in {"ready", "row", "go", "close", "check", "wait", "dead"}
  /\ err \in [Calls -> Errs] /\ grpErr \in [Calls -> Errs]
  /\ worker \in [Workers -> {"none", "start", "get", "assigned", "checked", "done"}]
  /\ \A c \in Calls : Cardinality(Active(c)) <= Limit
  /\ answers \in Seq([only : Onlys, err : Errs, names : SUBSET Types,
                      how : {"map", "early", "waited"}])
  /\ failed \in [Calls -> SUBSET Types]
  /\ raced \subseteq Calls /\ cut \subseteq Calls /\ lost \subseteq Types

Init ==
  /\ m = [t \in Types |-> "absent"]
  /\ mu = {} /\ stack = <<>>
  /\ call = 0 /\ pc = "ready" /\ only \in Onlys /\ next = 1 /\ answers = <<>>
  /\ err = [c \in Calls |-> "nil"]
  /\ grpErr = [c \in Calls |-> "nil"]
  /\ worker = [w \in Workers |-> "none"]
  /\ failed = [c \in Calls |-> {}]
  /\ raced = {} /\ cut = {} /\ lost = {}

Keys == {t \in Types : m[t] # "absent"}

Answer(o, e, ns, how) ==
  /\ answers' = Append(answers, [only |-> o, err |-> e, names |-> ns, how |-> how])
  /\ pc' = "ready"

-----------------------------------------------------------------------------
(* A map that already has something is asked first, without tt.mu: beside a *)
(* goroutine an earlier call left behind that is a concurrent map access,   *)
(* which the runtime may end the program for. Of the arguments none is found*)
(* there: the keys begin with the owner, the names the rows are compared to *)
(* do not.                                                                  *)
Fast(o) == Keys # {} /\ o = {}

Names ==
  /\ pc = "ready"
  /\ call < MaxCalls
  /\ call' = call + 1
  /\ only' \in Onlys
  /\ \/ /\ Fast(only')
        /\ Answer(only', "nil", Keys, "map")
     \/ /\ ~Fast(only')
        /\ pc' = "row"
        /\ UNCHANGED answers
     \/ /\ ~Fast(only')
        /\ Answer(only', "failed", {}, "early")
     \/ /\ mu # {}
        /\ pc' = "dead"
        /\ UNCHANGED answers
  /\ next' = 1
  /\ UNCHANGED <<tt, err, grpErr, worker, ghosts>>

NotNamed(t) == t \notin only                                   \* faulty variant
Skipped(t) == only # {} /\ t \notin only

(* A row is passed over when its type is not asked for or is in the map     *)
(* already: be it as a placeholder.                                         *)
Row ==
  /\ pc = "row"
  /\ next <= Len(Listed)
  /\ LET t == Listed[next] IN
     \/ /\ Skipped(t) \/ (mu = {} /\ m[t] # "absent")
        /\ next' = next + 1
        /\ UNCHANGED pc
     \/ /\ ~Skipped(t) /\ mu = {} /\ m[t] = "absent"
        /\ pc' = "go"
        /\ UNCHANGED next
  /\ UNCHANGED <<tt, call, only, answers, err, grpErr, worker, ghosts>>

(* rows.Scan fails: the workers are left behind.                            *)
ScanFails ==
  /\ pc = "row"
  /\ next <= Len(Listed)
  /\ Answer(only, "failed", {}, "early")
  /\ UNCHANGED <<tt, call, only, next, err, grpErr, worker, ghosts>>

(* rows.Next() is false after the last row, or after an error nobody asks   *)
(* for.                                                                     *)
RowsEnd ==
  /\ pc = "row"
  /\ pc' = "close"
  /\ cut' = IF next <= Len(Listed) THEN cut \cup {call} ELSE cut
  /\ UNCHANGED <<tt, call, only, next, answers, err, grpErr, worker, failed, raced, lost>>

NoLimit == TRUE                                                \* faulty variant
WithinLimit == Cardinality(Active(call)) < Limit

(* grp.Go waits for the limit.                                              *)
Go ==
  /\ pc = "go"
  /\ WithinLimit
  /\ worker' = [worker EXCEPT ![<<call, Listed[next]>>] = "start"]
  /\ next' = next + 1
  /\ pc' = "row"
  /\ UNCHANGED <<tt, call, only, answers, err, grpErr, ghosts>>

(* err = rows.Close(), while the workers use err.                           *)
Close ==
  /\ pc = "close"
  /\ pc' = "check"
  /\ \E e \in {"nil", "failed"} : err' = [err EXCEPT ![call] = e]
  /\ raced' = IF \E t \in Types : worker[<<call, t>>] \in {"assigned", "checked"}
              THEN raced \cup {call} ELSE raced
  /\ UNCHANGED <<tt, call, only, next, answers, grpErr, worker, failed, cut, lost>>

CheckClose ==
  /\ pc = "check"
  /\ \/ /\ err[call] # "nil"
        /\ Answer(only, err[call], {}, "early")
     \/ /\ err[call] = "nil"
        /\ pc' = "wait"
        /\ UNCHANGED answers
  /\ UNCHANGED <<tt, call, only, next, err, grpErr, worker, ghosts>>

AllReturned == Active(call) = {}

(* grp.Wait(), and every name in the map, with or without only.             *)
Wait ==
  /\ pc = "wait"
  /\ AllReturned
  /\ err' = [err EXCEPT ![call] = grpErr[call]]
  /\ \/ /\ grpErr[call] # "nil"
        /\ Answer(only, grpErr[call], {}, "waited")
     \/ /\ grpErr[call] = "nil" /\ mu = {}
        /\ Answer(only, "nil", Keys, "waited")
  /\ UNCHANGED <<tt, call, only, next, grpErr, worker, ghosts>>

-----------------------------------------------------------------------------
(* A goroutine of a call's group. The map is looked up again under the lock.*)
InMap(t) == m[t] # "absent"

Lock(c, t) ==
  /\ worker[<<c, t>>] = "start"
  /\ mu = {}
  /\ \/ /\ InMap(t)
        /\ worker' = [worker EXCEPT ![<<c, t>>] = "done"]
        /\ UNCHANGED tt
     \/ /\ ~InMap(t)
        /\ worker' = [worker EXCEPT ![<<c, t>>] = "get"]
        /\ mu' = {<<c, t>>}
        /\ m' = [m EXCEPT ![t] = "placeholder"]
        /\ stack' = <<[type |-> t, next |-> 1]>>
  /\ UNCHANGED <<names, err, grpErr, ghosts>>

Top == Last(stack)

(* The next attribute of a composite type: its entry in the map, whatever   *)
(* it was, becomes a placeholder, and get starts it over.                   *)
Advanced == [stack EXCEPT ![Len(stack)] = [type |-> Top.type, next |-> Top.next + 1]]
Pushed(k) == Append(Advanced, [type |-> k, next |-> 0])

Descend(c, t) ==
  /\ worker[<<c, t>>] = "get"
  /\ Top.next > 0
  /\ Top.next <= Len(Children[Top.type])
  /\ Len(stack) < MaxDepth
  /\ LET k == Children[Top.type][Top.next] IN
     /\ m' = [m EXCEPT ![k] = "placeholder"]
     /\ stack' = Pushed(k)
  /\ UNCHANGED <<mu, names, err, grpErr, worker, ghosts>>

(* The basic type info of a name from another type's row: get goes on with  *)
(* the name it finds, whose entry starts over too, and the entry of the     *)
(* first one stays what it is.                                              *)
Renamed == [stack EXCEPT ![Len(stack)] = [type |-> Found[Top.type], next |-> 1]]

Find(c, t) ==
  /\ worker[<<c, t>>] = "get"
  /\ Top.next = 0
  /\ m' = [m EXCEPT ![Found[Top.type]] = "placeholder"]
  /\ stack' = Renamed
  /\ UNCHANGED <<mu, names, err, grpErr, worker, ghosts>>

(* get returns e to the worker, which assigns it.                           *)
Assigns(c, t, e) ==
  /\ stack' = <<>>
  /\ err' = [err EXCEPT ![c] = e]
  /\ worker' = [worker EXCEPT ![<<c, t>>] = "assigned"]
  /\ raced' = IF c = call /\ pc = "check" THEN raced \cup {c} ELSE raced

(* get returns its type: to the worker, or to the get of what needs it.     *)
Returns(c, t) ==
  \/ /\ Len(stack) = 1
     /\ Assigns(c, t, "nil")
  \/ /\ Len(stack) > 1
     /\ stack' = Front(stack)
     /\ UNCHANGED <<err, worker, raced>>

Resolve(c, t) ==
  /\ worker[<<c, t>>] = "get"
  /\ Top.next > Len(Children[Top.type])
  /\ Top.next > 0
  /\ Top.type \notin Unsupported \cup Opaque
  /\ m' = [m EXCEPT ![Top.type] = "resolved"]
  /\ Returns(c, t)
  /\ UNCHANGED <<mu, names, grpErr, failed, cut, lost>>

(* rows.Next() is false after an error too, which nobody asks for: a type   *)
(* that has an attribute by then is stored with those it has. Without one   *)
(* get fails.                                                               *)
CutOff(c, t) ==
  /\ worker[<<c, t>>] = "get"
  /\ Top.next > 0
  /\ Top.type \notin Collections \cup Opaque
  /\ m' = [m EXCEPT ![Top.type] = "partial"]
  /\ lost' = lost \cup {Top.type}
  /\ Returns(c, t)
  /\ UNCHANGED <<mu, names, grpErr, failed, cut>>

(* A JSON type is returned as the placeholder that it is.                   *)
ReturnAsIs(c, t) ==
  /\ worker[<<c, t>>] = "get"
  /\ Top.next > 0
  /\ Top.type \in Opaque
  /\ Returns(c, t)
  /\ UNCHANGED <<m, mu, names, grpErr, failed, cut, lost>>

(* Every error goes up through the whole recursion: what was begun stays in *)
(* the map as it is.                                                        *)
NotSupported(c, t) ==
  /\ worker[<<c, t>>] = "get"
  /\ Top.next > 0
  /\ Top.type \in Unsupported
  /\ Assigns(c, t, "unsupported")
  /\ UNCHANGED <<m, mu, names, grpErr, failed, cut, lost>>

GetFails(c, t) ==
  /\ worker[<<c, t>>] = "get"
  /\ Top.next > 0 => Top.type \notin Opaque
  /\ Assigns(c, t, "failed")
  /\ failed' = [failed EXCEPT ![c] = @ \cup {t}]
  /\ UNCHANGED <<m, mu, names, grpErr, cut, lost>>

(* "not supported" is only logged.                                          *)
CheckErr(c, t) ==
  /\ worker[<<c, t>>] = "assigned"
  /\ err' = [err EXCEPT ![c] = IF @ = "unsupported" THEN "nil" ELSE @]
  /\ worker' = [worker EXCEPT ![<<c, t>>] = "checked"]
  /\ UNCHANGED <<tt, names, grpErr, ghosts>>

LastError(c) == err[c]                                         \* faulty variant
FirstError(c) == IF grpErr[c] = "nil" THEN err[c] ELSE grpErr[c]

(* return err, and tt.mu.Unlock().                                          *)
ReturnErr(c, t) ==
  /\ worker[<<c, t>>] = "checked"
  /\ grpErr' = [grpErr EXCEPT ![c] = FirstError(c)]
  /\ worker' = [worker EXCEPT ![<<c, t>>] = "done"]
  /\ mu' = {}
  /\ UNCHANGED <<m, stack, names, err, ghosts>>

-----------------------------------------------------------------------------
Caller == Names \/ Row \/ ScanFails \/ RowsEnd \/ Go \/ Close \/ CheckClose \/ Wait

Worker(c, t) ==
  \/ Lock(c, t) \/ Descend(c, t) \/ Find(c, t) \/ Resolve(c, t) \/ CutOff(c, t)
  \/ ReturnAsIs(c, t) \/ NotSupported(c, t) \/ GetFails(c, t)
  \/ CheckErr(c, t) \/ ReturnErr(c, t)

(* No further call is made, and every goroutine is through.                 *)
Terminated ==
  /\ pc = "dead" \/ (pc = "ready" /\ call = MaxCalls /\ \A c \in Calls : Active(c) = {})
  /\ UNCHANGED vars

Next ==
  \/ pc # "dead" /\ (Caller \/ \E c \in Calls, t \in Types : Worker(c, t))
  \/ Terminated

Spec == Init /\ [][Next]_vars

-----------------------------------------------------------------------------
Answered == DOMAIN answers

(* A call in one of whose goroutines get returned an error, other than "not *)
(* supported", returns one too, except when the assignment of rows.Close()'s*)
(* nil overtook the goroutine's error: the other way round it may return    *)
(* the harmless "not supported" as its own. This is about the errors that   *)
(* get returns: of rows of attributes that break off it returns none, see   *)
(* ListsWhatIsAsked for what they leave behind.                             *)
FailureTold ==
  \A c \in Answered :
    /\ answers[c].how = "waited" /\ answers[c].err = "nil" /\ failed[c] # {} => c \in raced
    /\ answers[c].err = "unsupported" => c \in raced

Asked(c) == IF answers[c].only = {} THEN ToSet(Listed) ELSE answers[c].only \cap ToSet(Listed)

(* What a type is made of, under the names the dictionary has for it; and   *)
(* the least set of types that has ts and the members of its members.       *)
Members(t) == {Found[k] : k \in ToSet(Children[t])}
IsClosed(ts) == \A t \in ts : Members(t) \subseteq ts

Needs(ts) == {t \in Types : \A C \in SUBSET Types : ts \subseteq C /\ IsClosed(C) => t \in C}

NeedsUnsupported(t) == Needs({t}) \cap Unsupported # {}

(* The entries that are left unresolved though nothing fails: of types that *)
(* need one that is not supported, JSON types, and other names of a type.   *)
NeverResolved == {t \in Types : NeedsUnsupported(t) \/ t \in Opaque \/ Found[t] # t}

(* Without an error the types asked for are there, except when the rows were*)
(* cut off, or when Names without arguments is answered from a map that an  *)
(* earlier call with arguments, or a failed or cut one, has begun. What is  *)
(* in the map as resolved has all that it is made of there too. A quiet map *)
(* leaves a type unresolved only after a failure, or when it is one of those*)
(* that never are; and stores one cut off only after rows of its attributes *)
(* broke off, which no call tells.                                          *)
ListsWhatIsAsked ==
  /\ \A c \in Answered :
       answers[c].err = "nil" /\ ~(Asked(c) \subseteq answers[c].names) =>
         \/ c \in cut
         \/ /\ answers[c].how = "map"
            /\ \E e \in 1..(c-1) : answers[e].only # {} \/ answers[e].err # "nil" \/ e \in cut
  /\ \A t \in Types :
       /\ m[t] = "resolved" => Members(t) \subseteq Keys
       /\ m[t] = "partial" => t \in lost
       /\ mu = {} /\ m[t] = "placeholder" => t \in NeverResolved \/ \E c \in Calls : failed[c] # {}
=============================================================================
