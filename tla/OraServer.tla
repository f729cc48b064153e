----------------------------- MODULE OraServer -----------------------------
(***************************************************************************)
(* The interceptors of orasrv.GRPCServer around concurrent calls: the      *)
(* authorization, the handler (module CallHandler, here only its outcome), *)
(* and the map erroredMethods of the methods whose last call failed, read  *)
(* under a read lock when a call begins and updated under the write lock   *)
(* when it ends, by what was read then.                                    *)
(***************************************************************************)
EXTENDS Naturals, Sequences

CONSTANTS
  Calls,     (* the calls of a run, each made once *)
  Methods,   (* the full method names *)
  MethodOf   (* the method every call calls *)

ASSUME ServerAssumption == MethodOf \in [Calls -> Methods]

VARIABLES
  verbose,        (* the server's flag: then the map is written, never read *)
  erroredMethods, (* the shared map, as a set *)
  pc,             (* where each call is *)
  wasThere,       (* getLogger's local, captured by commit *)
  failed,         (* the handler's outcome *)
  reply,          (* the status of each call *)
  history         (* history: the calls' begins and ends, in order *)

vars == <<verbose, erroredMethods, pc, wasThere, failed, reply, history>>

Events == [call : Calls, what : {"begin", "ok", "error"}]

TypeOK ==
  /\ verbose \in BOOLEAN
  /\ erroredMethods \subseteq Methods
  /\ pc \in [Calls -> {"idle", "auth", "handler", "commit", "done"}]
  /\ wasThere \in [Calls -> BOOLEAN]
  /\ failed \in [Calls -> BOOLEAN]
  /\ reply \in [Calls -> {"none", "ok", "error", "Unauthenticated"}]
  /\ history \in Seq(Events)

Init ==
  /\ verbose \in BOOLEAN
  /\ erroredMethods = {}
  /\ pc = [c \in Calls |-> "idle"]
  /\ wasThere = [c \in Calls |-> FALSE]
  /\ failed = [c \in Calls |-> FALSE]
  /\ reply = [c \in Calls |-> "none"]
  /\ history = <<>>

Happens(c, what) == history' = Append(history, [call |-> c, what |-> what])

-----------------------------------------------------------------------------
(* getLogger: the map is looked up only by a server that is not verbose.    *)
ReadsMap(c) == ~verbose /\ MethodOf[c] \in erroredMethods

GetLogger(c) ==
  /\ pc[c] = "idle"
  /\ wasThere' = [wasThere EXCEPT ![c] = ReadsMap(c)]
  /\ pc' = [pc EXCEPT ![c] = "auth"]
  /\ Happens(c, "begin")
  /\ UNCHANGED <<verbose, erroredMethods, failed, reply>>

(* checkAuth: a refused call returns at once, without commit.               *)
CheckAuth(c) ==
  /\ pc[c] = "auth"
  /\ \/ /\ pc' = [pc EXCEPT ![c] = "handler"]
        /\ UNCHANGED reply
     \/ /\ pc' = [pc EXCEPT ![c] = "done"]
        /\ reply' = [reply EXCEPT ![c] = "Unauthenticated"]
  /\ UNCHANGED <<verbose, erroredMethods, wasThere, failed, history>>

(* handler(ctx, req) returns, with the outcomes of CallHandler.             *)
Handle(c) ==
  /\ pc[c] = "handler"
  /\ failed' \in {[failed EXCEPT ![c] = b] : b \in BOOLEAN}
  /\ pc' = [pc EXCEPT ![c] = "commit"]
  /\ UNCHANGED <<verbose, erroredMethods, wasThere, reply, history>>

(* commit(err): the map after a call that found its method there or not.    *)
DropsAlways(c) == erroredMethods \ {MethodOf[c]}               \* faulty variant
ListsTheCall(c) == IF failed[c] THEN erroredMethods \cup {c} ELSE erroredMethods \* faulty variant
Updated(c) ==
  CASE wasThere[c] /\ ~failed[c] -> erroredMethods \ {MethodOf[c]}
    [] ~wasThere[c] /\ failed[c] -> erroredMethods \cup {MethodOf[c]}
    [] OTHER -> erroredMethods

CommitOutcome(c) ==
  /\ pc[c] = "commit"
  /\ erroredMethods' = Updated(c)
  /\ pc' = [pc EXCEPT ![c] = "done"]
  /\ reply' = [reply EXCEPT ![c] = IF failed[c] THEN "error" ELSE "ok"]
  /\ Happens(c, IF failed[c] THEN "error" ELSE "ok")
  /\ UNCHANGED <<verbose, wasThere, failed>>

Call(c) == GetLogger(c) \/ CheckAuth(c) \/ Handle(c) \/ CommitOutcome(c)

Next == \E c \in Calls : Call(c)

Spec == Init /\ [][Next]_vars

-----------------------------------------------------------------------------
(* The ends of the calls of a method, as positions in the history.          *)
Ends(m) == {i \in DOMAIN history : history[i].what # "begin" /\ MethodOf[history[i].call] = m}

IsLastEnd(m, i) == i \in Ends(m) /\ \A j \in Ends(m) : j <= i

(* Another call of the method ended so while the call that ends at i ran.   *)
EndedDuring(i, what) ==
  \E j \in 1..(i-1) :
    /\ history[j].what = what
    /\ MethodOf[history[j].call] = MethodOf[history[i].call]
    /\ \E b \in 1..j : history[b] = [call |-> history[i].call, what |-> "begin"]

(* The list tells how each method's last call ended, except by an overlap:  *)
(* a failed call leaves its method unlisted only when another one succeeded *)
(* meanwhile and took it off; a call that succeeded leaves it listed only   *)
(* when another one failed meanwhile, or the server is verbose. None is     *)
(* listed that no call of it failed.                                        *)
StaleOnlyByOverlap ==
  /\ \A m \in erroredMethods : \E i \in Ends(m) : history[i].what = "error"
  /\ \A m \in Methods : \A i \in DOMAIN history : IsLastEnd(m, i) =>
       /\ history[i].what = "error" /\ m \notin erroredMethods => EndedDuring(i, "ok")
       /\ history[i].what = "ok" /\ m \in erroredMethods => verbose \/ EndedDuring(i, "error")
=============================================================================
