---------------------------- MODULE CallPromise ----------------------------
(***************************************************************************)
(* What a generated method of the gRPC server (lib/plsql.go, PlsqlBlock)   *)
(* promises of one call: the procedure's transaction is committed only     *)
(* when every cursor has been read to its end and sent, except at most for *)
(* the rows of each cursor's last, partial batch; the caller hears "ok"    *)
(* only after the commit, and hears an error after a commit only if the    *)
(* commit's own answer was lost.                                           *)
(***************************************************************************)
EXTENDS Naturals

CONSTANTS Cursors,  (* the OUT cursors of the procedure                      *)
          Batch     (* rows in one message                                  *)

VARIABLES
  total,     (* the rows of every cursor; 0 for those not opened            *)
  tx,        (* the transaction                                             *)
  delivered, (* how many rows of every cursor the caller has received       *)
  doubt,     (* the commit was made but not confirmed                       *)
  reply      (* the status of the call                                      *)

vars == <<total, tx, delivered, doubt, reply>>

Errors == {"InvalidArgument", "error"}

(* The rows a cursor may have delivered at least when all went well: all of *)
(* them but the last batch, if that is not a full one.                      *)
Enough(c) == delivered[c] >= total[c] - (total[c] % Batch)

Init ==
  /\ total \in [Cursors -> Nat]
  /\ tx = "none"
  /\ delivered = [c \in Cursors |-> 0]
  /\ doubt = FALSE
  /\ reply = "none"

Begin ==
  /\ tx = "none" /\ reply = "none"
  /\ tx' = "open"
  /\ UNCHANGED <<total, delivered, doubt, reply>>

(* The procedure ran: it is known now which cursors it opened.              *)
Open ==
  /\ tx \in {"open", "rolledback"} /\ reply = "none"
  /\ \E S \in SUBSET Cursors : total' = [c \in Cursors |-> IF c \in S THEN total[c] ELSE 0]
  /\ \A c \in Cursors : delivered[c] = 0
  /\ UNCHANGED <<tx, delivered, doubt, reply>>

Deliver ==
  /\ tx \in {"open", "rolledback"} /\ reply = "none"
  /\ \E c \in Cursors, n \in 1..Batch :
       /\ delivered[c] + n <= total[c]
       /\ delivered' = [delivered EXCEPT ![c] = @ + n]
  /\ UNCHANGED <<total, tx, doubt, reply>>

Commit ==
  /\ tx = "open" /\ reply = "none"
  /\ \A c \in Cursors : Enough(c)
  /\ tx' = "committed"
  /\ doubt' \in BOOLEAN
  /\ UNCHANGED <<total, delivered, reply>>

Rollback ==
  /\ tx = "open"
  /\ tx' = "rolledback"
  /\ UNCHANGED <<total, delivered, doubt, reply>>

ReplyOk ==
  /\ tx = "committed" /\ ~doubt /\ reply = "none"
  /\ reply' = "ok"
  /\ UNCHANGED <<total, tx, delivered, doubt>>

(* A failed call's transaction is undone with, or before, the answer.       *)
ReplyError ==
  /\ reply = "none"
  /\ tx = "committed" => doubt
  /\ reply' \in Errors
  /\ tx' = IF tx = "open" THEN "rolledback" ELSE tx
  /\ UNCHANGED <<total, delivered, doubt>>

Next == Begin \/ Open \/ Deliver \/ Commit \/ Rollback \/ ReplyOk \/ ReplyError

Spec == Init /\ [][Next]_vars
=============================================================================
