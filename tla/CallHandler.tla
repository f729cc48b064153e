---------------------------- MODULE CallHandler ----------------------------
(***************************************************************************)
(* One call of a server method that oracall generates for a stored         *)
(* procedure (lib/plsql.go, PlsqlBlock): checks and hooks, a transaction,  *)
(* one execution of the PL/SQL block with one retry, conversion of the     *)
(* output, and - for a procedure with an OUT cursor - a streamed result of *)
(* batches, all before the commit.                                         *)
(*                                                                         *)
(* The database, the hooks and the client are the environment: each call   *)
(* of theirs may fail, and the call's context may be cancelled (client     *)
(* gone, deadline) between any two steps, after which database/sql rolls   *)
(* the transaction back on its own.                                        *)
(***************************************************************************)
EXTENDS Naturals, Sequences, FiniteSets

CONSTANTS
  Cursors,   (* the procedure's OUT cursors                                 *)
  Batch,     (* rows fetched for one message (batchSize, 1024)              *)
  MaxRows    (* bound: rows of a cursor                                     *)

ASSUME HandlerAssumption == Batch \in Nat \ {0} /\ MaxRows \in Nat

VARIABLES
  streaming,  (* the procedure has an OUT cursor: HasCursorOut              *)
  total,      (* rows of the cursors the block opens                        *)
  pc,         (* where the method is                                        *)
  err,        (* the named result err                                       *)
  ctxDone,    (* the call's context is done                                 *)
  nilCtx,     (* DBLog replaced ctx with nil                                *)
  tx,         (* the transaction                                            *)
  effects,    (* executions of the block that took effect in it             *)
  doubt,      (* the commit was made, its answer lost                       *)
  iterators,  (* the cursors still to be read                               *)
  iterators2, (* those of them this round has found not exhausted           *)
  turn,       (* the loop's position in iterators                           *)
  iterErr,    (* what the last Iterate returned                             *)
  fetched,    (* rows read from every cursor                                *)
  output,     (* the rows in the output message, for every cursor           *)
  received,   (* history: the rows the client got, for every cursor         *)
  gone,       (* the stream is broken: every Send fails                     *)
  reply       (* the status of the call                                     *)

dbVars == <<tx, effects, doubt>>
loopVars == <<iterators, iterators2, turn, iterErr, fetched, output, received>>
vars == <<streaming, total, pc, err, ctxDone, nilCtx, dbVars, loopVars, gone, reply>>

Errs == {"nil", "invalid", "canceled", "4068", "6502", "EOF", "fetch", "send", "other"}

Places == {"preflight", "begin", "prepare", "log", "exec", "retry", "failed", "convert",
           "after", "sendOnly", "loop", "send", "commit", "return", "done", "dead"}

FlagsOK ==
  /\ streaming \in BOOLEAN
  /\ ctxDone \in BOOLEAN
  /\ nilCtx \in BOOLEAN
  /\ doubt \in BOOLEAN
  /\ gone \in BOOLEAN

TypeOK ==
  /\ FlagsOK
  /\ total \in [Cursors -> 0..MaxRows]
  /\ pc \in Places
  /\ err \in Errs
  /\ tx \in {"none", "open", "committed", "rolledback"}
  /\ effects \in 0..2
  /\ iterators \in Seq(Cursors)
  /\ iterators2 \in Seq(Cursors)
  /\ turn \in Nat \ {0}
  /\ iterErr \in {"nil", "EOF", "fetch"}
  /\ fetched \in [Cursors -> Nat]
  /\ output \in [Cursors -> Seq(Nat)]
  /\ received \in [Cursors -> Seq(Nat)]
  /\ reply \in {"none", "ok", "InvalidArgument", "error"}

Init ==
  /\ streaming \in BOOLEAN
  /\ total \in [Cursors -> 0..MaxRows]
  /\ pc = "preflight"
  /\ err = "nil"
  /\ ctxDone = FALSE
  /\ nilCtx = FALSE
  /\ tx = "none"
  /\ effects = 0
  /\ doubt = FALSE
  /\ iterators = <<>>
  /\ iterators2 = <<>>
  /\ turn = 1
  /\ iterErr = "nil"
  /\ fetched = [c \in Cursors |-> 0]
  /\ output = [c \in Cursors |-> <<>>]
  /\ received = [c \in Cursors |-> <<>>]
  /\ gone = FALSE
  /\ reply = "none"

GoTo(place) == pc' = place /\ UNCHANGED err

Fail(e) == pc' = "return" /\ err' = e

-----------------------------------------------------------------------------
(* Before the transaction: the input check (a failed one is an invalid      *)
(* argument), ctx.Err(), BeforeHook and the input conversions.              *)
Preflight ==
  /\ pc = "preflight"
  /\ \/ ~ctxDone /\ GoTo("begin")
     \/ \E e \in {"invalid", "canceled", "other"} : Fail(e)
  /\ UNCHANGED <<streaming, total, ctxDone, nilCtx, dbVars, loopVars, gone, reply>>

Begin ==
  /\ pc = "begin"
  /\ \/ /\ ~ctxDone
        /\ tx' = "open"
        /\ GoTo("prepare")
     \/ /\ Fail("other")
        /\ UNCHANGED tx
  /\ UNCHANGED <<streaming, total, ctxDone, nilCtx, effects, doubt, loopVars, gone, reply>>

(* PrepareHook and tx.PrepareContext.                                       *)
Prepare ==
  /\ pc = "prepare"
  /\ \/ ~ctxDone /\ GoTo("log")
     \/ Fail("other")
  /\ UNCHANGED <<streaming, total, ctxDone, nilCtx, dbVars, loopVars, gone, reply>>

(* DBLog's context replaces the call's, even when DBLog fails and returns   *)
(* none; its error is only logged.                                          *)
Log ==
  /\ pc = "log"
  /\ nilCtx' \in BOOLEAN
  /\ GoTo("exec")
  /\ UNCHANGED <<streaming, total, ctxDone, dbVars, loopVars, gone, reply>>

(* stmt.ExecContext(nil, ...): the process ends (catchPanic is false), and  *)
(* the database undoes the session's transaction.                           *)
Panic ==
  /\ pc = "exec"
  /\ nilCtx
  /\ pc' = "dead"
  /\ tx' = "rolledback"
  /\ UNCHANGED <<streaming, total, err, ctxDone, nilCtx, effects, doubt, loopVars, gone, reply>>

-----------------------------------------------------------------------------
(* The block's execution. Oracle undoes a failed block; only of a cancelled *)
(* one the client cannot tell.                                              *)
Outcomes == {"nil", "canceled", "4068", "6502", "other"}

Executes(o) ==
  /\ o = "nil" => ~ctxDone
  /\ effects' \in IF o = "nil" THEN {effects + 1}
                  ELSE IF o = "canceled" THEN {effects, effects + 1}
                  ELSE {effects}
  /\ err' = o

AfterExec(o) == CASE o = "nil" -> "convert"
                  [] o = "canceled" -> "return"
                  [] o = "4068" -> "retry"
                  [] OTHER -> "failed"

Exec ==
  /\ pc = "exec"
  /\ ~nilCtx
  /\ \E o \in Outcomes : Executes(o) /\ pc' = AfterExec(o)
  /\ UNCHANGED <<streaming, total, ctxDone, nilCtx, tx, doubt, loopVars, gone, reply>>

(* ORA-04068, "existing state of packages has been discarded": once more,   *)
(* and this time every error is final.                                      *)
IgnoresSecondError(o) == "convert"                             \* faulty variant
RetriesForEver(o) == IF o = "nil" THEN "convert" ELSE "retry"   \* faulty variant
AfterRetry(o) == IF o = "nil" THEN "convert" ELSE "failed"

Retry ==
  /\ pc = "retry"
  /\ \E o \in Outcomes : Executes(o) /\ pc' = AfterRetry(o)
  /\ UNCHANGED <<streaming, total, ctxDone, nilCtx, tx, doubt, loopVars, gone, reply>>

(* QueryError, logged through DBLog; ORA-06502 becomes ErrInvalidArgument.  *)
ExecFailed ==
  /\ pc = "failed"
  /\ Fail(IF err = "6502" THEN "invalid" ELSE "other")
  /\ UNCHANGED <<streaming, total, ctxDone, nilCtx, dbVars, loopVars, gone, reply>>

-----------------------------------------------------------------------------
(* The output conversions; a cursor the block left NULL gets no iterator,   *)
(* and has no rows.                                                         *)
Openings == {s \in UNION {[1..n -> Cursors] : n \in 0..Cardinality(Cursors)} :
               \A i, j \in DOMAIN s : i # j => s[i] # s[j]}

Convert ==
  /\ pc = "convert"
  /\ \/ /\ iterators' \in IF streaming THEN Openings ELSE {<<>>}
        /\ total' = [c \in Cursors |->
                       IF \E i \in DOMAIN iterators' : iterators'[i] = c THEN total[c] ELSE 0]
        /\ GoTo("after")
     \/ /\ Fail("other")
        /\ UNCHANGED <<total, iterators>>
  /\ UNCHANGED <<streaming, ctxDone, nilCtx, dbVars, iterators2, turn, iterErr, fetched,
                 output, received, gone, reply>>

AfterAfterHook ==
  IF ~streaming THEN "commit" ELSE IF iterators = <<>> THEN "sendOnly" ELSE "loop"

AfterHook ==
  /\ pc = "after"
  /\ GoTo(AfterAfterHook) \/ Fail("other")
  /\ UNCHANGED <<streaming, total, ctxDone, nilCtx, dbVars, loopVars, gone, reply>>

(* stream.Send(output) either arrives, or fails from then on.               *)
Sends(ok) == /\ gone => ~ok
             /\ gone' = ~ok

(* No cursor was opened: one message, then the commit.                      *)
SendOnly ==
  /\ pc = "sendOnly"
  /\ \/ Sends(TRUE) /\ GoTo("commit")
     \/ Sends(FALSE) /\ Fail("send")
  /\ UNCHANGED <<streaming, total, ctxDone, nilCtx, dbVars, loopVars, reply>>

-----------------------------------------------------------------------------
(* The rounds over the live cursors.                                        *)

Rest(c) == total[c] - fetched[c]

RowsFrom(c, n) == [i \in 1..n |-> fetched[c] + i]

(* Iterate fills the output with up to Batch rows. A full batch returns nil *)
(* even when it held the last row; fewer rows end with io.EOF; the driver   *)
(* may fail after any number of them.                                       *)
Iterates(c, n, e) ==
  /\ CASE e = "nil" -> n = Batch /\ n <= Rest(c)
       [] e = "EOF" -> n = Rest(c) /\ n < Batch
       [] OTHER -> n < Batch /\ n <= Rest(c)
  /\ iterErr' = e
  /\ fetched' = [fetched EXCEPT ![c] = @ + n]
  /\ output' = [output EXCEPT ![c] = RowsFrom(c, n)]

Fetch ==
  /\ pc = "loop"
  /\ turn <= Len(iterators)
  /\ \/ /\ ctxDone
        /\ Fail("canceled")
        /\ UNCHANGED <<iterErr, fetched, output>>
     \/ /\ ~ctxDone
        /\ \E n \in 0..Batch, e \in {"nil", "EOF", "fetch"} : Iterates(iterators[turn], n, e)
        /\ GoTo("send")
  /\ UNCHANGED <<streaming, total, ctxDone, nilCtx, dbVars, iterators, iterators2, turn,
                 received, gone, reply>>

(* Send's error counts only when Iterate had none - not even io.EOF.        *)
RoundErr(ok) == IF ~ok /\ iterErr = "nil" THEN "send" ELSE iterErr

NoReset(c) == output                                           \* faulty variant
Reset(c) == [output EXCEPT ![c] = <<>>]

KeepsAll(c, e) == Append(iterators2, c)                        \* faulty variant
Keeps(c, e) == IF e = "nil" THEN Append(iterators2, c) ELSE iterators2

SendBatch ==
  /\ pc = "send"
  /\ LET c == iterators[turn] IN
     \E ok \in BOOLEAN :
       /\ Sends(ok)
       /\ received' = IF ok THEN [x \in Cursors |-> received[x] \o output[x]] ELSE received
       /\ output' = Reset(c)
       /\ iterators2' = Keeps(c, RoundErr(ok))
       /\ \/ /\ RoundErr(ok) \in {"nil", "EOF"}
             /\ turn' = turn + 1
             /\ pc' = "loop"
             /\ err' = RoundErr(ok)
          \/ /\ RoundErr(ok) \notin {"nil", "EOF"}
             /\ Fail(RoundErr(ok))
             /\ UNCHANGED turn
  /\ UNCHANGED <<streaming, total, ctxDone, nilCtx, dbVars, iterators, iterErr, fetched, reply>>

(* The round is over: commit when no cursor is left, else go round again    *)
(* with those that are.                                                     *)
CommitsEarly == Len(iterators2) < Len(iterators)               \* faulty variant
AllExhausted == iterators2 = <<>>

EndRound ==
  /\ pc = "loop"
  /\ turn > Len(iterators)
  /\ \/ /\ AllExhausted
        /\ GoTo("commit")
        /\ UNCHANGED <<iterators, iterators2, turn>>
     \/ /\ ~AllExhausted
        /\ iterators' = iterators2
        /\ iterators2' = <<>>
        /\ turn' = 1
        /\ UNCHANGED <<pc, err>>
  /\ UNCHANGED <<streaming, total, ctxDone, nilCtx, dbVars, iterErr, fetched, output,
                 received, gone, reply>>

-----------------------------------------------------------------------------
(* err = tx.Commit(): it is refused when the context is done; the database  *)
(* may refuse it; or the database does it and the answer is lost.           *)
ForgetsCommitError(e) == "nil"                                 \* faulty variant
CommitError(e) == e

Commit ==
  /\ pc = "commit"
  /\ pc' = "return"
  /\ \/ /\ tx = "open" /\ ~ctxDone
        /\ tx' = "committed"
        /\ \/ err' = CommitError("nil") /\ UNCHANGED doubt
           \/ err' = CommitError("other") /\ doubt' = TRUE
     \/ /\ err' = CommitError("other")
        /\ UNCHANGED <<tx, doubt>>
  /\ UNCHANGED <<streaming, total, ctxDone, nilCtx, effects, loopVars, gone, reply>>

(* return: the deferred tx.Rollback() does nothing after a commit; the      *)
(* interceptor's StatusError makes the status.                              *)
NoDeferredRollback == tx                                       \* faulty variant
DeferredRollback == IF tx = "open" THEN "rolledback" ELSE tx

StatusError(e) == IF e = "nil" THEN "ok" ELSE IF e = "invalid" THEN "InvalidArgument" ELSE "error"

Return ==
  /\ pc = "return"
  /\ pc' = "done"
  /\ tx' = DeferredRollback
  /\ reply' = StatusError(err)
  /\ UNCHANGED <<streaming, total, err, ctxDone, nilCtx, effects, doubt, loopVars, gone>>

(* The client goes away or the deadline passes.                             *)
Cancel ==
  /\ ~ctxDone
  /\ pc \notin {"done", "dead"}
  /\ ctxDone' = TRUE
  /\ UNCHANGED <<streaming, total, pc, err, nilCtx, dbVars, loopVars, gone, reply>>

(* database/sql's own goroutine rolls back the transaction of a done context*)
AwaitDone ==
  /\ ctxDone
  /\ tx = "open"
  /\ tx' = "rolledback"
  /\ UNCHANGED <<streaming, total, pc, err, ctxDone, nilCtx, effects, doubt, loopVars, gone, reply>>

-----------------------------------------------------------------------------
Handler ==
  \/ Preflight \/ Begin \/ Prepare \/ Log \/ Panic \/ Exec \/ Retry \/ ExecFailed
  \/ Convert \/ AfterHook \/ SendOnly \/ Fetch \/ SendBatch \/ EndRound \/ Commit \/ Return

Terminated == pc \in {"done", "dead"} /\ UNCHANGED vars

Next == Handler \/ Cancel \/ AwaitDone \/ Terminated

(* The handler's goroutine runs on: whatever it calls comes back.           *)
Spec == Init /\ [][Next]_vars /\ WF_vars(Handler)

-----------------------------------------------------------------------------
Finished == pc = "done"

Opened == {c \in Cursors : total[c] > 0}

(* The block takes effect at most once, and has taken effect exactly once in*)
(* a committed transaction, whatever was retried or cancelled on the way.   *)
ExactlyOnce == effects <= 1 /\ (tx = "committed" => effects = 1)

(* The client hears "ok" only of a committed transaction, and hears an      *)
(* error of a committed one only if the commit's answer was lost.           *)
OutcomeTold ==
  /\ reply = "ok" => tx = "committed"
  /\ Finished /\ tx = "committed" => reply = "ok" \/ doubt
  /\ Finished => tx # "open"

(* Of every cursor the client receives the rows in order, none twice and    *)
(* none left out between two it received.                                   *)
ReceivedInOrder ==
  \A c \in Cursors : \A i \in DOMAIN received[c] : received[c][i] = i

(* The transaction, and with it the cursors, ends well only after every     *)
(* cursor was read to its end, and the client has every row of each - or,   *)
(* because a failed Send of the batch that met io.EOF is not reported,      *)
(* every row but those of the last, partial batch.                          *)
LossOnlyInLastBatch ==
  tx = "committed" => \A c \in Cursors :
    /\ fetched[c] = total[c]
    /\ Len(received[c]) \in {total[c], total[c] - (total[c] % Batch)}

(* After a row was lost the stream is broken: what the client misses is the *)
(* end of the stream, it cannot get later rows of any cursor.               *)
LostMeansGone ==
  \A c \in Cursors : Len(received[c]) + Len(output[c]) < fetched[c] => gone

(* Every call ends.                                                         *)
CallEnds == <>(pc \in {"done", "dead"})

Promise == INSTANCE CallPromise WITH delivered <- [c \in Cursors |-> Len(received[c])]

(* The method keeps what CallPromise promises of it.                        *)
KeepsPromise == Promise!Spec
=============================================================================
