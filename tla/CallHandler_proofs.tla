------------------------- MODULE CallHandler_proofs -------------------------
(***************************************************************************)
(* Theorems about CallHandler, for any cursors, any batch size and any     *)
(* bound on the rows.                                                      *)
(***************************************************************************)
EXTENDS CallHandler, SequenceTheorems, TLAPS

(* Where the block has not been executed, and where it has been.            *)
Before == {"preflight", "begin", "prepare", "log", "exec", "retry"}
After == {"convert", "after", "sendOnly", "loop", "send", "commit"}

(* The executions and the transaction, by the place of the method: what     *)
(* ExactlyOnce needs to be inductive.                                       *)
ExecInv ==
  /\ effects <= 1
  /\ pc \in Before => effects = 0
  /\ pc \in After => effects = 1
  /\ tx = "committed" => pc \in {"return", "done"} /\ effects = 1

(* What the method returns, and what it tells: no error goes with anything  *)
(* but a committed transaction.                                            *)
ReplyInv ==
  /\ pc \in {"return", "done"} => /\ err = "nil" => tx = "committed"
                                  /\ tx = "committed" => err = "nil" \/ doubt
  /\ pc = "done" => reply = StatusError(err) /\ tx # "open"
  /\ pc # "done" => reply = "none"

(* A batch is sent for the cursor it was read from.                         *)
TurnInv == pc = "send" => turn <= Len(iterators)

IInv == TypeOK /\ ExecInv /\ ReplyInv /\ TurnInv

-----------------------------------------------------------------------------
(* The cursors a call opens, in any order, are a sequence of cursors.       *)
LEMMA OpeningsType == Openings \subseteq Seq(Cursors)
BY DEF Openings

(* What Iterate appends to a message is a sequence of row numbers.          *)
LEMMA RowsType ==
  ASSUME TypeOK, NEW c \in Cursors, NEW n \in 0..Batch
  PROVE  RowsFrom(c, n) \in Seq(Nat)
BY HandlerAssumption DEF TypeOK, RowsFrom

(* A call that has not begun satisfies the invariant.                       *)
LEMMA InitIInv == Init => IInv
<1> SUFFICES ASSUME Init PROVE IInv
  OBVIOUS
<1>1. FlagsOK
  BY DEF Init, FlagsOK
<1>2. TypeOK
  <2>1. /\ iterators \in Seq(Cursors) /\ iterators2 \in Seq(Cursors)
        /\ output \in [Cursors -> Seq(Nat)] /\ received \in [Cursors -> Seq(Nat)]
    BY DEF Init
  <2> QED
    BY <1>1, <2>1 DEF Init, TypeOK, Places, Errs
<1>3. ExecInv /\ ReplyInv /\ TurnInv
  BY DEF Init, ExecInv, ReplyInv, TurnInv, Before, After
<1> QED
  BY <1>2, <1>3 DEF IInv

(* The flags keep their type, by the shape of every action.                 *)
LEMMA FlagsStep == FlagsOK /\ [Next]_vars => FlagsOK'
<1> SUFFICES ASSUME FlagsOK, [Next]_vars PROVE FlagsOK'
  OBVIOUS
<1> USE DEF FlagsOK, dbVars
<1>1. CASE Preflight
  BY <1>1 DEF Preflight
<1>2. CASE Begin
  BY <1>2 DEF Begin
<1>3. CASE Prepare
  BY <1>3 DEF Prepare
<1>4. CASE Log
  BY <1>4 DEF Log
<1>5. CASE Panic
  BY <1>5 DEF Panic
<1>6. CASE Exec
  BY <1>6 DEF Exec
<1>7. CASE Retry
  BY <1>7 DEF Retry
<1>8. CASE ExecFailed
  BY <1>8 DEF ExecFailed
<1>9. CASE Convert
  BY <1>9 DEF Convert
<1>10. CASE AfterHook
  BY <1>10 DEF AfterHook
<1>11. CASE SendOnly
  BY <1>11 DEF SendOnly, Sends
<1>12. CASE Fetch
  BY <1>12 DEF Fetch
<1>13. CASE SendBatch
  BY <1>13 DEF SendBatch, Sends
<1>14. CASE EndRound
  BY <1>14 DEF EndRound
<1>15. CASE Commit
  BY <1>15 DEF Commit
<1>16. CASE Return
  BY <1>16 DEF Return
<1>17. CASE Cancel
  BY <1>17 DEF Cancel
<1>18. CASE AwaitDone
  BY <1>18 DEF AwaitDone
<1>19. CASE UNCHANGED vars
  BY <1>19 DEF vars
<1> QED
  BY <1>1, <1>2, <1>3, <1>4, <1>5, <1>6, <1>7, <1>8, <1>9, <1>10, <1>11, <1>12, <1>13,
     <1>14, <1>15, <1>16, <1>17, <1>18, <1>19 DEF Next, Handler, Terminated

(* Every step keeps the types, the executions and the replies right.        *)
LEMMA StepIInv == IInv /\ [Next]_vars => IInv'
<1> SUFFICES ASSUME IInv, [Next]_vars PROVE IInv'
  OBVIOUS
<1>0. FlagsOK'
  BY FlagsStep DEF IInv, TypeOK
<1> USE DEF IInv, ExecInv, ReplyInv, TurnInv, Before, After, Places, Errs, dbVars, loopVars
<1>1. CASE Preflight
  <2>1. TypeOK'
    BY <1>0, <1>1 DEF Preflight, GoTo, Fail, TypeOK
  <2>2. ExecInv' /\ ReplyInv' /\ TurnInv'
    BY <1>1 DEF Preflight, GoTo, Fail, TypeOK
  <2> QED
    BY <2>1, <2>2
<1>2. CASE Begin
  <2>1. TypeOK'
    BY <1>0, <1>2 DEF Begin, GoTo, Fail, TypeOK
  <2>2. ExecInv' /\ ReplyInv' /\ TurnInv'
    BY <1>2 DEF Begin, GoTo, Fail, TypeOK
  <2> QED
    BY <2>1, <2>2
<1>3. CASE Prepare
  <2>1. TypeOK'
    BY <1>0, <1>3 DEF Prepare, GoTo, Fail, TypeOK
  <2>2. ExecInv' /\ ReplyInv' /\ TurnInv'
    BY <1>3 DEF Prepare, GoTo, Fail, TypeOK
  <2> QED
    BY <2>1, <2>2
<1>4. CASE Log
  <2>1. TypeOK'
    BY <1>0, <1>4 DEF Log, GoTo, TypeOK
  <2>2. ExecInv' /\ ReplyInv' /\ TurnInv'
    BY <1>4 DEF Log, GoTo, TypeOK
  <2> QED
    BY <2>1, <2>2
<1>5. CASE Panic
  <2>1. TypeOK'
    BY <1>0, <1>5 DEF Panic, TypeOK
  <2>2. ExecInv' /\ ReplyInv' /\ TurnInv'
    BY <1>5 DEF Panic, TypeOK
  <2> QED
    BY <2>1, <2>2
<1>6. CASE Exec
  <2>1. TypeOK'
    BY <1>0, <1>6 DEF Exec, Executes, AfterExec, Outcomes, TypeOK
  <2>2. ExecInv' /\ ReplyInv' /\ TurnInv'
    BY <1>6 DEF Exec, Executes, AfterExec, Outcomes, TypeOK
  <2> QED
    BY <2>1, <2>2
<1>7. CASE Retry
  <2>1. TypeOK'
    BY <1>0, <1>7 DEF Retry, Executes, AfterRetry, Outcomes, TypeOK
  <2>2. ExecInv' /\ ReplyInv' /\ TurnInv'
    BY <1>7 DEF Retry, Executes, AfterRetry, Outcomes, TypeOK
  <2> QED
    BY <2>1, <2>2
<1>8. CASE ExecFailed
  <2>1. TypeOK'
    BY <1>0, <1>8 DEF ExecFailed, Fail, TypeOK
  <2>2. ExecInv' /\ ReplyInv' /\ TurnInv'
    BY <1>8 DEF ExecFailed, Fail, TypeOK
  <2> QED
    BY <2>1, <2>2
<1>9. CASE AfterHook
  <2>1. TypeOK'
    BY <1>0, <1>9 DEF AfterHook, AfterAfterHook, GoTo, Fail, TypeOK
  <2>2. ExecInv' /\ ReplyInv' /\ TurnInv'
    BY <1>9 DEF AfterHook, AfterAfterHook, GoTo, Fail, TypeOK
  <2> QED
    BY <2>1, <2>2
<1>10. CASE SendOnly
  <2>1. TypeOK'
    BY <1>0, <1>10 DEF SendOnly, Sends, GoTo, Fail, TypeOK
  <2>2. ExecInv' /\ ReplyInv' /\ TurnInv'
    BY <1>10 DEF SendOnly, Sends, GoTo, Fail, TypeOK
  <2> QED
    BY <2>1, <2>2
<1>11. CASE Commit
  <2>1. TypeOK'
    BY <1>0, <1>11 DEF Commit, CommitError, TypeOK
  <2>2. ExecInv' /\ ReplyInv' /\ TurnInv'
    BY <1>11 DEF Commit, CommitError, TypeOK
  <2> QED
    BY <2>1, <2>2
<1>12. CASE Return
  <2>1. TypeOK'
    BY <1>0, <1>12 DEF Return, DeferredRollback, StatusError, TypeOK
  <2>2. ExecInv' /\ ReplyInv' /\ TurnInv'
    BY <1>12 DEF Return, DeferredRollback, StatusError, TypeOK
  <2> QED
    BY <2>1, <2>2
<1>13. CASE Cancel
  <2>1. TypeOK'
    BY <1>0, <1>13 DEF Cancel, TypeOK
  <2>2. ExecInv' /\ ReplyInv' /\ TurnInv'
    BY <1>13 DEF Cancel, TypeOK
  <2> QED
    BY <2>1, <2>2
<1>14. CASE AwaitDone
  <2>1. TypeOK'
    BY <1>0, <1>14 DEF AwaitDone, TypeOK
  <2>2. ExecInv' /\ ReplyInv' /\ TurnInv'
    BY <1>14 DEF AwaitDone, TypeOK
  <2> QED
    BY <2>1, <2>2
<1>15. CASE Convert
  <2>1. iterators' \in Seq(Cursors) /\ total' \in [Cursors -> 0..MaxRows]
    <3>1. iterators' \in Seq(Cursors)
      <4>1. iterators' \in Openings \/ iterators' = <<>> \/ iterators' = iterators
        BY <1>15 DEF Convert
      <4>2. <<>> \in Seq(Cursors)
        OBVIOUS
      <4> QED
        BY <4>1, <4>2, OpeningsType DEF TypeOK
    <3>2. total' \in [Cursors -> 0..MaxRows]
      <4>1. 0 \in 0..MaxRows
        BY HandlerAssumption
      <4> QED
        BY <1>15, <4>1 DEF Convert, TypeOK
    <3> QED
      BY <3>1, <3>2
  <2>2. TypeOK'
    BY <1>0, <1>15, <2>1 DEF Convert, GoTo, Fail, TypeOK
  <2>3. ExecInv' /\ ReplyInv' /\ TurnInv'
    BY <1>15 DEF Convert, GoTo, Fail, TypeOK
  <2> QED
    BY <2>2, <2>3
<1>16. CASE Fetch
  <2>1. iterErr' \in {"nil", "EOF", "fetch"} /\ fetched' \in [Cursors -> Nat] /\ output' \in [Cursors -> Seq(Nat)]
    <3>1. CASE UNCHANGED <<iterErr, fetched, output>>
      BY <3>1 DEF TypeOK
    <3>2. ASSUME NEW n \in 0..Batch, NEW e \in {"nil", "EOF", "fetch"}, turn <= Len(iterators),
                 Iterates(iterators[turn], n, e)
          PROVE  iterErr' \in {"nil", "EOF", "fetch"} /\ fetched' \in [Cursors -> Nat] /\ output' \in [Cursors -> Seq(Nat)]
      <4>1. iterators[turn] \in Cursors
        BY <3>2 DEF TypeOK
      <4>2. RowsFrom(iterators[turn], n) \in Seq(Nat)
        BY <4>1, RowsType DEF TypeOK
      <4> QED
        <5>1. output' \in [Cursors -> Seq(Nat)]
          BY <3>2, <4>2 DEF Iterates, TypeOK
        <5>2. n \in Nat
          BY HandlerAssumption
        <5>3. fetched' \in [Cursors -> Nat]
          <6>1. fetched' = [fetched EXCEPT ![iterators[turn]] = @ + n]
            BY <3>2 DEF Iterates
          <6>2. fetched \in [Cursors -> Nat]
            BY DEF TypeOK
          <6>3. fetched[iterators[turn]] + n \in Nat
            BY <4>1, <5>2, <6>2
          <6> QED
            BY <6>1, <6>2, <6>3
        <5>4. iterErr' \in {"nil", "EOF", "fetch"}
          BY <3>2 DEF Iterates
        <5> QED
          BY <5>1, <5>3, <5>4
    <3> QED
      BY <1>16, <3>1, <3>2 DEF Fetch
  <2>2. TypeOK'
    BY <1>0, <1>16, <2>1 DEF Fetch, GoTo, Fail, TypeOK
  <2>3. ExecInv' /\ ReplyInv' /\ TurnInv'
    BY <1>16 DEF Fetch, GoTo, Fail, TypeOK
  <2> QED
    BY <2>2, <2>3
<1>17. CASE SendBatch
  <2> DEFINE c == iterators[turn]
  <2>1. c \in Cursors
    BY <1>17 DEF SendBatch, TypeOK, TurnInv
  <2>2. PICK ok \in BOOLEAN :
          /\ received' = IF ok THEN [x \in Cursors |-> received[x] \o output[x]] ELSE received
          /\ output' = Reset(c)
          /\ iterators2' = Keeps(c, RoundErr(ok))
          /\ \/ turn' = turn + 1 /\ pc' = "loop" /\ err' = RoundErr(ok) /\ RoundErr(ok) \in {"nil", "EOF"}
             \/ RoundErr(ok) \notin {"nil", "EOF"} /\ Fail(RoundErr(ok)) /\ UNCHANGED turn
    BY <1>17 DEF SendBatch
  <2>3. RoundErr(ok) \in {"nil", "EOF", "fetch", "send"}
    BY DEF RoundErr, TypeOK
  <2>4. received' \in [Cursors -> Seq(Nat)] /\ output' \in [Cursors -> Seq(Nat)]
    <3>1. \A x \in Cursors : received[x] \o output[x] \in Seq(Nat)
      BY ConcatProperties DEF TypeOK
    <3>2. [x \in Cursors |-> received[x] \o output[x]] \in [Cursors -> Seq(Nat)]
      BY <3>1
    <3>3. received' \in [Cursors -> Seq(Nat)]
      BY <2>2, <3>2 DEF TypeOK
    <3>4. <<>> \in Seq(Nat)
      OBVIOUS
    <3>5. output' \in [Cursors -> Seq(Nat)]
      BY <2>1, <2>2, <3>4 DEF TypeOK, Reset
    <3> QED
      BY <3>3, <3>5
  <2>5. iterators2' \in Seq(Cursors)
    BY <2>1, <2>2 DEF TypeOK, Keeps
  <2>6. TypeOK'
    <3>1. UNCHANGED <<total, tx, effects, iterators, iterErr, fetched, reply>>
      BY <1>17 DEF SendBatch
    <3>2. pc' \in Places /\ err' \in Errs
      BY <2>2, <2>3 DEF Fail
    <3>3. turn' \in Nat \ {0}
      <4>1. turn' = turn + 1 \/ turn' = turn
        BY <2>2
      <4> QED
        BY <4>1 DEF TypeOK
    <3> QED
      BY <1>0, <2>4, <2>5, <3>1, <3>2, <3>3 DEF TypeOK
  <2>7. ExecInv' /\ ReplyInv' /\ TurnInv'
    BY <1>17, <2>2, <2>3 DEF SendBatch, Fail, TypeOK
  <2> QED
    BY <2>6, <2>7
<1>18. CASE EndRound
  <2>1. TypeOK'
    <3>1. UNCHANGED <<total, tx, effects, iterErr, fetched, output, received, reply>>
      BY <1>18 DEF EndRound
    <3>2. pc' \in Places /\ err' \in Errs
      BY <1>18 DEF EndRound, GoTo, TypeOK
    <3>3. turn' \in Nat \ {0}
      BY <1>18 DEF EndRound, TypeOK
    <3>4. <<>> \in Seq(Cursors)
      OBVIOUS
    <3>5. /\ iterators' = iterators \/ iterators' = iterators2
          /\ iterators2' = iterators2 \/ iterators2' = <<>>
      BY <1>18 DEF EndRound
    <3>6. iterators' \in Seq(Cursors) /\ iterators2' \in Seq(Cursors)
      BY <3>4, <3>5 DEF TypeOK
    <3> QED
      BY <1>0, <3>1, <3>2, <3>3, <3>6 DEF TypeOK
  <2>2. ExecInv' /\ ReplyInv' /\ TurnInv'
    BY <1>18 DEF EndRound, AllExhausted, GoTo, TypeOK
  <2> QED
    BY <2>1, <2>2
<1>19. CASE UNCHANGED vars
  BY <1>19 DEF vars, TypeOK, FlagsOK
<1> QED
  BY <1>1, <1>2, <1>3, <1>4, <1>5, <1>6, <1>7, <1>8, <1>9, <1>10, <1>11, <1>12, <1>13, <1>14, <1>15, <1>16, <1>17, <1>18, <1>19 DEF Next, Handler, Terminated

-----------------------------------------------------------------------------
(* The rows on their way: the client has a prefix of what was fetched, the  *)
(* output message the rows right after that prefix - and before them, once  *)
(* the stream is broken, the rows that were lost.                          *)

RowsAfter(s, n) == \A i \in 1..Len(s) : s[i] = n + i

RowsInv ==
  /\ \A c \in Cursors : Len(received[c]) + Len(output[c]) <= fetched[c]
  /\ ~gone => \A c \in Cursors : Len(received[c]) + Len(output[c]) = fetched[c]
  /\ \A c \in Cursors : RowsAfter(received[c], 0)
  /\ \A c \in Cursors : RowsAfter(output[c], fetched[c] - Len(output[c]))
  /\ \A c \in Cursors : ~(pc = "send" /\ c = iterators[turn]) => output[c] = <<>>

(* An empty message continues any prefix: there is nothing out of order in  *)
(* it.                                                                      *)
LEMMA NoRows == \A n : RowsAfter(<<>>, n)
BY DEF RowsAfter

(* What is left of the fetched rows without those of a message is a number. *)
LEMMA Difference ==
  \A a, b, d \in Nat : (a + b = d => d - b = a) /\ (a + b <= d => a <= d)
OBVIOUS

(* Appending to the first rows the ones right after them.                   *)
LEMMA Extends ==
  ASSUME NEW r \in Seq(Nat), NEW o \in Seq(Nat), RowsAfter(r, 0), RowsAfter(o, Len(r))
  PROVE  RowsAfter(r \o o, 0)
<1>1. Len(r) \in Nat /\ Len(o) \in Nat
  OBVIOUS
<1>2. /\ Len(r \o o) = Len(r) + Len(o)
      /\ \A i \in 1..Len(r) + Len(o) :
           (r \o o)[i] = IF i <= Len(r) THEN r[i] ELSE o[i - Len(r)]
  BY ConcatProperties
<1>3. ASSUME NEW i \in 1..Len(r) + Len(o)
      PROVE  (r \o o)[i] = i
  <2>1. CASE i <= Len(r)
    BY <1>1, <1>2, <2>1 DEF RowsAfter
  <2>2. CASE ~(i <= Len(r))
    <3>1. i - Len(r) \in 1..Len(o) /\ Len(r) + (i - Len(r)) = i
      BY <1>1, <2>2
    <3>2. o[i - Len(r)] = Len(r) + (i - Len(r))
      BY <3>1 DEF RowsAfter
    <3> QED
      BY <1>2, <2>2, <3>1, <3>2
  <2> QED
    BY <2>1, <2>2
<1> QED
  BY <1>1, <1>2, <1>3 DEF RowsAfter

(* Before the first batch nothing was fetched, sent or kept.                *)
LEMMA InitRows == Init => RowsInv
BY NoRows DEF Init, RowsInv

(* What a batch of n rows is.                                               *)
LEMMA BatchRows ==
  ASSUME IInv, NEW c \in Cursors, NEW n \in 0..Batch
  PROVE  /\ RowsFrom(c, n) \in Seq(Nat)
         /\ Len(RowsFrom(c, n)) = n
         /\ RowsAfter(RowsFrom(c, n), fetched[c])
<1>1. n \in Nat
  BY HandlerAssumption
<1> QED
  BY <1>1, RowsType DEF IInv, TypeOK, RowsFrom, RowsAfter

(* A batch is read: only when no other is waiting to be sent.               *)
LEMMA FetchRows == IInv /\ RowsInv /\ Fetch => RowsInv'
<1> SUFFICES ASSUME IInv, RowsInv, Fetch PROVE RowsInv'
  OBVIOUS
<1>1. CASE UNCHANGED <<iterErr, fetched, output>>
  <2>1. UNCHANGED <<received, gone, fetched, output>> /\ pc = "loop"
    BY <1>1 DEF Fetch
  <2> QED
    BY <2>1 DEF RowsInv
<1>2. ASSUME NEW n \in 0..Batch, NEW e \in {"nil", "EOF", "fetch"}, Iterates(iterators[turn], n, e),
             turn <= Len(iterators), pc' = "send"
      PROVE  RowsInv'
  <2> DEFINE c == iterators[turn]
  <2>1. c \in Cursors /\ n \in Nat
    BY <1>2, HandlerAssumption DEF IInv, TypeOK
  <2>2. UNCHANGED <<received, gone, iterators, turn>> /\ pc = "loop"
    BY DEF Fetch
  <2>3. /\ fetched' = [fetched EXCEPT ![c] = fetched[c] + n]
        /\ output' = [output EXCEPT ![c] = RowsFrom(c, n)]
    BY <1>2 DEF Iterates
  <2>4. \A x \in Cursors : output[x] = <<>>
    BY <2>2 DEF RowsInv
  <2> HIDE DEF c
  <2>5. ASSUME NEW x \in Cursors
        PROVE  /\ Len(received[x]) + Len(output'[x]) <= fetched'[x]
               /\ ~gone => Len(received[x]) + Len(output'[x]) = fetched'[x]
               /\ RowsAfter(output'[x], fetched'[x] - Len(output'[x]))
               /\ x # c => output'[x] = <<>>
    <3>1. /\ Len(received[x]) \in Nat /\ fetched[x] \in Nat
          /\ Len(received[x]) <= fetched[x]
          /\ ~gone => Len(received[x]) = fetched[x]
      BY <2>4 DEF RowsInv, IInv, TypeOK
    <3>2. CASE x = c
      <4>1. output'[x] = RowsFrom(c, n) /\ fetched'[x] = fetched[x] + n
        BY <2>1, <2>3, <3>2 DEF IInv, TypeOK
      <4>2. Len(output'[x]) = n /\ RowsAfter(output'[x], fetched[x])
        BY <2>1, <3>2, <4>1, BatchRows
      <4>3. fetched'[x] - Len(output'[x]) = fetched[x]
        BY <2>1, <3>1, <4>1, <4>2
      <4> QED
        BY <2>1, <3>1, <3>2, <4>1, <4>2, <4>3
    <3>3. CASE x # c
      <4>1. output'[x] = <<>> /\ fetched'[x] = fetched[x]
        BY <2>1, <2>3, <2>4, <3>3 DEF IInv, TypeOK
      <4> QED
        BY <3>1, <4>1, NoRows
    <3> QED
      BY <3>2, <3>3
  <2>6. \A x \in Cursors : ~(pc' = "send" /\ x = iterators'[turn']) => output'[x] = <<>>
    BY <1>2, <2>2, <2>5 DEF c
  <2> QED
    BY <2>2, <2>5, <2>6 DEF RowsInv
<1> QED
  BY <1>1, <1>2 DEF Fetch, GoTo

(* A batch is sent, or lost, and the message is emptied.                    *)
LEMMA SendRows == IInv /\ RowsInv /\ SendBatch => RowsInv'
<1> SUFFICES ASSUME IInv, RowsInv, SendBatch PROVE RowsInv'
  OBVIOUS
<1> DEFINE c == iterators[turn]
<1>1. c \in Cursors /\ UNCHANGED fetched /\ pc = "send"
  BY DEF SendBatch, IInv, TypeOK, TurnInv
<1>2. output' = [output EXCEPT ![c] = <<>>]
  BY DEF SendBatch, Reset
<1>3. \A x \in Cursors : output'[x] = <<>>
  BY <1>1, <1>2 DEF RowsInv, IInv, TypeOK
<1>4. \A x \in Cursors : /\ Len(output'[x]) = 0
                         /\ RowsAfter(output'[x], fetched'[x] - Len(output'[x]))
  <2>1. ASSUME NEW x \in Cursors
        PROVE  /\ Len(output'[x]) = 0
               /\ RowsAfter(output'[x], fetched'[x] - Len(output'[x]))
    <3>1. output'[x] = <<>>
      BY <1>3
    <3>2. Len(<<>>) = 0
      OBVIOUS
    <3>3. RowsAfter(<<>>, fetched'[x] - Len(<<>>))
      BY NoRows
    <3> QED
      BY <3>1, <3>2, <3>3
  <2> QED
    BY <2>1
<1> HIDE DEF c
<1>5. CASE ~gone /\ ~gone' /\ received' = [x \in Cursors |-> received[x] \o output[x]]
  <2>1. ASSUME NEW x \in Cursors
        PROVE  /\ Len(received'[x]) + Len(output'[x]) = fetched'[x]
               /\ Len(received'[x]) + Len(output'[x]) <= fetched'[x]
               /\ RowsAfter(received'[x], 0)
    <3>0. received[x] \in Seq(Nat) /\ output[x] \in Seq(Nat)
      BY DEF IInv, TypeOK
    <3>1. fetched[x] \in Nat /\ Len(received[x]) \in Nat /\ Len(output[x]) \in Nat
      BY DEF IInv, TypeOK
    <3>2. Len(received[x]) + Len(output[x]) = fetched[x]
      BY <1>5 DEF RowsInv
    <3>3. fetched[x] - Len(output[x]) = Len(received[x])
      BY <3>1, <3>2, Difference
    <3>4. RowsAfter(received[x], 0) /\ RowsAfter(output[x], Len(received[x]))
      BY <3>3 DEF RowsInv
    <3>5. received'[x] = received[x] \o output[x]
      BY <1>5
    <3>6. RowsAfter(received'[x], 0)
      BY <3>0, <3>4, <3>5, Extends
    <3>7. Len(received'[x]) = fetched[x]
      <4>1. Len(received[x] \o output[x]) = Len(received[x]) + Len(output[x])
        BY <3>0, ConcatProperties
      <4> QED
        BY <3>2, <3>5, <4>1
    <3> QED
      BY <1>1, <1>4, <3>1, <3>6, <3>7
  <2> QED
    BY <1>3, <1>4, <1>5, <2>1 DEF RowsInv
<1>6. CASE gone' /\ received' = received
  <2>1. ASSUME NEW x \in Cursors
        PROVE  Len(received'[x]) + Len(output'[x]) <= fetched'[x]
    <3>1. Len(received[x]) \in Nat /\ Len(output[x]) \in Nat /\ fetched[x] \in Nat
      BY DEF IInv, TypeOK
    <3>2. Len(received[x]) + Len(output[x]) <= fetched[x]
      BY DEF RowsInv
    <3>3. Len(received[x]) <= fetched[x]
      BY <3>1, <3>2, Difference
    <3>4. Len(received'[x]) = Len(received[x]) /\ Len(output'[x]) = 0 /\ fetched'[x] = fetched[x]
      BY <1>1, <1>4, <1>6
    <3>5. Len(received'[x]) + Len(output'[x]) = Len(received[x])
      BY <3>1, <3>4
    <3> QED
      BY <3>3, <3>4, <3>5
  <2> QED
    BY <1>3, <1>4, <1>6, <2>1 DEF RowsInv
<1> QED
  BY <1>5, <1>6 DEF SendBatch, Sends

(* No step of the call, nor a cancellation, puts a row out of order: only   *)
(* Fetch and SendBatch touch the rows.                                      *)
LEMMA StepRows == IInv /\ RowsInv /\ [Next]_vars => RowsInv'
<1> SUFFICES ASSUME IInv, RowsInv, [Next]_vars PROVE RowsInv'
  OBVIOUS
<1>1. CASE Fetch
  BY <1>1, FetchRows
<1>2. CASE SendBatch
  BY <1>2, SendRows
<1>3. CASE SendOnly
  <2>1. UNCHANGED <<received, output, fetched>> /\ pc' # "send" /\ pc # "send" /\ (~gone' => ~gone)
    BY <1>3 DEF SendOnly, Sends, GoTo, Fail, loopVars
  <2> QED
    BY <2>1 DEF RowsInv
<1>4. CASE EndRound
  <2>1. UNCHANGED <<received, output, fetched, gone>> /\ pc' # "send" /\ pc # "send"
    BY <1>4 DEF EndRound, GoTo
  <2> QED
    BY <2>1 DEF RowsInv
<1>5. CASE Cancel \/ AwaitDone \/ UNCHANGED vars
  <2>1. UNCHANGED <<received, output, fetched, gone, pc, iterators, turn>>
    BY <1>5 DEF Cancel, AwaitDone, vars, loopVars
  <2> QED
    BY <2>1 DEF RowsInv
<1>6. CASE \/ Preflight \/ Begin \/ Prepare \/ Log \/ Panic \/ Exec \/ Retry \/ ExecFailed
           \/ Convert \/ AfterHook \/ Commit \/ Return
  <2>1. UNCHANGED <<received, output, fetched, gone>> /\ pc # "send"
    BY <1>6 DEF Preflight, Begin, Prepare, Log, Panic, Exec, Retry, ExecFailed, Convert, AfterHook,
                Commit, Return, loopVars
  <2> QED
    BY <2>1 DEF RowsInv
<1> QED
  BY <1>1, <1>2, <1>3, <1>4, <1>5, <1>6 DEF Next, Handler, Terminated

-----------------------------------------------------------------------------
(* The types, as the inductive invariant has them.                          *)
THEOREM TypeCorrect == Spec => []TypeOK
<1>1. IInv => TypeOK
  BY DEF IInv
<1> QED
  BY <1>1, InitIInv, StepIInv, PTL DEF Spec

(* PlsqlBlock's retry after ORA-04068 never doubles the effect, and nothing *)
(* is committed without it.                                                *)
THEOREM ExactlyOnceHolds == Spec => []ExactlyOnce
<1>1. IInv => ExactlyOnce
  BY DEF IInv, ExecInv, ExactlyOnce
<1> QED
  BY <1>1, InitIInv, StepIInv, PTL DEF Spec

(* The status the client gets agrees with what became of the transaction.   *)
THEOREM OutcomeToldHolds == Spec => []OutcomeTold
<1>1. IInv => OutcomeTold
  BY DEF IInv, ReplyInv, TypeOK, FlagsOK, OutcomeTold, Finished, StatusError
<1> QED
  BY <1>1, InitIInv, StepIInv, PTL DEF Spec

(* Whatever fails or is cancelled while the cursors are read in rounds, the *)
(* client receives a prefix of each.                                       *)
THEOREM ReceivedInOrderHolds == Spec => []ReceivedInOrder
<1>1. IInv /\ RowsInv => ReceivedInOrder
  BY DEF IInv, TypeOK, RowsInv, RowsAfter, ReceivedInOrder
<1> QED
  BY <1>1, InitIInv, StepIInv, InitRows, StepRows, PTL DEF Spec

(* Rows are lost at the end of the stream only.                             *)
THEOREM LostMeansGoneHolds == Spec => []LostMeansGone
<1>1. IInv /\ RowsInv => LostMeansGone
  BY DEF IInv, TypeOK, RowsInv, LostMeansGone
<1> QED
  BY <1>1, InitIInv, StepIInv, InitRows, StepRows, PTL DEF Spec

-----------------------------------------------------------------------------
(* What a committed call has delivered, and that every step of the handler *)
(* is one that CallPromise allows.                                         *)

Got(c) == Len(received[c])
LastBatch(c) == total[c] % Batch

(* Where no row has been read yet, and where the transaction is being used. *)
Unread == {"preflight", "begin", "prepare", "log", "exec", "retry", "failed", "convert", "after", "sendOnly"}
Using == {"prepare", "log", "exec", "retry", "failed", "convert", "after", "sendOnly", "loop", "send", "commit"}

(* The transaction is begun before it is used, and committed last.          *)
TxInv ==
  /\ pc \in {"preflight", "begin"} => tx = "none"
  /\ pc \in Using => tx \in {"open", "rolledback"}
  /\ doubt => pc \in {"return", "done"} /\ err # "nil"

(* No cursor with rows left is forgotten: the round has it still to come,   *)
(* or has kept it for the next.                                             *)
Waiting(c) == \/ \E i \in DOMAIN iterators : i >= turn /\ iterators[i] = c
              \/ \E i \in DOMAIN iterators2 : iterators2[i] = c

LeftInv ==
  /\ pc \in Unread => /\ iterators2 = <<>> /\ turn = 1
                      /\ \A c \in Cursors : fetched[c] = 0 /\ received[c] = <<>>
  /\ pc = "after" /\ ~streaming => iterators = <<>>
  /\ pc = "sendOnly" => iterators = <<>>
  /\ \A c \in Cursors : fetched[c] <= total[c]
  /\ pc \in {"after", "sendOnly", "loop", "send"} => \A c \in Cursors : fetched[c] < total[c] => Waiting(c)
  /\ pc = "commit" => \A c \in Cursors : fetched[c] = total[c]

(* A cursor has been read in full batches, and all of them arrived; or it   *)
(* has been read to its end, and but for the last, partial batch they did.  *)
InBatches(c) == fetched[c] % Batch = 0 /\ Got(c) + Len(output[c]) = fetched[c]
AtEnd(c) == /\ fetched[c] = total[c]
            /\ Got(c) \in {total[c], total[c] - LastBatch(c)}
            /\ Len(output[c]) = 0 \/ Got(c) + Len(output[c]) = total[c]

BatchInv ==
  /\ pc \in Unread \cup {"loop", "commit"} => \A c \in Cursors : InBatches(c) \/ AtEnd(c)
  /\ pc = "send" =>
       /\ \A c \in Cursors \ {iterators[turn]} : InBatches(c) \/ AtEnd(c)
       /\ iterErr = "nil" => InBatches(iterators[turn])
       /\ iterErr = "EOF" => AtEnd(iterators[turn])
       /\ Len(output[iterators[turn]]) <= Batch

PInv == IInv /\ RowsInv /\ TxInv /\ LeftInv /\ BatchInv /\ LossOnlyInLastBatch

-----------------------------------------------------------------------------
(* One more full batch leaves no partial one; fewer rows are the remainder. *)
LEMMA FullBatch ==
  ASSUME NEW b \in Nat \ {0}, NEW f \in Nat, f % b = 0 PROVE (f + b) % b = 0
<1> DEFINE k == f \div b
           q == (f + b) \div b
           r == (f + b) % b
<1>1. f = b * k /\ k \in Nat
  OBVIOUS
<1>2. f + b = b * q + r /\ q \in Nat /\ r \in Nat /\ r < b
  OBVIOUS
<1> HIDE DEF k, q, r
<1>3. CASE q <= k
  <2>1. PICK d \in Nat : k = q + d
    <3>1. k - q \in Nat /\ k = q + (k - q)
      BY <1>1, <1>2, <1>3
    <3> QED
      BY <3>1
  <2>2. b * k = b * q + b * d
    BY <1>1, <1>2, <2>1
  <2>3. b * d \in Nat /\ b * q \in Nat
    BY <1>2, <2>1
  <2> QED
    BY <1>1, <1>2, <2>2, <2>3
<1>4. CASE q > k + 1
  <2>1. PICK d \in Nat : q = (k + 2) + d
    <3>1. q - (k + 2) \in Nat /\ q = (k + 2) + (q - (k + 2))
      BY <1>1, <1>2, <1>4
    <3> QED
      BY <3>1
  <2>2. b * q = b * k + b + b + b * d
    BY <1>1, <1>2, <2>1
  <2>3. b * d \in Nat /\ b * k \in Nat
    BY <1>1, <2>1
  <2> QED
    BY <1>1, <1>2, <2>2, <2>3
<1>5. CASE q = k + 1
  <2>1. b * q = b * k + b
    BY <1>1, <1>2, <1>5
  <2>2. b * k \in Nat
    BY <1>1
  <2>3. r = 0
    BY <1>1, <1>2, <2>1, <2>2
  <2> QED
    BY <2>3 DEF r
<1> QED
  BY <1>1, <1>2, <1>3, <1>4, <1>5

LEMMA PartialBatch ==
  ASSUME NEW b \in Nat \ {0}, NEW f \in Nat, NEW n \in Nat, n < b, f % b = 0 PROVE (f + n) % b = n
OBVIOUS

(* The numbers that are compared are numbers.                               *)
LEMMA Numbers ==
  ASSUME TypeOK
  PROVE \A c \in Cursors : /\ Got(c) \in Nat /\ Len(output[c]) \in Nat /\ fetched[c] \in Nat /\ total[c] \in Nat
                           /\ LastBatch(c) \in Nat /\ total[c] - LastBatch(c) \in Nat
<1> SUFFICES ASSUME NEW c \in Cursors
             PROVE /\ Got(c) \in Nat /\ Len(output[c]) \in Nat /\ fetched[c] \in Nat /\ total[c] \in Nat
                   /\ LastBatch(c) \in Nat /\ total[c] - LastBatch(c) \in Nat
  OBVIOUS
<1>1. Got(c) \in Nat /\ Len(output[c]) \in Nat /\ fetched[c] \in Nat /\ total[c] \in Nat
  BY HandlerAssumption DEF TypeOK, Got
<1>2. total[c] % Batch \in Nat /\ total[c] - (total[c] % Batch) \in Nat
  BY SMTT(20), <1>1, HandlerAssumption
<1> QED
  BY <1>1, <1>2 DEF LastBatch

(* Before the first batch.                                                  *)
LEMMA InitPInv == Init => PInv
<1> SUFFICES ASSUME Init PROVE PInv
  OBVIOUS
<1>1. IInv /\ RowsInv
  BY InitIInv, InitRows
<1>2. TxInv /\ LossOnlyInLastBatch
  BY DEF Init, TxInv, Using, LossOnlyInLastBatch
<1>3. LeftInv
  BY HandlerAssumption DEF Init, LeftInv
<1>4. BatchInv
  <2>1. 0 % Batch = 0
    BY HandlerAssumption
  <2> QED
    BY <2>1 DEF Init, BatchInv, InBatches, Got
<1> QED
  BY <1>1, <1>2, <1>3, <1>4 DEF PInv

-----------------------------------------------------------------------------
(* The transaction's own steps.                                             *)
LEMMA StepTx == PInv /\ [Next]_vars => TxInv'
<1> SUFFICES ASSUME PInv, [Next]_vars PROVE TxInv'
  OBVIOUS
<1> USE DEF PInv, TxInv, Using, dbVars
<1>1. CASE Preflight \/ Begin \/ Prepare \/ Log \/ Panic
  BY <1>1 DEF Preflight, Begin, Prepare, Log, Panic, GoTo, Fail
<1>2. CASE Exec \/ Retry
  BY <1>2 DEF Exec, Retry, AfterExec, AfterRetry, Outcomes
<1>3. CASE ExecFailed \/ Convert \/ AfterHook \/ SendOnly
  <2>1. UNCHANGED <<tx, doubt>> /\ pc \in Using /\ pc' \in {"after", "sendOnly", "loop", "commit", "return"}
    <3>1. CASE ExecFailed
      BY <3>1 DEF ExecFailed, Fail
    <3>2. CASE Convert
      BY <3>2 DEF Convert, GoTo, Fail
    <3>3. CASE AfterHook
      BY <3>3 DEF AfterHook, AfterAfterHook, GoTo, Fail
    <3>4. CASE SendOnly
      BY <3>4 DEF SendOnly, GoTo, Fail
    <3> QED
      BY <1>3, <3>1, <3>2, <3>3, <3>4
  <2>2. ~doubt
    BY <2>1
  <2> QED
    BY <2>1, <2>2
<1>4. CASE Fetch \/ SendBatch \/ EndRound
  <2>1. UNCHANGED <<tx, doubt>> /\ pc \in {"loop", "send"} /\ pc' \in {"loop", "send", "commit", "return"}
    BY <1>4 DEF Fetch, SendBatch, EndRound, GoTo, Fail
  <2> QED
    BY <2>1
<1>5. CASE Commit
  BY <1>5 DEF Commit, CommitError
<1>6. CASE Return
  BY <1>6 DEF Return, DeferredRollback
<1>7. CASE Cancel \/ AwaitDone
  BY <1>7 DEF Cancel, AwaitDone
<1>8. CASE UNCHANGED vars
  BY <1>8 DEF vars
<1> QED
  BY <1>1, <1>2, <1>3, <1>4, <1>5, <1>6, <1>7, <1>8 DEF Next, Handler, Terminated

(* The steps before the rows and those after them leave the rows alone.     *)
LEMMA QuietBefore ==
  ASSUME Preflight \/ Begin \/ Prepare \/ Log \/ Panic \/ Exec \/ Retry \/ ExecFailed
  PROVE /\ UNCHANGED <<streaming, total, iterators, iterators2, turn, fetched, output, received>>
        /\ pc \in Unread \ {"after", "sendOnly"}
        /\ pc' \in (Unread \ {"after", "sendOnly"}) \cup {"return", "dead"}
<1> USE DEF loopVars, Unread
<1>1. CASE Preflight \/ Begin \/ Prepare \/ Log \/ Panic
  BY <1>1 DEF Preflight, Begin, Prepare, Log, Panic, GoTo, Fail
<1>2. CASE Exec \/ Retry \/ ExecFailed
  BY <1>2 DEF Exec, Retry, AfterExec, AfterRetry, Outcomes, ExecFailed, Fail
<1> QED
  BY <1>1, <1>2

LEMMA QuietAfter ==
  ASSUME Commit \/ Return
  PROVE /\ UNCHANGED <<streaming, total, iterators, iterators2, turn, fetched, output, received>>
        /\ pc \in {"commit", "return"} /\ pc' \in {"return", "done"}
BY DEF Commit, Return, loopVars

LEMMA QuietBeside ==
  ASSUME Cancel \/ AwaitDone \/ UNCHANGED vars
  PROVE UNCHANGED <<streaming, total, pc, iterators, iterators2, turn, iterErr, fetched, output, received>>
BY DEF Cancel, AwaitDone, vars, loopVars

(* What a fetch changes.                                                    *)
LEMMA FetchStep ==
  ASSUME PInv, Fetch
  PROVE \/ UNCHANGED <<iterErr, fetched, output>> /\ pc' = "return"
        \/ \E n \in 0..Batch : /\ Iterates(iterators[turn], n, iterErr')
                               /\ iterators[turn] \in Cursors
                               /\ iterErr' \in {"nil", "EOF", "fetch"}
                               /\ pc' = "send"
<1>1. iterators[turn] \in Cursors
  BY DEF Fetch, PInv, IInv, TypeOK
<1>2. ASSUME NEW n \in 0..Batch, NEW e \in {"nil", "EOF", "fetch"}, Iterates(iterators[turn], n, e)
      PROVE iterErr' = e
  BY <1>2 DEF Iterates
<1> QED
  BY <1>1, <1>2 DEF Fetch, GoTo, Fail

LEMMA IteratesCases ==
  ASSUME NEW c, NEW n, NEW e \in {"nil", "EOF", "fetch"}, Iterates(c, n, e)
  PROVE /\ e = "nil" => n = Batch /\ n <= Rest(c)
        /\ e = "EOF" => n = Rest(c) /\ n < Batch
        /\ e = "fetch" => n < Batch /\ n <= Rest(c)
        /\ fetched' = [fetched EXCEPT ![c] = fetched[c] + n]
        /\ output' = [output EXCEPT ![c] = RowsFrom(c, n)]
BY DEF Iterates

(* What a send changes.                                                     *)
LEMMA SendStep ==
  ASSUME PInv, SendBatch
  PROVE /\ iterators[turn] \in Cursors /\ pc = "send" /\ turn <= Len(iterators)
        /\ UNCHANGED <<total, iterators, iterErr, fetched>>
        /\ \E ok \in BOOLEAN :
             /\ gone' = ~ok
             /\ received' = IF ok THEN [x \in Cursors |-> received[x] \o output[x]] ELSE received
             /\ output' = [output EXCEPT ![iterators[turn]] = <<>>]
             /\ \/ pc' = "return"
                \/ /\ pc' = "loop" /\ turn' = turn + 1
                   /\ iterErr = "nil" /\ ok /\ iterators2' = Append(iterators2, iterators[turn])
                \/ pc' = "loop" /\ turn' = turn + 1 /\ iterErr = "EOF" /\ iterators2' = iterators2
<1>1. iterators[turn] \in Cursors /\ pc = "send" /\ turn <= Len(iterators) /\ UNCHANGED <<total, iterators, iterErr, fetched>>
  BY DEF SendBatch, PInv, IInv, TypeOK, TurnInv
<1>2. PICK ok \in BOOLEAN :
        /\ Sends(ok)
        /\ received' = IF ok THEN [x \in Cursors |-> received[x] \o output[x]] ELSE received
        /\ output' = Reset(iterators[turn])
        /\ iterators2' = Keeps(iterators[turn], RoundErr(ok))
        /\ \/ turn' = turn + 1 /\ pc' = "loop" /\ RoundErr(ok) \in {"nil", "EOF"}
           \/ pc' = "return"
  BY DEF SendBatch, Fail
<1>3. iterErr \in {"nil", "EOF", "fetch"}
  BY DEF PInv, IInv, TypeOK
<1>4. RoundErr(ok) = "nil" => iterErr = "nil" /\ ok /\ iterators2' = Append(iterators2, iterators[turn])
  BY <1>2, <1>3 DEF RoundErr, Keeps
<1>5. RoundErr(ok) = "EOF" => iterErr = "EOF" /\ iterators2' = iterators2
  BY <1>2, <1>3 DEF RoundErr, Keeps
<1> QED
  BY <1>1, <1>2, <1>4, <1>5 DEF Sends, Reset

-----------------------------------------------------------------------------
(* Every cursor with rows left is still to be read.                         *)
LEMMA StepLeft == PInv /\ [Next]_vars => LeftInv'
<1> SUFFICES ASSUME PInv, [Next]_vars PROVE LeftInv'
  OBVIOUS
<1>0. TypeOK /\ LeftInv /\ BatchInv
  BY DEF PInv, IInv
<1>a. \A c \in Cursors : fetched[c] \in Nat /\ total[c] \in Nat
  BY <1>0, Numbers
<1>1. CASE Preflight \/ Begin \/ Prepare \/ Log \/ Panic \/ Exec \/ Retry \/ ExecFailed
  BY <1>0, <1>1, QuietBefore DEF LeftInv, Unread
<1>2. CASE Commit \/ Return
  BY <1>0, <1>2, QuietAfter DEF LeftInv, Unread
<1>3. CASE Cancel \/ AwaitDone \/ UNCHANGED vars
  BY <1>0, <1>3, QuietBeside DEF LeftInv, Waiting
<1>4. CASE Convert
  <2>1. UNCHANGED <<streaming, iterators2, turn, fetched, received>> /\ pc = "convert" /\ pc' \in {"after", "return"}
    BY <1>4 DEF Convert, GoTo, Fail
  <2>2. iterators2 = <<>> /\ turn = 1 /\ \A c \in Cursors : fetched[c] = 0 /\ received[c] = <<>>
    BY <1>0, <2>1 DEF LeftInv, Unread
  <2>3. CASE pc' = "return"
    <3>1. total' = total
      BY <1>4, <2>3 DEF Convert, GoTo
    <3> QED
      BY <1>0, <2>1, <2>3, <3>1 DEF LeftInv, Unread
  <2>4. CASE pc' = "after"
    <3>1. /\ iterators' \in IF streaming THEN Openings ELSE {<<>>}
          /\ total' = [c \in Cursors |->
                         IF \E i \in DOMAIN iterators' : iterators'[i] = c THEN total[c] ELSE 0]
      BY <1>4, <2>4 DEF Convert, Fail
    <3>2. iterators' \in Seq(Cursors)
      <4>1. iterators' \in Openings \/ iterators' = <<>>
        BY <3>1
      <4>2. <<>> \in Seq(Cursors)
        OBVIOUS
      <4> QED
        BY <4>1, <4>2, OpeningsType
    <3>3. ASSUME NEW c \in Cursors PROVE fetched'[c] <= total'[c] /\ (fetched'[c] < total'[c] => Waiting(c)')
      <4>1. CASE \E i \in DOMAIN iterators' : iterators'[i] = c
        <5>1. PICK i \in DOMAIN iterators' : iterators'[i] = c
          BY <4>1
        <5>2. i >= turn'
          BY <2>1, <2>2, <3>2
        <5>3. total'[c] = total[c] /\ fetched'[c] = 0
          BY <2>1, <2>2, <3>1, <4>1
        <5> QED
          BY <1>a, <5>1, <5>2, <5>3 DEF Waiting
      <4>2. CASE ~\E i \in DOMAIN iterators' : iterators'[i] = c
        <5>1. total'[c] = 0 /\ fetched'[c] = 0
          BY <2>1, <2>2, <3>1, <4>2
        <5> QED
          BY <5>1
      <4> QED
        BY <4>1, <4>2
    <3>4. ~streaming => iterators' = <<>>
      BY <3>1
    <3> QED
      BY <2>1, <2>2, <2>4, <3>3, <3>4 DEF LeftInv
  <2> QED
    BY <2>1, <2>3, <2>4
<1>5. CASE AfterHook \/ SendOnly
  <2>1. UNCHANGED <<streaming, total, iterators, iterators2, turn, fetched, received>> /\ pc \in {"after", "sendOnly"}
    BY <1>5 DEF AfterHook, SendOnly, loopVars
  <2>2. iterators2 = <<>> /\ turn = 1 /\ \A c \in Cursors : fetched[c] = 0 /\ received[c] = <<>>
    BY <1>0, <2>1 DEF LeftInv, Unread
  <2>3. pc' \in {"sendOnly", "loop", "commit", "return"}
    BY <1>5 DEF AfterHook, AfterAfterHook, SendOnly, GoTo, Fail
  <2>4. pc' \in {"sendOnly", "commit"} => iterators = <<>>
    BY <1>0, <1>5 DEF AfterHook, AfterAfterHook, SendOnly, GoTo, Fail, LeftInv
  <2>5. ASSUME iterators = <<>>, NEW c \in Cursors PROVE fetched[c] = total[c]
    <3>1. ~Waiting(c)
      BY <2>2, <2>5 DEF Waiting
    <3> QED
      BY <1>0, <1>a, <2>1, <3>1 DEF LeftInv
  <2>6. \A c \in Cursors : Waiting(c)' = Waiting(c)
    BY <2>1 DEF Waiting
  <2> QED
    BY <1>0, <2>1, <2>2, <2>3, <2>4, <2>5, <2>6 DEF LeftInv
<1>6. CASE Fetch
  <2>1. UNCHANGED <<total, iterators, iterators2, turn>> /\ pc' \in {"send", "return"}
    BY <1>6 DEF Fetch, GoTo, Fail
  <2>2. ASSUME NEW c \in Cursors PROVE fetched'[c] \in Nat /\ fetched[c] <= fetched'[c] /\ fetched'[c] <= total[c]
    <3>1. CASE fetched' = fetched
      BY <1>0, <1>a, <3>1 DEF LeftInv
    <3>2. ASSUME NEW n \in 0..Batch, Iterates(iterators[turn], n, iterErr'), iterators[turn] \in Cursors,
                 iterErr' \in {"nil", "EOF", "fetch"}
          PROVE fetched'[c] \in Nat /\ fetched[c] <= fetched'[c] /\ fetched'[c] <= total[c]
      <4>1. n \in Nat
        BY HandlerAssumption
      <4>2. n <= Rest(iterators[turn]) /\ fetched' = [fetched EXCEPT ![iterators[turn]] = fetched[iterators[turn]] + n]
        <5>1. Rest(iterators[turn]) \in Nat
          BY <1>0, <1>a, <3>2 DEF Rest, LeftInv
        <5> QED
          BY <3>2, <4>1, <5>1, IteratesCases
      <4>3. fetched'[c] = IF c = iterators[turn] THEN fetched[c] + n ELSE fetched[c]
        BY <1>0, <4>2 DEF TypeOK
      <4> QED
        BY <1>0, <1>a, <4>1, <4>2, <4>3 DEF Rest, LeftInv
    <3> QED
      BY <1>6, <3>1, <3>2, FetchStep
  <2>3. \A c \in Cursors : Waiting(c)' = Waiting(c)
    BY <2>1 DEF Waiting
  <2>4. pc = "loop"
    BY <1>6 DEF Fetch
  <2>5. \A c \in Cursors : fetched'[c] < total'[c] => Waiting(c)'
    BY <1>0, <1>a, <2>1, <2>2, <2>3, <2>4 DEF LeftInv
  <2> QED
    BY <2>1, <2>2, <2>5 DEF LeftInv, Unread
<1>7. CASE SendBatch
  <2> DEFINE c == iterators[turn]
  <2>1. c \in Cursors /\ pc = "send" /\ turn <= Len(iterators) /\ UNCHANGED <<total, iterators, fetched>>
    BY <1>7, SendStep
  <2>2. CASE pc' = "return"
    BY <1>0, <2>1, <2>2 DEF LeftInv, Unread
  <2>3. ASSUME pc' = "loop", turn' = turn + 1,
               (iterErr = "nil" /\ iterators2' = Append(iterators2, c)) \/ (iterErr = "EOF" /\ iterators2' = iterators2)
        PROVE LeftInv'
    <3>1. iterators2 \in Seq(Cursors) /\ turn \in Nat
      BY <1>0 DEF TypeOK
    <3>2. ASSUME NEW x \in Cursors, fetched[x] < total[x] PROVE Waiting(x)'
      <4>1. Waiting(x)
        BY <1>0, <2>1, <3>2 DEF LeftInv
      <4>2. CASE \E i \in DOMAIN iterators2 : iterators2[i] = x
        <5>1. PICK i \in DOMAIN iterators2 : iterators2[i] = x
          BY <4>2
        <5>2. i \in DOMAIN iterators2' /\ iterators2'[i] = x
          BY <2>1, <2>3, <3>1, <5>1
        <5> QED
          BY <5>2 DEF Waiting
      <4>3. CASE \E i \in DOMAIN iterators : i >= turn /\ iterators[i] = x
        <5>1. PICK i \in DOMAIN iterators : i >= turn /\ iterators[i] = x
          BY <4>3
        <5>2. i \in Nat
          BY <1>0, <5>1 DEF TypeOK
        <5>3. CASE i > turn
          BY <2>1, <2>3, <3>1, <5>1, <5>2, <5>3 DEF Waiting
        <5>4. CASE i = turn
          <6>1. x = c
            BY <5>1, <5>4
          <6>2. iterErr # "EOF"
            BY <1>0, <1>a, <2>1, <3>2, <6>1 DEF BatchInv, AtEnd
          <6>3. iterators2' = Append(iterators2, c)
            BY <2>3, <6>2
          <6>4. Len(iterators2) + 1 \in DOMAIN iterators2' /\ iterators2'[Len(iterators2) + 1] = x
            BY <2>1, <3>1, <6>1, <6>3
          <6> QED
            BY <6>4 DEF Waiting
        <5> QED
          BY <3>1, <5>1, <5>2, <5>3, <5>4
      <4> QED
        BY <4>1, <4>2, <4>3 DEF Waiting
    <3> QED
      BY <1>0, <2>1, <2>3, <3>2 DEF LeftInv, Unread
  <2>4. \/ pc' = "return"
        \/ /\ pc' = "loop" /\ turn' = turn + 1
           /\ (iterErr = "nil" /\ iterators2' = Append(iterators2, c)) \/ (iterErr = "EOF" /\ iterators2' = iterators2)
    <3>1. PICK ok \in BOOLEAN :
            \/ pc' = "return"
            \/ /\ pc' = "loop" /\ turn' = turn + 1
               /\ iterErr = "nil" /\ ok /\ iterators2' = Append(iterators2, c)
            \/ pc' = "loop" /\ turn' = turn + 1 /\ iterErr = "EOF" /\ iterators2' = iterators2
      BY <1>7, SendStep
    <3> QED
      BY <3>1
  <2> QED
    BY <2>2, <2>3, <2>4
<1>8. CASE EndRound
  <2>1. UNCHANGED <<total, fetched>> /\ pc = "loop" /\ turn > Len(iterators)
    BY <1>8 DEF EndRound
  <2>2. \A x \in Cursors : fetched[x] < total[x] => \E i \in DOMAIN iterators2 : iterators2[i] = x
    <3>1. \A i \in DOMAIN iterators : ~(i >= turn)
      BY <1>0, <2>1 DEF TypeOK
    <3> QED
      BY <1>0, <2>1, <3>1 DEF LeftInv, Waiting
  <2>3. CASE iterators2 = <<>> /\ pc' = "commit"
    <3>1. \A x \in Cursors : fetched[x] = total[x]
      BY <1>0, <1>a, <2>2, <2>3 DEF LeftInv
    <3> QED
      BY <1>0, <2>1, <2>3, <3>1 DEF LeftInv, Unread
  <2>4. CASE iterators' = iterators2 /\ turn' = 1 /\ pc' = "loop"
    <3>1. \A i \in DOMAIN iterators2 : i >= 1
      BY <1>0 DEF TypeOK
    <3>2. \A x \in Cursors : fetched[x] < total[x] => Waiting(x)'
      BY <2>2, <2>4, <3>1 DEF Waiting
    <3> QED
      BY <1>0, <2>1, <2>4, <3>2 DEF LeftInv, Unread
  <2> QED
    BY <1>8, <2>1, <2>3, <2>4 DEF EndRound, AllExhausted, GoTo
<1> QED
  BY <1>1, <1>2, <1>3, <1>4, <1>5, <1>6, <1>7, <1>8 DEF Next, Handler, Terminated

-----------------------------------------------------------------------------
(* The rows of every cursor arrive in full batches.                         *)
LEMMA UnreadInBatches == ASSUME PInv, pc \in Unread PROVE \A c \in Cursors : InBatches(c)
<1>1. \A c \in Cursors : fetched[c] = 0 /\ received[c] = <<>> /\ output[c] = <<>>
  BY DEF PInv, LeftInv, RowsInv, Unread
<1>2. 0 % Batch = 0
  BY HandlerAssumption
<1>3. ASSUME NEW c \in Cursors PROVE InBatches(c)
  <2>1. Len(received[c]) = 0 /\ Len(output[c]) = 0 /\ fetched[c] = 0
    BY <1>1
  <2> QED
    BY <1>2, <2>1 DEF InBatches, Got
<1> QED
  BY <1>3

(* What is read is a full batch, or the end of the cursor.                  *)
LEMMA FetchBatches == PInv /\ Fetch => BatchInv'
<1> SUFFICES ASSUME PInv, Fetch PROVE BatchInv'
  OBVIOUS
<1>0. TypeOK /\ BatchInv /\ LeftInv /\ pc = "loop"
  BY DEF PInv, IInv, Fetch
<1>a. UNCHANGED <<total, received, iterators, turn>>
  BY DEF Fetch
<1>b. \A x \in Cursors : output[x] = <<>>
  BY <1>0 DEF PInv, RowsInv
<1>1. CASE pc' = "return"
  BY <1>1 DEF BatchInv, Unread
<1>2. ASSUME NEW n \in 0..Batch, NEW c \in Cursors, c = iterators[turn], Iterates(c, n, iterErr'),
             iterErr' \in {"nil", "EOF", "fetch"}, pc' = "send"
      PROVE BatchInv'
  <2>0. n \in Nat /\ n <= Batch /\ Batch \in Nat \ {0}
    BY <1>2, HandlerAssumption
  <2>1. fetched' = [fetched EXCEPT ![c] = fetched[c] + n] /\ output' = [output EXCEPT ![c] = RowsFrom(c, n)]
    BY <1>2, IteratesCases
  <2>2. /\ iterErr' = "nil" => n = Batch /\ n <= Rest(c)
        /\ iterErr' = "EOF" => n = Rest(c) /\ n < Batch
    BY <1>2, IteratesCases
  <2>3. ASSUME NEW x \in Cursors, x # c PROVE InBatches(x)' \/ AtEnd(x)'
    <3>1. output'[x] = output[x] /\ fetched'[x] = fetched[x]
      BY <1>0, <2>0, <2>1, <2>3 DEF TypeOK
    <3>2. InBatches(x) \/ AtEnd(x)
      BY <1>0 DEF BatchInv
    <3> QED
      BY <1>a, <3>1, <3>2 DEF InBatches, AtEnd, Got, LastBatch
  <2>4. Len(output'[c]) = n /\ fetched'[c] = fetched[c] + n
    <3>1. Len(RowsFrom(c, n)) = n
      BY <2>0, BatchRows DEF PInv
    <3> QED
      BY <1>0, <2>0, <2>1, <3>1 DEF TypeOK
  <2>5. /\ fetched[c] \in Nat /\ total[c] \in Nat /\ Got(c) \in Nat /\ Got(c)' = Got(c)
        /\ Len(output[c]) = 0 /\ fetched[c] <= total[c]
    BY <1>0, <1>a, <1>b, <2>0, Numbers DEF LeftInv, Got
  <2>6. InBatches(c) \/ AtEnd(c)
    BY <1>0, <2>0 DEF BatchInv
  <2>7. ASSUME iterErr' = "nil" PROVE InBatches(c)'
    <3>1. n = Batch /\ n <= total[c] - fetched[c]
      BY <2>2, <2>7 DEF Rest
    <3>2. fetched[c] # total[c]
      BY <2>0, <2>5, <3>1
    <3>3. fetched[c] % Batch = 0 /\ Got(c) = fetched[c]
      BY <2>5, <2>6, <3>2 DEF InBatches, AtEnd
    <3>4. (fetched[c] + Batch) % Batch = 0
      BY <2>0, <2>5, <3>3, FullBatch
    <3> QED
      BY <2>4, <2>5, <3>1, <3>3, <3>4 DEF InBatches
  <2>8. ASSUME iterErr' = "EOF" PROVE AtEnd(c)'
    <3>1. n = total[c] - fetched[c] /\ n < Batch
      BY <2>2, <2>8 DEF Rest
    <3>2. fetched'[c] = total'[c] /\ total'[c] = total[c] /\ LastBatch(c)' = LastBatch(c)
      BY <1>a, <2>0, <2>4, <2>5, <3>1 DEF LastBatch
    <3>3. CASE InBatches(c)
      <4>1. fetched[c] % Batch = 0 /\ Got(c) = fetched[c]
        BY <2>5, <3>3 DEF InBatches
      <4>2. total[c] = fetched[c] + n
        BY <2>0, <2>5, <3>1
      <4>3. LastBatch(c) = n
        BY <2>0, <2>5, <3>1, <4>1, <4>2, PartialBatch DEF LastBatch
      <4>4. Got(c)' = total[c] - LastBatch(c) /\ Got(c)' + Len(output'[c]) = total[c]
        BY <2>0, <2>4, <2>5, <4>1, <4>2, <4>3
      <4> QED
        BY <3>2, <4>4 DEF AtEnd
    <3>4. CASE AtEnd(c)
      <4>1. n = 0
        BY <2>5, <3>1, <3>4 DEF AtEnd
      <4> QED
        BY <2>4, <2>5, <3>2, <3>4, <4>1 DEF AtEnd
    <3> QED
      BY <2>6, <3>3, <3>4
  <2>9. Len(output'[c]) <= Batch
    BY <2>0, <2>4
  <2>10. iterators'[turn'] = c
    BY <1>a, <1>2
  <2> QED
    BY <1>2, <2>3, <2>7, <2>8, <2>9, <2>10 DEF BatchInv, Unread
<1> QED
  BY <1>1, <1>2, FetchStep

(* A message that is lost is the last of its cursor.                        *)
LEMMA SendBatches == PInv /\ SendBatch => BatchInv'
<1> SUFFICES ASSUME PInv, SendBatch PROVE BatchInv'
  OBVIOUS
<1>0. TypeOK /\ BatchInv
  BY DEF PInv, IInv
<1>c. PICK c \in Cursors : c = iterators[turn]
  BY SendStep
<1>1. pc = "send" /\ UNCHANGED <<total, iterErr, fetched>>
  BY SendStep
<1>2. PICK ok \in BOOLEAN :
        /\ received' = IF ok THEN [x \in Cursors |-> received[x] \o output[x]] ELSE received
        /\ output' = [output EXCEPT ![c] = <<>>]
        /\ \/ pc' = "return"
           \/ pc' = "loop" /\ iterErr = "nil" /\ ok
           \/ pc' = "loop" /\ iterErr = "EOF"
  BY <1>c, SendStep
<1>3. \A x \in Cursors : x # c => output[x] = <<>>
  BY <1>c, <1>1 DEF PInv, RowsInv
<1>4. \A x \in Cursors : Len(output'[x]) = 0
  BY <1>0, <1>1, <1>2, <1>3 DEF TypeOK
<1>5. CASE pc' = "return"
  BY <1>5 DEF BatchInv, Unread
<1>6. CASE pc' = "loop"
  <2>1. ASSUME NEW x \in Cursors
        PROVE /\ Got(x) \in Nat /\ Len(output[x]) \in Nat
              /\ ok => Got(x)' = Got(x) + Len(output[x])
              /\ ~ok => Got(x)' = Got(x)
    <3>1. received[x] \in Seq(Nat) /\ output[x] \in Seq(Nat)
      BY <1>0 DEF TypeOK
    <3>2. Len(received[x] \o output[x]) = Len(received[x]) + Len(output[x])
      BY <3>1, ConcatProperties
    <3>3. received'[x] = IF ok THEN received[x] \o output[x] ELSE received[x]
      BY <1>2
    <3>4. Len(received[x]) \in Nat /\ Len(output[x]) \in Nat
      BY <3>1
    <3> QED
      BY <3>2, <3>3, <3>4 DEF Got
  <2>2. ASSUME NEW x \in Cursors, x # c PROVE InBatches(x)' \/ AtEnd(x)'
    <3>1. InBatches(x) \/ AtEnd(x)
      BY <1>c, <1>0, <1>1, <2>2 DEF BatchInv
    <3>2. Len(output[x]) = 0
      BY <1>3, <2>2
    <3>3. Got(x)' = Got(x)
      BY <2>1, <3>2
    <3> QED
      BY <1>1, <1>4, <3>1, <3>2, <3>3 DEF InBatches, AtEnd, LastBatch
  <2>3. CASE iterErr = "nil" /\ ok
    <3>1. InBatches(c)
      BY <1>c, <1>0, <1>1, <2>3 DEF BatchInv
    <3>2. Got(c)' = fetched[c]
      BY <1>1, <2>1, <2>3, <3>1 DEF InBatches
    <3>3. InBatches(c)'
      BY <1>0, <1>1, <1>4, <3>1, <3>2 DEF InBatches, TypeOK
    <3> QED
      BY <1>6, <2>2, <3>3 DEF BatchInv
  <2>4. CASE iterErr = "EOF"
    <3>1. AtEnd(c)
      BY <1>c, <1>0, <1>1, <2>4 DEF BatchInv
    <3>2. Got(c)' \in {total[c], total[c] - LastBatch(c)}
      BY <1>1, <2>1, <3>1 DEF AtEnd
    <3>3. AtEnd(c)'
      BY <1>1, <1>4, <3>1, <3>2 DEF AtEnd, LastBatch
    <3> QED
      BY <1>6, <2>2, <3>3 DEF BatchInv
  <2> QED
    BY <1>2, <1>6, <2>3, <2>4
<1> QED
  BY <1>2, <1>5, <1>6

LEMMA StepBatch == PInv /\ [Next]_vars => BatchInv'
<1> SUFFICES ASSUME PInv, [Next]_vars PROVE BatchInv'
  OBVIOUS
<1>0. BatchInv
  BY DEF PInv
<1>1. CASE Fetch
  BY <1>1, FetchBatches
<1>2. CASE SendBatch
  BY <1>2, SendBatches
<1>3. CASE Cancel \/ AwaitDone \/ UNCHANGED vars
  BY <1>0, <1>3, QuietBeside DEF BatchInv, InBatches, AtEnd, Got, LastBatch
<1>4. CASE Commit \/ Return
  BY <1>4, QuietAfter DEF BatchInv, Unread
<1>5. CASE Preflight \/ Begin \/ Prepare \/ Log \/ Panic \/ Exec \/ Retry \/ ExecFailed
  <2>1. UNCHANGED <<fetched, output, received>> /\ pc \in Unread /\ pc' # "send"
    BY <1>5, QuietBefore DEF Unread
  <2>2. \A c \in Cursors : InBatches(c)'
    BY <2>1, UnreadInBatches DEF InBatches, Got
  <2> QED
    BY <2>1, <2>2 DEF BatchInv
<1>6. CASE Convert \/ AfterHook \/ SendOnly
  <2>1. UNCHANGED <<fetched, output, received>> /\ pc \in Unread /\ pc' # "send"
    BY <1>6 DEF Convert, AfterHook, AfterAfterHook, SendOnly, GoTo, Fail, Unread, loopVars
  <2>2. \A c \in Cursors : InBatches(c)'
    BY <2>1, UnreadInBatches DEF InBatches, Got
  <2> QED
    BY <2>1, <2>2 DEF BatchInv
<1>7. CASE EndRound
  <2>1. UNCHANGED <<total, fetched, output, received>> /\ pc = "loop" /\ pc' \in {"loop", "commit"}
    BY <1>7 DEF EndRound, GoTo
  <2> QED
    BY <1>0, <2>1 DEF BatchInv, InBatches, AtEnd, Got, LastBatch
<1> QED
  BY <1>1, <1>2, <1>3, <1>4, <1>5, <1>6, <1>7 DEF Next, Handler, Terminated

-----------------------------------------------------------------------------
(* The commit comes when every cursor has been read to its end.             *)
LEMMA CommitComplete ==
  ASSUME PInv, pc = "commit"
  PROVE \A c \in Cursors : /\ fetched[c] = total[c]
                           /\ Len(received[c]) \in {total[c], total[c] - (total[c] % Batch)}
<1> SUFFICES ASSUME NEW c \in Cursors
             PROVE fetched[c] = total[c] /\ Got(c) \in {total[c], total[c] - LastBatch(c)}
  BY DEF Got, LastBatch
<1>1. fetched[c] = total[c] /\ (InBatches(c) \/ AtEnd(c))
  BY DEF PInv, LeftInv, BatchInv
<1>2. Len(output[c]) = 0 /\ Got(c) \in Nat
  BY Numbers DEF PInv, RowsInv, IInv
<1> QED
  BY <1>1, <1>2 DEF InBatches, AtEnd

LEMMA StepLoss == PInv /\ [Next]_vars => LossOnlyInLastBatch'
<1> SUFFICES ASSUME PInv, [Next]_vars, tx' = "committed"
             PROVE UNCHANGED <<total, fetched, received>> /\
                   \A c \in Cursors : /\ fetched[c] = total[c]
                                      /\ Len(received[c]) \in {total[c], total[c] - (total[c] % Batch)}
  BY DEF LossOnlyInLastBatch
<1>1. CASE Commit
  BY <1>1, QuietAfter, CommitComplete DEF Commit
<1>2. CASE ~Commit
  <2>1. tx = "committed"
    BY <1>2 DEF Next, Handler, Terminated, Preflight, Begin, Prepare, Log, Panic, Exec, Retry, ExecFailed, Convert,
                AfterHook, SendOnly, Fetch, SendBatch, EndRound, Return, DeferredRollback, Cancel, AwaitDone, vars, dbVars
  <2>2. pc \in {"return", "done"}
    BY <2>1 DEF PInv, IInv, ExecInv
  <2>3. CASE Return \/ Cancel \/ AwaitDone \/ UNCHANGED vars
    BY <2>1, <2>3, QuietAfter, QuietBeside DEF PInv, LossOnlyInLastBatch
  <2>4. CASE ~(Return \/ Cancel \/ AwaitDone \/ UNCHANGED vars)
    BY <1>2, <2>2, <2>4, QuietBefore DEF Next, Handler, Terminated, Convert, AfterHook, SendOnly, Fetch, SendBatch, EndRound, Unread
  <2> QED
    BY <2>3, <2>4
<1> QED
  BY <1>1, <1>2

LEMMA StepPInv == PInv /\ [Next]_vars => PInv'
<1>1. PInv /\ [Next]_vars => IInv' /\ RowsInv'
  BY StepIInv, StepRows DEF PInv
<1> QED
  BY <1>1, StepTx, StepLeft, StepBatch, StepLoss DEF PInv

(* A committed call has read every cursor to its end, and delivered all but *)
(* at most the last, partial batch of each.                                 *)
THEOREM LossOnlyInLastBatchHolds == Spec => []LossOnlyInLastBatch
<1>1. PInv => LossOnlyInLastBatch
  BY DEF PInv
<1> QED
  BY <1>1, InitPInv, StepPInv, PTL DEF Spec

-----------------------------------------------------------------------------
(* The handler keeps CallPromise: it begins as the promise does, and each of*)
(* its steps is one of the promise's, or none of its business.              *)
LEMMA PromiseInit == Init => Promise!Init
<1> SUFFICES ASSUME Init PROVE Promise!Init
  OBVIOUS
<1>1. total \in [Cursors -> Nat]
  BY HandlerAssumption DEF Init
<1>2. [c \in Cursors |-> Len(received[c])] = [c \in Cursors |-> 0]
  BY DEF Init
<1> QED
  BY <1>1, <1>2 DEF Init, Promise!Init

LEMMA Stutters ==
  ASSUME UNCHANGED <<total, tx, received, doubt, reply>> PROVE UNCHANGED Promise!vars
BY DEF Promise!vars

LEMMA PromiseBegin == ASSUME PInv, Begin PROVE Promise!Begin \/ UNCHANGED Promise!vars
<1>1. tx = "none" /\ reply = "none" /\ UNCHANGED <<total, received, doubt, reply>>
  BY DEF Begin, PInv, TxInv, IInv, ReplyInv, loopVars
<1>2. CASE tx' = "open"
  BY <1>1, <1>2 DEF Promise!Begin
<1>3. CASE tx' = tx
  BY <1>1, <1>3, Stutters
<1> QED
  BY <1>2, <1>3 DEF Begin

(* The rows of a cursor that is not opened are none.                        *)
LEMMA PromiseOpen == ASSUME PInv, Convert PROVE Promise!Open \/ UNCHANGED Promise!vars
<1>1. tx \in {"open", "rolledback"} /\ reply = "none" /\ UNCHANGED <<tx, received, doubt, reply>>
  BY DEF Convert, PInv, TxInv, IInv, ReplyInv, Using, dbVars
<1>2. \A c \in Cursors : Len(received[c]) = 0
  BY DEF Convert, PInv, LeftInv, Unread
<1>3. CASE total' = total
  BY <1>1, <1>3, Stutters
<1>4. CASE total' = [c \in Cursors |-> IF \E i \in DOMAIN iterators' : iterators'[i] = c THEN total[c] ELSE 0]
  <2> DEFINE S == {c \in Cursors : \E i \in DOMAIN iterators' : iterators'[i] = c}
  <2>1. S \in SUBSET Cursors /\ total' = [c \in Cursors |-> IF c \in S THEN total[c] ELSE 0]
    BY <1>4
  <2> HIDE DEF S
  <2>2. \A c \in Cursors : [x \in Cursors |-> Len(received[x])][c] = 0
    BY <1>2
  <2>3. \E T \in SUBSET Cursors : total' = [c \in Cursors |-> IF c \in T THEN total[c] ELSE 0]
    BY <2>1
  <2> QED
    BY <1>1, <2>2, <2>3 DEF Promise!Open
<1> QED
  BY <1>3, <1>4 DEF Convert

(* A message of no rows delivers none.                                      *)
LEMMA Sums ==
  /\ \A a \in Nat : a + 0 = a
  /\ \A a, b, f, t \in Nat : a + b <= f /\ f <= t => a + b <= t
OBVIOUS

(* A message that arrives delivers the rows of the one cursor it is of.     *)
LEMMA PromiseDeliver == ASSUME PInv, SendBatch PROVE Promise!Deliver \/ UNCHANGED Promise!vars
<1>0. TypeOK
  BY DEF PInv, IInv
<1>1. pc = "send" /\ UNCHANGED <<total, tx, doubt, reply>>
  BY DEF SendBatch, dbVars
<1>2. tx \in {"open", "rolledback"} /\ reply = "none"
  BY <1>1 DEF PInv, TxInv, IInv, ReplyInv, Using
<1>3. PICK c \in Cursors : c = iterators[turn]
  BY SendStep
<1>4. CASE received' = received
  BY <1>1, <1>4, Stutters
<1>5. CASE received' = [x \in Cursors |-> received[x] \o output[x]]
  <2>1. ASSUME NEW x \in Cursors PROVE Len(received'[x]) = Len(received[x]) + Len(output[x])
    <3>1. received[x] \in Seq(Nat) /\ output[x] \in Seq(Nat)
      BY <1>0 DEF TypeOK
    <3> QED
      BY <1>5, <3>1, ConcatProperties
  <2>2. \A x \in Cursors : x # c => Len(output[x]) = 0
    BY <1>1, <1>3 DEF PInv, RowsInv
  <2>3. /\ Len(output[c]) \in Nat /\ Len(received[c]) \in Nat /\ Len(output[c]) <= Batch
        /\ Len(received[c]) + Len(output[c]) <= total[c]
    <3>1. Len(output[c]) \in Nat /\ Len(received[c]) \in Nat /\ fetched[c] \in Nat /\ total[c] \in Nat
      BY <1>0, Numbers DEF Got
    <3>2. Len(received[c]) + Len(output[c]) <= fetched[c] /\ fetched[c] <= total[c]
      BY DEF PInv, RowsInv, LeftInv
    <3>3. Len(output[c]) <= Batch
      BY <1>1, <1>3 DEF PInv, BatchInv
    <3> QED
      BY <3>1, <3>2, <3>3, Sums
  <2>a. \A x \in Cursors : x # c => Len(received'[x]) = Len(received[x])
    <3>1. ASSUME NEW x \in Cursors, x # c PROVE Len(received'[x]) = Len(received[x])
      <4>1. Len(received[x]) \in Nat
        BY <1>0, Numbers DEF Got
      <4> QED
        BY <2>1, <2>2, <3>1, <4>1, Sums
    <3> QED
      BY <3>1
  <2>b. Len(output[c]) = 0 => Len(received'[c]) = Len(received[c])
    BY <2>1, <2>3, Sums
  <2> DEFINE before == [x \in Cursors |-> Len(received[x])]
             after == [x \in Cursors |-> Len(received'[x])]
             n == Len(output[c])
  <2>4. after = [before EXCEPT ![c] = before[c] + n]
    BY <2>1, <2>a
  <2>5. CASE n = 0
    <3>1. after = before
      BY <2>a, <2>b, <2>5
    <3> QED
      BY <1>1, <3>1 DEF Promise!vars
  <2>6. CASE n # 0
    <3>1. n \in Nat /\ n <= Batch /\ before[c] + n <= total[c]
      BY <2>3
    <3> HIDE DEF n, before, after
    <3>2. n \in 1..Batch
      BY <2>6, <3>1, HandlerAssumption
    <3> USE DEF before, after
    <3> QED
      BY <1>1, <1>2, <2>4, <3>1, <3>2 DEF Promise!Deliver
  <2> QED
    BY <2>5, <2>6
<1> QED
  BY <1>4, <1>5, SendStep

(* All but the partial batches is enough.                                   *)
LEMMA PromiseCommit == ASSUME PInv, Commit PROVE Promise!Commit \/ UNCHANGED Promise!vars
<1>1. pc = "commit" /\ UNCHANGED <<total, received, reply>>
  BY DEF Commit, loopVars
<1>2. reply = "none" /\ doubt \in BOOLEAN
  BY <1>1 DEF PInv, IInv, ReplyInv, TypeOK, FlagsOK
<1>3. CASE UNCHANGED <<tx, doubt>>
  BY <1>1, <1>3, Stutters
<1>4. CASE tx = "open" /\ tx' = "committed" /\ (doubt' = doubt \/ doubt' = TRUE)
  <2>1. ASSUME NEW c \in Cursors PROVE [x \in Cursors |-> Len(received[x])][c] >= total[c] - (total[c] % Batch)
    <3>1. Len(received[c]) \in {total[c], total[c] - (total[c] % Batch)}
      BY <1>1, CommitComplete
    <3>2. total[c] \in Nat /\ total[c] % Batch \in Nat /\ total[c] - (total[c] % Batch) \in Nat
      BY Numbers DEF PInv, IInv, LastBatch
    <3>3. total[c] >= total[c] - (total[c] % Batch)
      BY <3>2
    <3> QED
      BY <3>1, <3>2, <3>3
  <2>2. doubt' \in BOOLEAN
    BY <1>2, <1>4
  <2> QED
    BY <1>1, <1>2, <1>4, <2>1, <2>2 DEF Promise!Commit, Promise!Enough
<1> QED
  BY <1>3, <1>4 DEF Commit

(* The answer: "ok" of a confirmed commit only.                             *)
LEMMA PromiseReply == ASSUME PInv, Return PROVE Promise!ReplyOk \/ Promise!ReplyError
<1>1. pc = "return" /\ UNCHANGED <<total, received, doubt>> /\ reply' = StatusError(err) /\ tx' = DeferredRollback
  BY DEF Return, loopVars
<1>2. /\ reply = "none" /\ (err = "nil" => tx = "committed") /\ (tx = "committed" => err = "nil" \/ doubt)
      /\ (err = "nil" => ~doubt)
  BY <1>1 DEF PInv, IInv, ReplyInv, TxInv
<1>3. CASE err = "nil"
  BY <1>1, <1>2, <1>3 DEF StatusError, DeferredRollback, Promise!ReplyOk
<1>4. CASE err # "nil"
  BY <1>1, <1>2, <1>4 DEF StatusError, DeferredRollback, Promise!ReplyError, Promise!Errors
<1> QED
  BY <1>3, <1>4

(* The process or the context ends: the database rolls back.                *)
LEMMA PromiseRollback == ASSUME PInv, Panic \/ AwaitDone PROVE Promise!Rollback \/ UNCHANGED Promise!vars
<1>1. tx' = "rolledback" /\ tx \in {"open", "rolledback"} /\ UNCHANGED <<total, received, doubt, reply>>
  BY DEF Panic, AwaitDone, PInv, TxInv, Using, loopVars
<1>2. CASE tx = "open"
  BY <1>1, <1>2 DEF Promise!Rollback
<1>3. CASE tx = "rolledback"
  BY <1>1, <1>3, Stutters
<1> QED
  BY <1>1, <1>2, <1>3

LEMMA PromiseStep == PInv /\ [Next]_vars => [Promise!Next]_Promise!vars
<1> SUFFICES ASSUME PInv, [Next]_vars PROVE Promise!Next \/ UNCHANGED Promise!vars
  OBVIOUS
<1>1. CASE Preflight \/ Prepare \/ Log \/ Exec \/ Retry \/ ExecFailed \/ AfterHook \/ SendOnly \/ Fetch \/ EndRound
  <2>1. UNCHANGED <<total, tx, received, doubt, reply>>
    BY <1>1 DEF Preflight, Prepare, Log, Exec, Retry, ExecFailed, AfterHook, SendOnly, Fetch, EndRound, dbVars, loopVars
  <2> QED
    BY <2>1, Stutters
<1>2. CASE Cancel \/ UNCHANGED vars
  <2>1. UNCHANGED <<total, tx, received, doubt, reply>>
    BY <1>2 DEF Cancel, vars, dbVars, loopVars
  <2> QED
    BY <2>1, Stutters
<1>3. CASE Begin \/ Convert \/ SendBatch \/ Commit \/ Return \/ Panic \/ AwaitDone
  BY <1>3, PromiseBegin, PromiseOpen, PromiseDeliver, PromiseCommit, PromiseReply, PromiseRollback DEF Promise!Next
<1> QED
  BY <1>1, <1>2, <1>3 DEF Next, Handler, Terminated

(* Every call, whatever fails or is cancelled and in whatever order, is one *)
(* of the calls CallPromise describes.                                      *)
THEOREM KeepsPromiseHolds == Spec => KeepsPromise
BY InitPInv, StepPInv, PromiseInit, PromiseStep, PTL DEF Spec, KeepsPromise, Promise!Spec
=============================================================================
