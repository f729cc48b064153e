------------------------ MODULE ProtoMessages_proofs ------------------------
(***************************************************************************)
(* Theorems about ProtoMessages, for any finite set of record types that   *)
(* refer to each other in any way, and any lists of functions.             *)
(***************************************************************************)
EXTENDS ProtoMessages, FiniteSetTheorems, SequenceTheorems, TLAPS

(* The arguments of a message, and what a function needs; fs are the        *)
(* functions.                                                              *)
ArgsOf(fs, of) ==
  IF of \in Types THEN FieldsOf[of]
  ELSE IF of[2] = "in" THEN fs[of[1]].in ELSE fs[of[1]].out

NeedsOf(fs, f) == Reached(fs[f].in) \cup Reached(fs[f].out)

NamesIn(s) == {s[i].of : i \in DOMAIN s}
Distinct(s) == \A i, j \in DOMAIN s : s[i].of = s[j].of => i = j

(* The names of the messages that a call has begun or holds.                *)
Placed(fr) == {fr.of} \cup NamesIn(fr.nested)
InProgress(st) == UNION {Placed(st[i]) : i \in DOMAIN st}

(* Functions are saved one by one; a call is within the function being      *)
(* saved, first its message, then those of records that it needs.          *)
FrameOf(fs, f, d, i, fr) ==
  /\ IF i = 1 THEN fr.of = <<f, d>> ELSE fr.of \in Types \cap NeedsOf(fs, f)
  /\ fr.args = ArgsOf(fs, fr.of)
  /\ fr.next <= Len(fr.args) + 1

FunInv ==
  /\ dir # "none" => fun <= Len(functions)
  /\ outcome = "ok" => fun = Len(functions) + 1 /\ dir = "none"
  /\ dir = "none" => local = <<>> /\ stack = <<>>
  /\ \A s \in ToSet(services) : s < fun
  /\ \A i \in DOMAIN stack : FrameOf(functions, fun, dir, i, stack[i])

(* Each message has its place, and none is written again.                   *)
OnceInv ==
  /\ Distinct(buf \o local)
  /\ \A i \in DOMAIN stack : Distinct(stack[i].nested) /\ stack[i].of \notin NamesIn(stack[i].nested)
  /\ \A i, j \in DOMAIN stack : i # j => Placed(stack[i]) \cap Placed(stack[j]) = {}
  /\ InProgress(stack) \cap NamesIn(buf \o local) = {}
  /\ InProgress(stack) \cap Types \subseteq seen /\ NamesIn(buf \o local) \cap Types \subseteq seen

(* What the function being saved has written is its own, what the file has  *)
(* belongs to its services, and nothing of theirs is missing.              *)
OwnInv ==
  /\ \A i \in DOMAIN stack : NamesIn(stack[i].nested) \subseteq Types \cap NeedsOf(functions, fun)
  /\ \A d \in NamesIn(local) :
       \/ d = <<fun, "in">> /\ (dir = "out" \/ stack = <<>>)
       \/ d = <<fun, "out">> /\ dir = "out" /\ stack = <<>>
       \/ d \in Types \cap NeedsOf(functions, fun)
  /\ dir = "out" \/ (dir = "in" /\ stack = <<>>) => <<fun, "in">> \in NamesIn(local)
  /\ dir = "out" /\ stack = <<>> => <<fun, "out">> \in NamesIn(local)
  /\ \A s \in ToSet(services) : <<s, "in">> \in NamesIn(buf) /\ <<s, "out">> \in NamesIn(buf)
  /\ \A d \in NamesIn(buf) : \E s \in ToSet(services) :
       d \in Types \cap NeedsOf(functions, s) \/ d = <<s, "in">> \/ d = <<s, "out">>

(* What a message, or a call, refers to has been seen.                      *)
Complete(fs, sn, s) ==
  \A i \in DOMAIN s : s[i].refs \subseteq sn /\ ToSet(ArgsOf(fs, s[i].of)) \cap Types \subseteq sn

CallRefs(fs, sn, fr) ==
  /\ Complete(fs, sn, fr.nested)
  /\ fr.refs \subseteq sn
  /\ \A k \in DOMAIN fr.args : k < fr.next /\ fr.args[k] \in Types => fr.args[k] \in sn

RefsInv ==
  /\ Complete(functions, seen, buf) /\ Complete(functions, seen, local)
  /\ \A i \in DOMAIN stack : CallRefs(functions, seen, stack[i])

(* What is seen has its message, or was met first by a function that was    *)
(* skipped; and what a service needs has its message, or it is the same.    *)
Blamed(fs, ss, n, t) ==
  \E f \in 1..(n - 1) :
    f \notin ss /\ t \in NeedsOf(fs, f) /\ \A s \in ss : t \in NeedsOf(fs, s) => f < s

SeenInv ==
  outcome # "error" =>
    /\ \A t \in seen : t \in NamesIn(buf \o local) \cup InProgress(stack)
                         \/ Blamed(functions, ToSet(services), fun, t)
    /\ \A s \in ToSet(services) : \A t \in NeedsOf(functions, s) \cap Types :
         t \in NamesIn(buf) \/ Blamed(functions, ToSet(services), fun, t)

(* A function is skipped for a reason.                                      *)
ReasonInv ==
  /\ \A f \in 1..(fun - 1) : f \notin ToSet(services) => "unknown" \in NeedsOf(functions, f)
  /\ outcome = "panic" => {"nodata", "odd"} \cap NeedsOf(functions, fun) # {}
  /\ outcome = "error" => "unknown" \in NeedsOf(functions, fun) /\ ~SkipMissingTableOf

(* The type, but for the depth of the recursion.                            *)
Shapes ==
  /\ SkipMissingTableOf \in BOOLEAN
  /\ functions \in Seq(Function)
  /\ fun \in 1..(Len(functions) + 1)
  /\ dir \in {"none", "in", "out"}
  /\ stack \in Seq(Frame)
  /\ local \in Seq(Message)
  /\ seen \subseteq Types
  /\ buf \in Seq(Message)
  /\ services \in Seq(DOMAIN functions)
  /\ outcome \in {"running", "ok", "error", "panic"}

IInv == Shapes /\ FunInv /\ OnceInv /\ OwnInv /\ RefsInv /\ SeenInv /\ ReasonInv

-----------------------------------------------------------------------------
(* What fields reach.                                                       *)

(* The fields, and the fields of the records among them; and nothing else.  *)
LEMMA ReachedClosed ==
  ASSUME NEW fields \in Seq(Fields)
  PROVE  /\ ToSet(fields) \subseteq Reached(fields)
         /\ \A t \in Reached(fields) \cap Types : ToSet(FieldsOf[t]) \subseteq Reached(fields)
<1>1. ToSet(fields) \subseteq Fields /\ \A t \in Types : ToSet(FieldsOf[t]) \subseteq Fields
  BY ProtoAssumption DEF ToSet
<1>2. ToSet(fields) \subseteq Reached(fields)
  BY <1>1 DEF Reached, Direct
<1>3. ASSUME NEW t \in Reached(fields) \cap Types, NEW x \in ToSet(FieldsOf[t])
      PROVE  x \in Reached(fields)
  <2>1. ASSUME NEW S \in SUBSET Fields, Direct(fields) \subseteq S, IsClosed(S) PROVE x \in S
    BY <1>3, <2>1 DEF Reached, IsClosed, Direct
  <2> QED
    BY <1>1, <1>3, <2>1 DEF Reached
<1> QED
  BY <1>2, <1>3

LEMMA ReachedLeast ==
  ASSUME NEW fields \in Seq(Fields), NEW C, ToSet(fields) \subseteq C,
         \A t \in C \cap Types : ToSet(FieldsOf[t]) \subseteq C
  PROVE  Reached(fields) \subseteq C
<1>1. ToSet(fields) \subseteq Fields /\ \A t \in Types : ToSet(FieldsOf[t]) \subseteq Fields
  BY ProtoAssumption DEF ToSet
<1>2. IsClosed(C \cap Fields) /\ Direct(fields) \subseteq C \cap Fields
  BY <1>1 DEF IsClosed, Direct
<1> QED
  BY <1>2 DEF Reached

(* So it is with what a function needs.                                     *)
LEMMA NeedsClosed ==
  ASSUME NEW fs \in Seq(Function), NEW f \in DOMAIN fs
  PROVE  /\ fs[f].in \in Seq(Fields) /\ fs[f].out \in Seq(Fields)
         /\ ToSet(fs[f].in) \cup ToSet(fs[f].out) \subseteq NeedsOf(fs, f)
         /\ \A t \in NeedsOf(fs, f) \cap Types : ToSet(FieldsOf[t]) \subseteq NeedsOf(fs, f)
<1>1. fs[f] \in Function
  OBVIOUS
<1>2. fs[f].in \in Seq(Fields) /\ fs[f].out \in Seq(Fields)
  BY <1>1 DEF Function
<1> QED
  BY <1>2, ReachedClosed DEF NeedsOf

LEMMA NeedsLeast ==
  ASSUME NEW fs \in Seq(Function), NEW f \in DOMAIN fs, NEW C,
         ToSet(fs[f].in) \cup ToSet(fs[f].out) \subseteq C,
         \A t \in C \cap Types : ToSet(FieldsOf[t]) \subseteq C
  PROVE  NeedsOf(fs, f) \subseteq C
<1>1. fs[f].in \in Seq(Fields) /\ fs[f].out \in Seq(Fields)
  BY NeedsClosed
<1> QED
  BY <1>1, ReachedLeast DEF NeedsOf

-----------------------------------------------------------------------------
(* Texts.                                                                   *)

(* One text after another has the names of both.                            *)
LEMMA Joined ==
  ASSUME NEW s \in Seq(Message), NEW t \in Seq(Message)
  PROVE  /\ s \o t \in Seq(Message)
         /\ NamesIn(s \o t) = NamesIn(s) \cup NamesIn(t)
         /\ Distinct(s \o t) <=> Distinct(s) /\ Distinct(t) /\ NamesIn(s) \cap NamesIn(t) = {}
         /\ \A fs, sn : Complete(fs, sn, s \o t) <=> Complete(fs, sn, s) /\ Complete(fs, sn, t)
<1>1. /\ Len(s) \in Nat /\ Len(t) \in Nat /\ DOMAIN s = 1..Len(s) /\ DOMAIN t = 1..Len(t)
      /\ s \o t \in Seq(Message) /\ DOMAIN (s \o t) = 1..(Len(s) + Len(t))
  OBVIOUS
<1>2. \A i \in DOMAIN s : i \in DOMAIN (s \o t) /\ (s \o t)[i] = s[i]
  BY <1>1
<1>3. \A i \in DOMAIN t : i + Len(s) \in DOMAIN (s \o t) /\ (s \o t)[i + Len(s)] = t[i]
  BY <1>1
<1>4. \A i \in DOMAIN (s \o t) :
        \/ i \in DOMAIN s /\ (s \o t)[i] = s[i]
        \/ i - Len(s) \in DOMAIN t /\ (s \o t)[i] = t[i - Len(s)] /\ i > Len(s)
  BY <1>1
<1> DEFINE j == s \o t
<1> HIDE DEF j
<1>5. NamesIn(j) = NamesIn(s) \cup NamesIn(t)
  <2>1. NamesIn(s) \subseteq NamesIn(j)
    BY <1>2 DEF NamesIn, j
  <2>2. NamesIn(t) \subseteq NamesIn(j)
    BY <1>3 DEF NamesIn, j
  <2>3. ASSUME NEW i \in DOMAIN j PROVE j[i].of \in NamesIn(s) \cup NamesIn(t)
    BY <1>4 DEF NamesIn, j
  <2>4. NamesIn(j) \subseteq NamesIn(s) \cup NamesIn(t)
    BY <2>3 DEF NamesIn
  <2> QED
    BY <2>1, <2>2, <2>4
<1>6. ASSUME Distinct(j) PROVE Distinct(s) /\ Distinct(t) /\ NamesIn(s) \cap NamesIn(t) = {}
  <2>1. Distinct(s)
    BY <1>2, <1>6 DEF Distinct, j
  <2>2. Distinct(t)
    <3> SUFFICES ASSUME NEW a \in DOMAIN t, NEW b \in DOMAIN t, t[a].of = t[b].of PROVE a = b
      BY DEF Distinct
    <3>1. a + Len(s) = b + Len(s)
      BY <1>3, <1>6 DEF Distinct, j
    <3> QED
      BY <1>1, <3>1
  <2>3. ASSUME NEW a \in DOMAIN s, NEW b \in DOMAIN t, s[a].of = t[b].of PROVE FALSE
    <3>1. a = b + Len(s)
      BY <1>2, <1>3, <1>6, <2>3 DEF Distinct, j
    <3> QED
      BY <1>1, <3>1
  <2> QED
    BY <2>1, <2>2, <2>3 DEF NamesIn
<1>7. ASSUME Distinct(s), Distinct(t), NamesIn(s) \cap NamesIn(t) = {} PROVE Distinct(j)
  <2> SUFFICES ASSUME NEW a \in DOMAIN j, NEW b \in DOMAIN j, j[a].of = j[b].of PROVE a = b
    BY DEF Distinct
  <2>1. CASE a \in DOMAIN s /\ j[a] = s[a]
    <3>1. CASE b \in DOMAIN s /\ j[b] = s[b]
      BY <1>7, <2>1, <3>1 DEF Distinct
    <3>2. CASE b - Len(s) \in DOMAIN t /\ j[b] = t[b - Len(s)]
      BY <1>7, <2>1, <3>2 DEF NamesIn
    <3> QED
      BY <1>4, <3>1, <3>2 DEF j
  <2>2. CASE a - Len(s) \in DOMAIN t /\ j[a] = t[a - Len(s)]
    <3>1. CASE b \in DOMAIN s /\ j[b] = s[b]
      BY <1>7, <2>2, <3>1 DEF NamesIn
    <3>2. CASE b - Len(s) \in DOMAIN t /\ j[b] = t[b - Len(s)]
      <4>1. a - Len(s) = b - Len(s)
        BY <1>7, <2>2, <3>2 DEF Distinct
      <4>2. a \in Nat /\ b \in Nat
        BY <1>1 DEF j
      <4> QED
        BY <1>1, <4>1, <4>2
    <3> QED
      BY <1>4, <3>1, <3>2 DEF j
  <2> QED
    BY <1>4, <2>1, <2>2 DEF j
<1>8. \A fs, sn : Complete(fs, sn, j) <=> Complete(fs, sn, s) /\ Complete(fs, sn, t)
  <2> SUFFICES ASSUME NEW fs, NEW sn
               PROVE  Complete(fs, sn, j) <=> Complete(fs, sn, s) /\ Complete(fs, sn, t)
    OBVIOUS
  <2>1. Complete(fs, sn, j) => Complete(fs, sn, s) /\ Complete(fs, sn, t)
    BY <1>2, <1>3 DEF Complete, j
  <2>2. Complete(fs, sn, s) /\ Complete(fs, sn, t) => Complete(fs, sn, j)
    BY <1>4 DEF Complete, j
  <2> QED
    BY <2>1, <2>2
<1> QED
  BY <1>1, <1>5, <1>6, <1>7, <1>8 DEF j

(* Nothing is in no text.                                                   *)
LEMMA NoText ==
  /\ <<>> \in Seq(Message) /\ NamesIn(<<>>) = {} /\ Distinct(<<>>)
  /\ \A fs, sn : Complete(fs, sn, <<>>)
BY DEF NamesIn, Distinct, Complete

(* The text of a call is its message and those it holds.                    *)
TextOf(fr) == <<[of |-> fr.of, refs |-> fr.refs]>> \o fr.nested

LEMMA TextHas ==
  ASSUME NEW fr \in Frame
  PROVE  /\ TextOf(fr) \in Seq(Message) /\ NamesIn(TextOf(fr)) = Placed(fr)
         /\ Distinct(fr.nested) /\ fr.of \notin NamesIn(fr.nested) => Distinct(TextOf(fr))
         /\ \A fs, sn : /\ Complete(fs, sn, fr.nested) /\ fr.refs \subseteq sn
                        /\ ToSet(ArgsOf(fs, fr.of)) \cap Types \subseteq sn
                        => Complete(fs, sn, TextOf(fr))
<1> DEFINE one == <<[of |-> fr.of, refs |-> fr.refs]>>
<1>1. [of |-> fr.of, refs |-> fr.refs] \in Message /\ fr.nested \in Seq(Message)
  BY DEF Frame, Message
<1>2. /\ one \in Seq(Message) /\ DOMAIN one = {1}
      /\ one[1].of = fr.of /\ one[1].refs = fr.refs
  BY <1>1
<1> HIDE DEF one
<1>3. /\ NamesIn(one) = {fr.of} /\ Distinct(one)
      /\ \A fs, sn : /\ fr.refs \subseteq sn /\ ToSet(ArgsOf(fs, fr.of)) \cap Types \subseteq sn
                     => Complete(fs, sn, one)
  BY <1>2 DEF NamesIn, Distinct, Complete
<1>4. TextOf(fr) = one \o fr.nested
  BY DEF TextOf, one
<1> QED
  BY <1>1, <1>2, <1>3, <1>4, Joined DEF Placed

-----------------------------------------------------------------------------
(* The calls.                                                               *)

(* The call in progress is the last one.                                    *)
LEMMA TopCall ==
  ASSUME stack \in Seq(Frame), stack # <<>>
  PROVE  /\ Len(stack) \in Nat \ {0} /\ DOMAIN stack = 1..Len(stack) /\ Len(stack) \in DOMAIN stack
         /\ Top = stack[Len(stack)] /\ Top \in Frame /\ Text = TextOf(Top)
<1>1. Len(stack) \in Nat \ {0} /\ DOMAIN stack = 1..Len(stack) /\ Len(stack) \in DOMAIN stack
  OBVIOUS
<1>2. Top = stack[Len(stack)]
  BY DEF Top, Last
<1> QED
  BY <1>1, <1>2 DEF Text, TextOf

(* It goes on without touching what it holds.                               *)
LEMMA TopMoves ==
  ASSUME stack \in Seq(Frame), stack # <<>>, NEW n \in Nat, NEW r \in SUBSET Types
  PROVE  /\ TopAt(n, r) \in Seq(Frame) /\ Len(TopAt(n, r)) = Len(stack)
         /\ \A i \in DOMAIN stack :
              /\ TopAt(n, r)[i].of = stack[i].of /\ TopAt(n, r)[i].args = stack[i].args
              /\ TopAt(n, r)[i].nested = stack[i].nested
              /\ i # Len(stack) => TopAt(n, r)[i] = stack[i]
         /\ TopAt(n, r)[Len(stack)].next = n /\ TopAt(n, r)[Len(stack)].refs = r
<1> DEFINE fr == [of |-> Top.of, args |-> Top.args, next |-> n, refs |-> r, nested |-> Top.nested]
<1>1. /\ Len(stack) \in Nat \ {0} /\ DOMAIN stack = 1..Len(stack) /\ Len(stack) \in DOMAIN stack
      /\ Top = stack[Len(stack)] /\ Top \in Frame
  BY TopCall
<1>2. fr \in Frame
  BY <1>1 DEF Frame
<1>3. /\ fr.of = Top.of /\ fr.args = Top.args /\ fr.nested = Top.nested
      /\ fr.next = n /\ fr.refs = r
  OBVIOUS
<1>4. TopAt(n, r) = [stack EXCEPT ![Len(stack)] = fr]
  BY DEF TopAt
<1> HIDE DEF fr
<1>5. /\ TopAt(n, r) \in Seq(Frame) /\ Len(TopAt(n, r)) = Len(stack)
      /\ \A i \in 1..Len(stack) : TopAt(n, r)[i] = IF i = Len(stack) THEN fr ELSE stack[i]
  BY <1>1, <1>2, <1>4, ExceptSeq
<1> QED
  BY <1>1, <1>3, <1>5

(* It returns its text to the call before.                                  *)
LEMMA FrontCalls ==
  ASSUME NEW s \in Seq(Frame), s # <<>>
  PROVE  /\ Front(s) \in Seq(Frame) /\ Len(Front(s)) = Len(s) - 1
         /\ \A i \in 1..(Len(s) - 1) : Front(s)[i] = s[i]
<1>1. PICK n \in Nat \ {0} : n = Len(s)
  OBVIOUS
<1>2. n - 1 \in Int /\ \A i \in 1..(n - 1) : s[i] \in Frame
  BY <1>1
<1>3. /\ SubSeq(s, 1, n - 1) \in Seq(Frame)
      /\ Len(SubSeq(s, 1, n - 1)) = IF 1 <= n - 1 THEN n - 1 - 1 + 1 ELSE 0
      /\ \A i \in 1..(n - 1 - 1 + 1) : SubSeq(s, 1, n - 1)[i] = s[1 + i - 1]
  BY <1>2, SubSeqProperties
<1>4. (IF 1 <= n - 1 THEN n - 1 - 1 + 1 ELSE 0) = n - 1
  OBVIOUS
<1>5. ASSUME NEW i \in 1..(n - 1) PROVE SubSeq(s, 1, n - 1)[i] = s[i]
  <2>1. i \in 1..(n - 1 - 1 + 1) /\ 1 + i - 1 = i
    OBVIOUS
  <2> QED
    BY <1>3, <2>1, Zenon
<1>6. Len(SubSeq(s, 1, n - 1)) = n - 1
  BY <1>3, <1>4
<1> QED
  BY <1>1, <1>3, <1>5, <1>6 DEF Front

LEMMA CallReturns ==
  ASSUME stack \in Seq(Frame), Len(stack) > 1
  PROVE  /\ Returned \in Seq(Frame) /\ Len(Returned) = Len(stack) - 1
         /\ \A i \in 1..(Len(stack) - 1) :
              /\ Returned[i].of = stack[i].of /\ Returned[i].args = stack[i].args
              /\ Returned[i].next = stack[i].next /\ Returned[i].refs = stack[i].refs
              /\ i # Len(stack) - 1 => Returned[i] = stack[i]
         /\ Returned[Len(stack) - 1].nested = stack[Len(stack) - 1].nested \o TextOf(Top)
<1>0. Len(stack) \in Nat /\ DOMAIN stack = 1..Len(stack) /\ Len(<<>>) = 0
  OBVIOUS
<1>1. /\ stack # <<>> /\ Len(stack) \in Nat \ {0, 1} /\ DOMAIN stack = 1..Len(stack)
      /\ Len(stack) - 1 \in 1..(Len(stack) - 1) /\ Len(stack) - 1 \in DOMAIN stack
  <2>1. PICK n \in Nat : n = Len(stack)
    BY <1>0
  <2>2. n > 1 /\ stack # <<>> /\ n - 1 \in 1..(n - 1) /\ n - 1 \in 1..n
    BY <1>0, <2>1
  <2> QED
    BY <1>0, <2>1, <2>2
<1>2. Top \in Frame /\ Text = TextOf(Top) /\ TextOf(Top) \in Seq(Message)
  BY <1>1, TopCall, TextHas
<1>3. Caller \in Frame /\ Caller = stack[Len(stack) - 1]
  BY <1>1 DEF Caller
<1> DEFINE fr == [of |-> Caller.of, args |-> Caller.args, next |-> Caller.next,
                  refs |-> Caller.refs, nested |-> Caller.nested \o Text]
<1>4. fr \in Frame
  BY SMTT(20), <1>2, <1>3 DEF Frame
<1>5. /\ fr.of = Caller.of /\ fr.args = Caller.args /\ fr.next = Caller.next
      /\ fr.refs = Caller.refs /\ fr.nested = Caller.nested \o Text
  OBVIOUS
<1>6. Returned = [Front(stack) EXCEPT ![Len(stack) - 1] = fr]
  BY DEF Returned
<1>7. /\ Front(stack) \in Seq(Frame) /\ Len(Front(stack)) = Len(stack) - 1
      /\ \A i \in 1..(Len(stack) - 1) : Front(stack)[i] = stack[i]
  BY <1>1, FrontCalls
<1> HIDE DEF fr
<1>8. /\ Returned \in Seq(Frame) /\ Len(Returned) = Len(Front(stack))
      /\ \A i \in 1..Len(Front(stack)) :
           Returned[i] = IF i = Len(stack) - 1 THEN fr ELSE Front(stack)[i]
  <2> DEFINE st == Front(stack)
             k == Len(stack) - 1
  <2>1. st \in Seq(Frame) /\ k \in 1..Len(st) /\ Returned = [st EXCEPT ![k] = fr]
    BY <1>1, <1>6, <1>7
  <2> HIDE DEF st, k
  <2>2. /\ Returned \in Seq(Frame) /\ Len(Returned) = Len(st)
        /\ \A i \in 1..Len(st) : Returned[i] = IF i = k THEN fr ELSE st[i]
    BY <1>4, <2>1, ExceptSeq
  <2> QED
    BY <2>2 DEF st, k
<1> QED
  BY <1>1, <1>2, <1>3, <1>5, <1>7, <1>8

(* The arguments of the call in progress are needed by the function saved.  *)
LEMMA TopNeeds ==
  ASSUME IInv, Saving
  PROVE  /\ fun \in DOMAIN functions /\ functions[fun] \in Function
         /\ Top.args = ArgsOf(functions, Top.of) /\ Top.args \in Seq(Fields)
         /\ Top.next \in Nat /\ Top.next <= Len(Top.args) + 1
         /\ ToSet(Top.args) \subseteq NeedsOf(functions, fun)
         /\ Len(stack) = 1 => Top.of = <<fun, dir>>
         /\ Len(stack) # 1 => Top.of \in Types \cap NeedsOf(functions, fun)
<1>1. /\ Len(stack) \in Nat \ {0} /\ DOMAIN stack = 1..Len(stack) /\ Len(stack) \in DOMAIN stack
      /\ Top = stack[Len(stack)] /\ Top \in Frame
  BY TopCall DEF IInv, Shapes, Saving
<1>2. functions \in Seq(Function) /\ fun \in DOMAIN functions /\ functions[fun] \in Function
  BY DEF IInv, Shapes, FunInv, Saving
<1>3. FrameOf(functions, fun, dir, Len(stack), Top)
  BY <1>1 DEF IInv, FunInv
<1>4. Top.args \in Seq(Fields) /\ Top.next \in Nat
  BY <1>1 DEF Frame
<1>5. /\ ToSet(functions[fun].in) \cup ToSet(functions[fun].out) \subseteq NeedsOf(functions, fun)
      /\ \A t \in NeedsOf(functions, fun) \cap Types : ToSet(FieldsOf[t]) \subseteq NeedsOf(functions, fun)
  BY <1>2, NeedsClosed
<1>6. CASE Len(stack) = 1
  <2>0. fun \in Nat /\ dir \in {"in", "out"}
    BY DEF IInv, Shapes, Saving
  <2>4. Top.of = <<fun, dir>>
    BY <1>3, <1>6 DEF FrameOf
  <2>5. <<fun, dir>> \in Nat \X {"in", "out"}
    BY <2>0
  <2>1. Top.of = <<fun, dir>> /\ Top.of \notin Types
    <3>1. <<fun, dir>> \notin Types
      BY <2>5, ProtoAssumption
    <3> QED
      BY <2>4, <3>1
  <2>2. Top.args = functions[fun].in \/ Top.args = functions[fun].out
    BY <1>3, <2>1 DEF FrameOf, ArgsOf
  <2>3. ToSet(Top.args) \subseteq NeedsOf(functions, fun)
    BY <1>5, <2>2
  <2> QED
    BY <1>2, <1>3, <1>4, <1>6, <2>1, <2>3 DEF FrameOf
<1>7. CASE Len(stack) # 1
  <2>1. Top.of \in Types \cap NeedsOf(functions, fun)
    BY <1>3, <1>7 DEF FrameOf
  <2>2. Top.args = FieldsOf[Top.of]
    BY <1>3, <2>1 DEF FrameOf, ArgsOf
  <2>3. ToSet(Top.args) \subseteq NeedsOf(functions, fun)
    BY <1>5, <2>1, <2>2
  <2> QED
    BY <1>2, <1>3, <1>4, <1>7, <2>1, <2>3 DEF FrameOf
<1> QED
  BY <1>6, <1>7

-----------------------------------------------------------------------------
(* The steps.                                                               *)

(* The call in progress goes on to its next argument.                       *)
LEMMA Moves ==
  ASSUME IInv, Saving, NEW n \in Nat, NEW r \in SUBSET Types, stack' = TopAt(n, r),
         n <= Len(Top.args) + 1, r \subseteq seen,
         \A k \in DOMAIN Top.args : k < n /\ Top.args[k] \in Types => Top.args[k] \in seen,
         UNCHANGED <<given, fun, dir, local, seen, buf, services, outcome>>
  PROVE  IInv'
<1>1. /\ Len(stack) \in Nat \ {0} /\ DOMAIN stack = 1..Len(stack) /\ Len(stack) \in DOMAIN stack
      /\ Top = stack[Len(stack)] /\ Top \in Frame /\ stack # <<>>
  BY TopCall DEF IInv, Shapes, Saving
<1>2. /\ stack' \in Seq(Frame) /\ Len(stack') = Len(stack)
      /\ \A i \in DOMAIN stack :
              /\ stack'[i].of = stack[i].of /\ stack'[i].args = stack[i].args
              /\ stack'[i].nested = stack[i].nested
              /\ i # Len(stack) => stack'[i] = stack[i]
      /\ stack'[Len(stack)].next = n /\ stack'[Len(stack)].refs = r
  BY <1>1, TopMoves DEF IInv, Shapes
<1>3. DOMAIN stack' = DOMAIN stack /\ stack' # <<>>
  BY <1>1, <1>2
<1>4. \A i \in DOMAIN stack : Placed(stack'[i]) = Placed(stack[i])
  BY <1>2 DEF Placed
<1>5. InProgress(stack') = InProgress(stack)
  BY <1>3, <1>4 DEF InProgress
<1>6. Shapes'
  BY <1>2 DEF IInv, Shapes, given
<1>7. FunInv'
  <2>1. \A i \in DOMAIN stack : FrameOf(functions, fun, dir, i, stack'[i])
    <3> SUFFICES ASSUME NEW i \in DOMAIN stack PROVE FrameOf(functions, fun, dir, i, stack'[i])
      OBVIOUS
    <3>1. FrameOf(functions, fun, dir, i, stack[i])
      BY DEF IInv, FunInv
    <3>2. CASE i = Len(stack)
      BY <1>1, <1>2, <3>1, <3>2 DEF FrameOf
    <3>3. CASE i # Len(stack)
      BY <1>2, <3>1, <3>3
    <3> QED
      BY <3>2, <3>3
  <2> QED
    BY <1>3, <2>1 DEF IInv, FunInv, given, Saving
<1>8. OnceInv'
  BY <1>2, <1>3, <1>4, <1>5 DEF IInv, OnceInv
<1>9. OwnInv'
  BY <1>1, <1>2, <1>3 DEF IInv, OwnInv, given
<1>10. RefsInv'
  <2>1. \A i \in DOMAIN stack : CallRefs(functions, seen, stack'[i])
    <3> SUFFICES ASSUME NEW i \in DOMAIN stack PROVE CallRefs(functions, seen, stack'[i])
      OBVIOUS
    <3>1. CallRefs(functions, seen, stack[i])
      BY DEF IInv, RefsInv
    <3>2. CASE i = Len(stack)
      BY <1>1, <1>2, <3>1, <3>2 DEF CallRefs
    <3>3. CASE i # Len(stack)
      BY <1>2, <3>1, <3>3
    <3> QED
      BY <3>2, <3>3
  <2> QED
    BY <1>3, <2>1 DEF IInv, RefsInv, given
<1>11. SeenInv'
  BY <1>5 DEF IInv, SeenInv, given
<1>12. ReasonInv'
  BY DEF IInv, ReasonInv, given
<1> QED
  BY <1>6, <1>7, <1>8, <1>9, <1>10, <1>11, <1>12 DEF IInv

(* The message of a record is begun where it is used first.                 *)
LEMMA Descends ==
  ASSUME IInv, NEW t \in Types, WriteMessage(t)
  PROVE  IInv'
<1>1. /\ Len(stack) \in Nat \ {0} /\ DOMAIN stack = 1..Len(stack) /\ Len(stack) \in DOMAIN stack
      /\ Top = stack[Len(stack)] /\ Top \in Frame /\ stack # <<>>
  BY TopCall DEF IInv, Shapes, WriteMessage, At, Saving
<1>2. /\ Top.next \in Nat /\ Top.next \in DOMAIN Top.args /\ Top.args[Top.next] = t
      /\ Top.args \in Seq(Fields) /\ Top.next + 1 <= Len(Top.args) + 1
      /\ t \in Types \cap NeedsOf(functions, fun) /\ t \notin seen
  <2>1. /\ Top.next \in DOMAIN Top.args /\ Top.args[Top.next] = t /\ t \notin seen /\ Saving
    BY DEF WriteMessage, At
  <2>2. /\ Top.next \in Nat /\ Top.args \in Seq(Fields)
        /\ ToSet(Top.args) \subseteq NeedsOf(functions, fun)
    BY <2>1, TopNeeds
  <2> QED
    BY <2>1, <2>2 DEF ToSet
<1> DEFINE fr == Call(t, FieldsOf[t])
<1>3. /\ fr \in Frame /\ fr.of = t /\ fr.args = FieldsOf[t] /\ fr.next = 0
      /\ fr.refs = {} /\ fr.nested = <<>>
  BY ProtoAssumption DEF Call, Frame
<1>4. PICK n \in Nat : n = Top.next + 1
  BY <1>2
<1>5. PICK r \in SUBSET Types : r = Top.refs \cup {t}
  BY <1>1 DEF Frame
<1>6. stack' = Append(TopAt(n, r), fr)
  BY <1>4, <1>5 DEF WriteMessage, Line
<1> HIDE DEF fr
<1>7. /\ TopAt(n, r) \in Seq(Frame) /\ Len(TopAt(n, r)) = Len(stack)
      /\ \A i \in DOMAIN stack :
              /\ TopAt(n, r)[i].of = stack[i].of /\ TopAt(n, r)[i].args = stack[i].args
              /\ TopAt(n, r)[i].nested = stack[i].nested
              /\ i # Len(stack) => TopAt(n, r)[i] = stack[i]
      /\ TopAt(n, r)[Len(stack)].next = n /\ TopAt(n, r)[Len(stack)].refs = r
  BY <1>1, TopMoves DEF IInv, Shapes
<1>8. PICK m \in Nat \ {0} : m = Len(stack)
  BY <1>1
<1>9. /\ stack' \in Seq(Frame) /\ DOMAIN stack' = 1..(m+1)
      /\ stack'[m+1] = fr
      /\ \A i \in 1..m : stack'[i] = TopAt(n, r)[i]
  BY <1>3, <1>6, <1>7, <1>8
<1>10. /\ \A i \in 1..m :
              /\ stack'[i].of = stack[i].of /\ stack'[i].args = stack[i].args
              /\ stack'[i].nested = stack[i].nested
              /\ i # m => stack'[i] = stack[i]
       /\ stack'[m].next = n /\ stack'[m].refs = r
  BY <1>1, <1>7, <1>8, <1>9
<1>11. /\ \A i \in 1..m : Placed(stack'[i]) = Placed(stack[i])
       /\ Placed(stack'[m+1]) = {t}
  BY <1>3, <1>9, <1>10, NoText DEF Placed
<1>12. \A i \in DOMAIN stack' : i \in 1..m \/ i = m + 1
  BY <1>9
<1>13. InProgress(stack') = InProgress(stack) \cup {t}
  <2>1. \A x : x \in InProgress(stack') <=> \E i \in 1..(m+1) : x \in Placed(stack'[i])
    BY <1>9 DEF InProgress
  <2>2. \A x : x \in InProgress(stack) <=> \E i \in 1..m : x \in Placed(stack[i])
    BY <1>1, <1>8 DEF InProgress
  <2>3. \A i : i \in 1..(m+1) <=> i \in 1..m \/ i = m + 1
    OBVIOUS
  <2>4. \A x : (\E i \in 1..(m+1) : x \in Placed(stack'[i]))
               <=> (\E i \in 1..m : x \in Placed(stack'[i])) \/ x \in Placed(stack'[m+1])
    BY <2>3, Zenon
  <2>5. \A x : (\E i \in 1..m : x \in Placed(stack'[i])) <=> \E i \in 1..m : x \in Placed(stack[i])
    BY <1>11
  <2>6. \A x : x \in InProgress(stack') <=> x \in InProgress(stack) \/ x = t
    BY <1>11, <2>1, <2>2, <2>4, <2>5
  <2> QED
    BY <2>6
<1>14. /\ seen' = seen \cup {t} /\ stack' # <<>> /\ dir # "none" /\ outcome = "running"
       /\ UNCHANGED <<given, fun, dir, local, buf, services, outcome>>
  BY <1>9 DEF WriteMessage, Remembered, At, Saving
<1>15. t \notin InProgress(stack) /\ t \notin NamesIn(buf \o local)
  BY <1>2 DEF IInv, OnceInv
<1>16. Shapes'
  BY <1>9, <1>14 DEF IInv, Shapes, given
<1>17. FunInv'
  <2>1. \A i \in DOMAIN stack' : FrameOf(functions, fun, dir, i, stack'[i])
    <3> SUFFICES ASSUME NEW i \in DOMAIN stack' PROVE FrameOf(functions, fun, dir, i, stack'[i])
      OBVIOUS
    <3>1. CASE i \in 1..m
      <4>1. FrameOf(functions, fun, dir, i, stack[i])
        BY <1>1, <1>8, <3>1 DEF IInv, FunInv
      <4>2. CASE i = m
        BY <1>1, <1>2, <1>4, <1>8, <1>10, <3>1, <4>1, <4>2 DEF FrameOf
      <4>3. CASE i # m
        BY <1>10, <3>1, <4>1, <4>3
      <4> QED
        BY <4>2, <4>3
    <3>2. CASE i = m + 1
      <4>1. i # 1
        BY <3>2
      <4>2. fr.args \in Seq(Fields)
        BY <1>3, ProtoAssumption
      <4>3. fr.next <= Len(fr.args) + 1
        BY <1>3, <4>2
      <4> QED
        BY <1>2, <1>3, <1>9, <3>2, <4>1, <4>3 DEF FrameOf, ArgsOf
    <3> QED
      BY <1>12, <3>1, <3>2
  <2> QED
    BY <1>14, <2>1 DEF IInv, FunInv, given
<1>18. OnceInv'
  <2>1. \A i \in DOMAIN stack' : Distinct(stack'[i].nested) /\ stack'[i].of \notin NamesIn(stack'[i].nested)
    <3>1. ASSUME NEW i \in 1..m
          PROVE  Distinct(stack'[i].nested) /\ stack'[i].of \notin NamesIn(stack'[i].nested)
      <4>1. Distinct(stack[i].nested) /\ stack[i].of \notin NamesIn(stack[i].nested)
        BY <1>1, <1>8 DEF IInv, OnceInv
      <4>2. stack'[i].nested = stack[i].nested /\ stack'[i].of = stack[i].of
        BY <1>10
      <4> QED
        BY <4>1, <4>2
    <3>2. Distinct(stack'[m+1].nested) /\ stack'[m+1].of \notin NamesIn(stack'[m+1].nested)
      BY <1>3, <1>9, NoText
    <3> QED
      BY <1>12, <3>1, <3>2
  <2>2. ASSUME NEW i \in 1..m, NEW j \in 1..m, i # j PROVE Placed(stack'[i]) \cap Placed(stack'[j]) = {}
    <3>1. Placed(stack[i]) \cap Placed(stack[j]) = {}
      BY <1>1, <1>8, <2>2 DEF IInv, OnceInv
    <3> QED
      BY <1>11, <3>1
  <2>3. ASSUME NEW i \in 1..m PROVE t \notin Placed(stack'[i])
    BY <1>1, <1>8, <1>11, <1>15 DEF InProgress
  <2>4. \A i, j \in DOMAIN stack' : i # j => Placed(stack'[i]) \cap Placed(stack'[j]) = {}
    BY <1>11, <1>12, <2>2, <2>3
  <2>5. InProgress(stack') \cap NamesIn(buf \o local) = {}
    BY <1>13, <1>15 DEF IInv, OnceInv
  <2>6. InProgress(stack') \cap Types \subseteq seen' /\ NamesIn(buf \o local) \cap Types \subseteq seen'
    BY <1>13, <1>14 DEF IInv, OnceInv
  <2> QED
    BY <1>14, <2>1, <2>4, <2>5, <2>6 DEF IInv, OnceInv
<1>19. OwnInv'
  <2>1. \A i \in DOMAIN stack' : NamesIn(stack'[i].nested) \subseteq Types \cap NeedsOf(functions, fun)
    <3>1. \A i \in 1..m : NamesIn(stack'[i].nested) \subseteq Types \cap NeedsOf(functions, fun)
      <4>1. \A i \in 1..m : i \in DOMAIN stack /\ stack'[i].nested = stack[i].nested
        BY <1>1, <1>8, <1>10
      <4> QED
        BY <4>1 DEF IInv, OwnInv
    <3>2. NamesIn(stack'[m+1].nested) = {}
      BY <1>3, <1>9, NoText
    <3> QED
      BY <1>12, <3>1, <3>2
  <2> QED
    BY <1>1, <1>14, <2>1 DEF IInv, OwnInv, given
<1>20. RefsInv'
  <2>1. \A i \in DOMAIN stack' : CallRefs(functions, seen', stack'[i])
    <3> SUFFICES ASSUME NEW i \in DOMAIN stack' PROVE CallRefs(functions, seen', stack'[i])
      OBVIOUS
    <3>1. CASE i \in 1..m
      <4>1. CallRefs(functions, seen, stack[i])
        BY <1>1, <1>8, <3>1 DEF IInv, RefsInv
      <4>2. CallRefs(functions, seen', stack[i])
        BY <1>14, <4>1 DEF CallRefs, Complete
      <4>3. CASE i = m
        <5>1. Complete(functions, seen', stack'[i].nested)
          BY <1>10, <3>1, <4>2 DEF CallRefs
        <5>2. stack'[i].refs \subseteq seen'
          BY <1>1, <1>5, <1>8, <1>10, <1>14, <4>2, <4>3 DEF CallRefs
        <5>3. ASSUME NEW k \in DOMAIN Top.args, k < n, Top.args[k] \in Types PROVE Top.args[k] \in seen'
          <6>1. k < Top.next \/ k = Top.next
            BY <1>2, <1>4, <5>3
          <6> QED
            BY <1>1, <1>2, <1>8, <1>14, <4>2, <4>3, <5>3, <6>1 DEF CallRefs
        <5>4. stack'[i].args = Top.args /\ stack'[i].next = n
          BY <1>1, <1>8, <1>10, <3>1, <4>3
        <5> QED
          BY <5>1, <5>2, <5>3, <5>4 DEF CallRefs
      <4>4. CASE i # m
        BY <1>10, <3>1, <4>2, <4>4
      <4> QED
        BY <4>3, <4>4
    <3>2. CASE i = m + 1
      <4>1. \A k \in DOMAIN fr.args : ~(k < fr.next)
        BY <1>3, ProtoAssumption
      <4> QED
        BY <1>3, <1>9, <3>2, <4>1, NoText DEF CallRefs
    <3> QED
      BY <1>12, <3>1, <3>2
  <2>2. Complete(functions, seen', buf) /\ Complete(functions, seen', local)
    BY <1>14 DEF IInv, RefsInv, Complete
  <2> QED
    BY <1>14, <2>1, <2>2 DEF RefsInv, given
<1>21. SeenInv'
  <2>1. \A u \in seen' : u \in NamesIn(buf \o local) \cup InProgress(stack')
                         \/ Blamed(functions, ToSet(services), fun, u)
    BY <1>13, <1>14 DEF IInv, SeenInv
  <2>2. \A s \in ToSet(services) : \A u \in NeedsOf(functions, s) \cap Types :
         u \in NamesIn(buf) \/ Blamed(functions, ToSet(services), fun, u)
    BY <1>14 DEF IInv, SeenInv
  <2> QED
    BY <1>14, <2>1, <2>2 DEF SeenInv, given
<1>22. ReasonInv'
  BY <1>14 DEF IInv, ReasonInv, given
<1> QED
  BY <1>16, <1>17, <1>18, <1>19, <1>20, <1>21, <1>22 DEF IInv

(* The blame for a type stays where it is when functions follow.            *)
LEMMA BlameStays ==
  ASSUME NEW fs, NEW ss, NEW n \in Nat, NEW t, Blamed(fs, ss, n, t)
  PROVE  Blamed(fs, ss, n + 1, t) /\ Blamed(fs, ss \cup {n}, n + 1, t)
<1>1. PICK f \in 1..(n - 1) : f \notin ss /\ t \in NeedsOf(fs, f) /\ \A s \in ss : t \in NeedsOf(fs, s) => f < s
  BY DEF Blamed
<1>2. f \in 1..((n + 1) - 1) /\ f < n /\ f # n
  BY <1>1
<1> QED
  BY <1>1, <1>2 DEF Blamed

(* A function that has an unknown type is skipped, or stops the generation. *)
LEMMA Skips ==
  ASSUME IInv, Unknown
  PROVE  IInv'
<1>1. /\ Saving /\ outcome = "running" /\ dir # "none"
      /\ Top.next \in DOMAIN Top.args /\ Top.args[Top.next] = "unknown"
  BY DEF Unknown, At, Saving
<1>2. /\ stack' = <<>> /\ local' = <<>> /\ buf' = buf /\ dir' = "none"
      /\ functions' = functions /\ seen' = seen /\ services' = services
      /\ SkipMissingTableOf' = SkipMissingTableOf
  BY DEF Unknown, DropsPart, given
<1>3. \/ SkipMissingTableOf /\ fun' = fun + 1 /\ outcome' = outcome
      \/ ~SkipMissingTableOf /\ fun' = fun /\ outcome' = "error"
  BY DEF Unknown, GoesOn
<1>4. "unknown" \in NeedsOf(functions, fun) /\ fun \in DOMAIN functions
  BY <1>1, TopNeeds DEF ToSet
<1>5. /\ functions \in Seq(Function) /\ buf \in Seq(Message) /\ fun \in Nat \ {0}
      /\ DOMAIN functions = 1..Len(functions) /\ Len(functions) \in Nat /\ fun <= Len(functions)
      /\ SkipMissingTableOf \in BOOLEAN /\ seen \subseteq Types
  BY <1>4 DEF IInv, Shapes
<1>6. buf \o <<>> = buf /\ DOMAIN <<>> = {}
  BY <1>5
<1>7. Shapes'
  <2>1. <<>> \in Seq(Frame) /\ <<>> \in Seq(Message)
    OBVIOUS
  <2>2. fun' \in 1..(Len(functions) + 1)
    BY <1>3, <1>5
  <2> QED
    BY <1>2, <1>3, <2>1, <2>2 DEF IInv, Shapes
<1>8. FunInv'
  <2>1. \A s \in ToSet(services) : s < fun /\ s < fun + 1
    <3>1. \A s \in ToSet(services) : s < fun /\ s \in DOMAIN functions
      BY DEF IInv, FunInv, Shapes, ToSet
    <3> QED
      BY <1>5, <3>1
  <2>2. outcome' # "ok"
    BY <1>1, <1>3
  <2> QED
    BY <1>2, <1>3, <1>6, <2>1, <2>2 DEF FunInv
<1>9. InProgress(<<>>) = {}
  BY DEF InProgress
<1>10. /\ NamesIn(buf \o local) = NamesIn(buf) \cup NamesIn(local)
       /\ Distinct(buf \o local) => Distinct(buf)
  BY <1>5, Joined DEF IInv, Shapes
<1>11. OnceInv'
  <2>1. Distinct(buf) /\ NamesIn(buf) \cap Types \subseteq seen
    BY <1>10 DEF IInv, OnceInv
  <2> QED
    BY <1>2, <1>6, <1>9, <2>1 DEF OnceInv
<1>12. OwnInv'
  BY <1>2, <1>6, NoText DEF IInv, OwnInv
<1>13. RefsInv'
  BY <1>2, <1>6, NoText DEF IInv, RefsInv
<1>14. fun \notin ToSet(services)
  BY <1>5 DEF IInv, FunInv
<1>15. SeenInv'
  <2> SUFFICES ASSUME outcome' # "error"
               PROVE  /\ \A t \in seen : t \in NamesIn(buf) \/ Blamed(functions, ToSet(services), fun + 1, t)
                      /\ \A s \in ToSet(services) : \A t \in NeedsOf(functions, s) \cap Types :
                           t \in NamesIn(buf) \/ Blamed(functions, ToSet(services), fun + 1, t)
    BY <1>2, <1>3, <1>6 DEF SeenInv
  <2> DEFINE ss == ToSet(services)
  <2>1. /\ \A t \in seen : t \in NamesIn(buf \o local) \cup InProgress(stack) \/ Blamed(functions, ss, fun, t)
        /\ \A s \in ss : \A t \in NeedsOf(functions, s) \cap Types :
             t \in NamesIn(buf) \/ Blamed(functions, ss, fun, t)
    BY <1>1 DEF IInv, SeenInv
  <2>2. \A t : Blamed(functions, ss, fun, t) => Blamed(functions, ss, fun + 1, t)
    BY <1>5, BlameStays
  <2>3. \A t \in (NamesIn(local) \cup InProgress(stack)) \cap Types : t \in NeedsOf(functions, fun)
    <3>1. \A i \in DOMAIN stack : \A t \in Placed(stack[i]) \cap Types : t \in NeedsOf(functions, fun)
      <4> SUFFICES ASSUME NEW i \in DOMAIN stack, NEW t \in Placed(stack[i]) \cap Types
                   PROVE  t \in NeedsOf(functions, fun)
        OBVIOUS
      <4>1. FrameOf(functions, fun, dir, i, stack[i])
        BY DEF IInv, FunInv
      <4>2. <<fun, dir>> \notin Types
        <5>1. <<fun, dir>> \in Nat \X {"in", "out"}
          BY <1>1, <1>5 DEF IInv, Shapes
        <5> QED
          BY <5>1, ProtoAssumption
      <4>3. stack[i].of \in Types => stack[i].of \in NeedsOf(functions, fun)
        BY <4>1, <4>2 DEF FrameOf
      <4>4. NamesIn(stack[i].nested) \subseteq NeedsOf(functions, fun)
        BY DEF IInv, OwnInv
      <4> QED
        BY <4>3, <4>4 DEF Placed
    <3>2. \A t \in NamesIn(local) \cap Types : t \in NeedsOf(functions, fun)
      <4>1. <<fun, "in">> \notin Types /\ <<fun, "out">> \notin Types
        <5>1. <<fun, "in">> \in Nat \X {"in", "out"} /\ <<fun, "out">> \in Nat \X {"in", "out"}
          BY <1>5
        <5> QED
          BY <5>1, ProtoAssumption
      <4> QED
        BY <4>1 DEF IInv, OwnInv
    <3> QED
      BY <3>1, <3>2 DEF InProgress
  <2>4. ASSUME NEW t \in Types, t \in NeedsOf(functions, fun)
        PROVE  t \in NamesIn(buf) \/ Blamed(functions, ss, fun + 1, t)
    <3>1. CASE \E s \in ss : t \in NeedsOf(functions, s)
      BY <2>1, <2>2, <3>1
    <3>2. CASE ~ \E s \in ss : t \in NeedsOf(functions, s)
      <4>1. fun \in 1..((fun + 1) - 1)
        BY <1>5
      <4> QED
        BY <1>14, <2>4, <3>2, <4>1 DEF Blamed
    <3> QED
      BY <3>1, <3>2
  <2>5. ASSUME NEW t \in seen
        PROVE  t \in NamesIn(buf) \/ Blamed(functions, ss, fun + 1, t)
    <3>1. t \in Types
      BY <1>5
    <3> HIDE DEF ss
    <3> QED
      BY <1>10, <2>1, <2>2, <2>3, <2>4, <3>1
  <2> QED
    BY <2>1, <2>2, <2>5
<1>16. ReasonInv'
  <2>1. ASSUME NEW f \in 1..fun, f \notin ToSet(services) PROVE "unknown" \in NeedsOf(functions, f)
    <3>1. f \in 1..(fun - 1) \/ f = fun
      BY <1>5
    <3> QED
      BY <1>4, <2>1, <3>1 DEF IInv, ReasonInv
  <2>2. \A f \in 1..(fun' - 1) : f \in 1..fun
    BY <1>3, <1>5
  <2> QED
    BY <1>1, <1>2, <1>3, <1>4, <2>1, <2>2 DEF ReasonInv
<1> QED
  BY <1>7, <1>8, <1>11, <1>12, <1>13, <1>15, <1>16 DEF IInv

(* A message of a function begins: its input, then its output.              *)
LEMMA Begins ==
  ASSUME IInv, SaveFunction \/ SaveOutput
  PROVE  IInv'
<1>1. /\ outcome = "running" /\ fun \in DOMAIN functions /\ stack = <<>>
      /\ UNCHANGED <<given, fun, local, seen, buf, services, outcome>>
  BY DEF SaveFunction, SaveOutput, IInv, Shapes, FunInv
<1>2. PICK d \in {"in", "out"} :
        /\ dir' = d
        /\ dir = IF d = "in" THEN "none" ELSE "in"
        /\ stack' = <<Call(<<fun, d>>, IF d = "in" THEN functions[fun].in ELSE functions[fun].out)>>
  BY DEF SaveFunction, SaveOutput
<1>3. functions \in Seq(Function) /\ fun \in Nat \ {0}
  BY DEF IInv, Shapes
<1>4. <<fun, d>> \in Nat \X {"in", "out"} /\ <<fun, d>> \notin Types
  <2>1. <<fun, d>> \in Nat \X {"in", "out"}
    BY <1>3
  <2> QED
    BY <2>1, ProtoAssumption
<1>5. PICK as \in Seq(Fields) : as = IF d = "in" THEN functions[fun].in ELSE functions[fun].out
  BY <1>1, <1>3, NeedsClosed
<1> DEFINE fr == Call(<<fun, d>>, as)
<1>6. /\ fr \in Frame /\ fr.of = <<fun, d>> /\ fr.args = as /\ fr.next = 0
      /\ fr.refs = {} /\ fr.nested = <<>>
  BY <1>4, <1>5 DEF Call, Frame
<1>7. stack' = <<fr>>
  BY <1>2, <1>5
<1> HIDE DEF fr
<1>8. stack' \in Seq(Frame) /\ DOMAIN stack' = {1} /\ stack'[1] = fr
  BY <1>6, <1>7
<1>9. Placed(fr) = {<<fun, d>>}
  BY <1>6, NoText DEF Placed
<1>10. InProgress(stack') = {<<fun, d>>} /\ InProgress(stack) = {}
  BY <1>1, <1>8, <1>9 DEF InProgress
<1>11. NamesIn(buf \o local) = NamesIn(buf) \cup NamesIn(local)
  BY Joined DEF IInv, Shapes
<1>12. <<fun, d>> \notin NamesIn(buf \o local)
  <2>1. <<fun, d>> \notin NamesIn(buf)
    <3> SUFFICES ASSUME <<fun, d>> \in NamesIn(buf) PROVE FALSE
      OBVIOUS
    <3>1. PICK s \in ToSet(services) :
            <<fun, d>> \in Types \/ <<fun, d>> = <<s, "in">> \/ <<fun, d>> = <<s, "out">>
      BY DEF IInv, OwnInv
    <3>2. s = fun
      BY <1>4, <3>1
    <3> QED
      BY <1>3, <3>1, <3>2 DEF IInv, FunInv
  <2>2. <<fun, d>> \notin NamesIn(local)
    <3>1. CASE d = "in"
      <4>1. local = <<>>
        BY <1>2, <3>1 DEF IInv, FunInv
      <4> QED
        BY <4>1, NoText
    <3>2. CASE d = "out"
      <4>1. dir = "in" /\ <<fun, "out">> # <<fun, "in">>
        BY <1>2, <3>2
      <4> QED
        BY <1>4, <3>2, <4>1 DEF IInv, OwnInv
    <3> QED
      BY <3>1, <3>2
  <2> QED
    BY <1>11, <2>1, <2>2
<1>13. Shapes'
  BY <1>1, <1>2, <1>8 DEF IInv, Shapes, given
<1>14. FunInv'
  <2>1. fr.args = ArgsOf(functions, fr.of)
    BY <1>4, <1>5, <1>6 DEF ArgsOf
  <2>2. FrameOf(functions, fun, d, 1, fr)
    BY <1>5, <1>6, <2>1 DEF FrameOf
  <2>3. fun <= Len(functions)
    BY <1>1, <1>3
  <2> QED
    BY <1>1, <1>2, <1>8, <2>2, <2>3 DEF IInv, FunInv, given
<1>15. OnceInv'
  <2>1. Distinct(fr.nested) /\ fr.of \notin NamesIn(fr.nested)
    BY <1>6, NoText
  <2> QED
    BY <1>1, <1>4, <1>8, <1>10, <1>12, <2>1 DEF IInv, OnceInv
<1>16. OwnInv'
  <2>1. NamesIn(fr.nested) = {} /\ stack' # <<>>
    <3>1. NamesIn(fr.nested) = {}
      BY <1>6, NoText
    <3>2. stack' # <<>>
      BY <1>7
    <3> QED
      BY <3>1, <3>2
  <2>2. \A e \in NamesIn(local') :
          \/ e = <<fun, "in">> /\ d = "out"
          \/ e \in Types \cap NeedsOf(functions, fun)
    <3>1. CASE d = "in"
      <4>1. local' = <<>>
        BY <1>1, <1>2, <3>1 DEF IInv, FunInv
      <4> QED
        BY <4>1, NoText
    <3>2. CASE d = "out"
      <4>1. dir = "in"
        BY <1>2, <3>2
      <4> QED
        BY <1>1, <3>2, <4>1 DEF IInv, OwnInv
    <3> QED
      BY <3>1, <3>2
  <2>3. d = "out" => <<fun, "in">> \in NamesIn(local')
    BY <1>1, <1>2 DEF IInv, OwnInv
  <2> QED
    BY <1>1, <1>2, <1>8, <2>1, <2>2, <2>3 DEF IInv, OwnInv, given
<1>17. RefsInv'
  <2>1. \A k \in DOMAIN fr.args : ~(k < fr.next)
    BY <1>5, <1>6
  <2>2. CallRefs(functions, seen, fr)
    BY <1>6, <2>1, NoText DEF CallRefs
  <2> QED
    BY <1>1, <1>8, <2>2 DEF IInv, RefsInv, given
<1>18. SeenInv'
  BY <1>1, <1>10 DEF IInv, SeenInv, given
<1>19. ReasonInv'
  BY <1>1 DEF IInv, ReasonInv, given
<1> QED
  BY <1>13, <1>14, <1>15, <1>16, <1>17, <1>18, <1>19 DEF IInv

(* What a function that has been written needs has its message, or is       *)
(* blamed on another.                                                       *)
LEMMA WrittenNeeds ==
  ASSUME IInv, outcome = "running", dir = "out", stack = <<>>
  PROVE  LET ss == ToSet(services) \cup {fun}
         IN  /\ \A t \in seen : t \in NamesIn(buf \o local) \/ Blamed(functions, ss, fun + 1, t)
             /\ \A s \in ss : \A t \in NeedsOf(functions, s) \cap Types :
                  t \in NamesIn(buf \o local) \/ Blamed(functions, ss, fun + 1, t)
<1> DEFINE ss == ToSet(services) \cup {fun}
           C == {x \in Fields : x \in Types => x \in NamesIn(buf \o local) \/ Blamed(functions, ss, fun + 1, x)}
<1>1. functions \in Seq(Function) /\ fun \in DOMAIN functions /\ fun \in Nat \ {0} /\ seen \subseteq Types
  BY DEF IInv, Shapes, FunInv
<1>2. /\ \A t \in seen : t \in NamesIn(buf \o local) \/ Blamed(functions, ToSet(services), fun, t)
      /\ \A s \in ToSet(services) : \A t \in NeedsOf(functions, s) \cap Types :
           t \in NamesIn(buf) \/ Blamed(functions, ToSet(services), fun, t)
  <2>1. InProgress(stack) = {}
    BY DEF InProgress
  <2> QED
    BY <2>1 DEF IInv, SeenInv
<1>3. \A t : Blamed(functions, ToSet(services), fun, t) => Blamed(functions, ss, fun + 1, t)
  BY <1>1, BlameStays
<1>4. /\ buf \in Seq(Message) /\ local \in Seq(Message) /\ buf \o local \in Seq(Message)
      /\ NamesIn(buf \o local) = NamesIn(buf) \cup NamesIn(local)
      /\ Complete(functions, seen, buf \o local)
  BY Joined DEF IInv, Shapes, RefsInv
<1>5. \A t \in seen : t \in NamesIn(buf \o local) \/ Blamed(functions, ss, fun + 1, t)
  <2> HIDE DEF ss
  <2> QED
    BY <1>2, <1>3
<1>6. \A s \in ToSet(services) : \A t \in NeedsOf(functions, s) \cap Types :
        t \in NamesIn(buf \o local) \/ Blamed(functions, ss, fun + 1, t)
  <2> HIDE DEF ss
  <2> QED
    BY <1>2, <1>3, <1>4
<1>7. \A x \in Fields : x \in Types => x \in C \/ x \notin seen
  <2> HIDE DEF ss
  <2> QED
    BY <1>5
<1>8. ASSUME NEW name \in NamesIn(buf \o local), ToSet(ArgsOf(functions, name)) \subseteq Fields
      PROVE  ToSet(ArgsOf(functions, name)) \subseteq C
  <2>1. ToSet(ArgsOf(functions, name)) \cap Types \subseteq seen
    BY <1>4 DEF Complete, NamesIn
  <2>2. \A x \in Fields : x \notin Types => x \in C
    OBVIOUS
  <2> HIDE DEF C
  <2> QED
    BY <1>7, <1>8, <2>1, <2>2
<1>9. functions[fun].in \in Seq(Fields) /\ functions[fun].out \in Seq(Fields)
  BY <1>1, NeedsClosed
<1>10. ToSet(functions[fun].in) \cup ToSet(functions[fun].out) \subseteq C
  <2>1. <<fun, "in">> \notin Types /\ <<fun, "out">> \notin Types
    <3>1. <<fun, "in">> \in Nat \X {"in", "out"} /\ <<fun, "out">> \in Nat \X {"in", "out"}
      BY <1>1
    <3> QED
      BY <3>1, ProtoAssumption
  <2>2. <<fun, "in">> \in NamesIn(buf \o local) /\ <<fun, "out">> \in NamesIn(buf \o local)
    BY <1>4 DEF IInv, OwnInv
  <2>3. /\ ArgsOf(functions, <<fun, "in">>) = functions[fun].in
        /\ ArgsOf(functions, <<fun, "out">>) = functions[fun].out
    BY <2>1 DEF ArgsOf
  <2>4. ToSet(functions[fun].in) \subseteq Fields /\ ToSet(functions[fun].out) \subseteq Fields
    BY <1>9 DEF ToSet
  <2> HIDE DEF C
  <2> QED
    BY <1>8, <2>2, <2>3, <2>4
<1>11. ASSUME NEW t \in C \cap Types PROVE ToSet(FieldsOf[t]) \subseteq C
  <2>1. ToSet(FieldsOf[t]) \subseteq Fields
    BY ProtoAssumption DEF ToSet
  <2>2. CASE t \in NamesIn(buf \o local)
    <3>1. ArgsOf(functions, t) = FieldsOf[t]
      BY DEF ArgsOf
    <3> HIDE DEF C
    <3> QED
      BY <1>8, <2>1, <2>2, <3>1
  <2>3. CASE Blamed(functions, ss, fun + 1, t)
    <3>1. PICK f \in 1..((fun + 1) - 1) :
            f \notin ss /\ t \in NeedsOf(functions, f) /\ \A s \in ss : t \in NeedsOf(functions, s) => f < s
      BY <2>3 DEF Blamed
    <3>2. f \in DOMAIN functions
      BY <1>1, <3>1
    <3>3. ToSet(FieldsOf[t]) \subseteq NeedsOf(functions, f)
      BY <1>1, <3>1, <3>2, NeedsClosed
    <3> SUFFICES ASSUME NEW y \in ToSet(FieldsOf[t]), y \in Types
                 PROVE  y \in NamesIn(buf \o local) \/ Blamed(functions, ss, fun + 1, y)
      BY <2>1
    <3>4. CASE \E s \in ToSet(services) : y \in NeedsOf(functions, s)
      <4> HIDE DEF ss, C
      <4> QED
        BY <1>6, <3>4
    <3>5. CASE ~ \E s \in ToSet(services) : y \in NeedsOf(functions, s)
      <4>1. f < fun
        BY <1>1, <3>1
      <4> QED
        BY <3>1, <3>3, <3>5, <4>1 DEF Blamed
    <3> QED
      BY <3>4, <3>5
  <2> QED
    BY <2>2, <2>3
<1>12. NeedsOf(functions, fun) \subseteq C
  <2> HIDE DEF C
  <2> QED
    BY <1>1, <1>10, <1>11, NeedsLeast
<1>13. \A t \in NeedsOf(functions, fun) \cap Types :
         t \in NamesIn(buf \o local) \/ Blamed(functions, ss, fun + 1, t)
  <2> HIDE DEF ss
  <2> QED
    BY <1>12
<1> QED
  <2>1. \A s \in ss : s \in ToSet(services) \/ s = fun
    OBVIOUS
  <2> HIDE DEF ss
  <2>2. \A s \in ss : \A t \in NeedsOf(functions, s) \cap Types :
                  t \in NamesIn(buf \o local) \/ Blamed(functions, ss, fun + 1, t)
    BY <1>6, <1>13, <2>1
  <2> QED
    BY <1>5, <2>2 DEF ss

(* A function that has been written is put into the file.                   *)
LEMMA Saves ==
  ASSUME IInv, Save
  PROVE  IInv'
<1>1. /\ outcome = "running" /\ dir = "out" /\ stack = <<>>
      /\ buf' = buf \o local /\ local' = <<>> /\ services' = Append(services, fun)
      /\ fun' = fun + 1 /\ dir' = "none" /\ stack' = <<>> /\ seen' = seen
      /\ outcome' = "running" /\ functions' = functions /\ SkipMissingTableOf' = SkipMissingTableOf
  BY DEF Save, Emptied, given
<1>2. /\ functions \in Seq(Function) /\ fun \in DOMAIN functions /\ fun \in Nat \ {0}
      /\ DOMAIN functions = 1..Len(functions) /\ Len(functions) \in Nat /\ fun <= Len(functions)
      /\ buf \in Seq(Message) /\ local \in Seq(Message) /\ services \in Seq(DOMAIN functions)
  BY <1>1 DEF IInv, Shapes, FunInv
<1>3. /\ buf \o local \in Seq(Message)
      /\ NamesIn(buf \o local) = NamesIn(buf) \cup NamesIn(local)
      /\ Complete(functions, seen, buf \o local)
  BY <1>2, Joined DEF IInv, RefsInv
<1>4. (buf \o local) \o <<>> = buf \o local
  BY <1>3
<1>5. Append(services, fun) \in Seq(DOMAIN functions)
      /\ ToSet(Append(services, fun)) = ToSet(services) \cup {fun}
  <2>1. PICK D : D = DOMAIN functions
    OBVIOUS
  <2>2. services \in Seq(D) /\ fun \in D
    BY <1>2, <2>1
  <2>3. PICK n \in Nat : n = Len(services)
    BY <2>2
  <2>4. /\ Append(services, fun) \in Seq(D) /\ DOMAIN Append(services, fun) = 1..(n+1)
        /\ Append(services, fun)[n+1] = fun /\ DOMAIN services = 1..n
        /\ \A i \in 1..n : Append(services, fun)[i] = services[i]
    BY <2>2, <2>3
  <2>5. \A i : i \in 1..(n+1) <=> i \in 1..n \/ i = n + 1
    BY <2>3
  <2>6. ToSet(Append(services, fun)) = ToSet(services) \cup {fun}
    <3>1. \A x : x \in ToSet(Append(services, fun)) <=> \E i \in 1..(n+1) : Append(services, fun)[i] = x
      BY <2>4 DEF ToSet
    <3>2. \A x : x \in ToSet(services) <=> \E i \in 1..n : services[i] = x
      BY <2>4 DEF ToSet
    <3>3. \A x : x \in ToSet(Append(services, fun)) <=> x \in ToSet(services) \/ x = fun
      BY <2>4, <2>5, <3>1, <3>2
    <3> QED
      BY <3>3
  <2> QED
    BY <2>1, <2>4, <2>6
<1>6. Shapes'
  BY <1>1, <1>2, <1>3, <1>5 DEF IInv, Shapes
<1>7. FunInv'
  <2>1. \A s \in ToSet(services) \cup {fun} : s < fun + 1
    <3>1. \A s \in ToSet(services) : s < fun /\ s \in DOMAIN functions
      BY <1>2 DEF IInv, FunInv, ToSet
    <3> QED
      BY <1>2, <3>1
  <2> QED
    BY <1>1, <1>5, <2>1 DEF FunInv
<1>8. InProgress(<<>>) = {} /\ DOMAIN <<>> = {}
  BY DEF InProgress
<1>9. OnceInv'
  BY <1>1, <1>4, <1>8 DEF IInv, OnceInv
<1>10. OwnInv'
  <2>1. \A s \in ToSet(services) \cup {fun} :
          <<s, "in">> \in NamesIn(buf \o local) /\ <<s, "out">> \in NamesIn(buf \o local)
    BY <1>1, <1>3 DEF IInv, OwnInv
  <2>2. \A d \in NamesIn(buf \o local) : \E s \in ToSet(services) \cup {fun} :
          d \in Types \cap NeedsOf(functions, s) \/ d = <<s, "in">> \/ d = <<s, "out">>
    <3>1. \A d \in NamesIn(buf) : \E s \in ToSet(services) :
          d \in Types \cap NeedsOf(functions, s) \/ d = <<s, "in">> \/ d = <<s, "out">>
      BY DEF IInv, OwnInv
    <3>2. \A d \in NamesIn(local) :
          d \in Types \cap NeedsOf(functions, fun) \/ d = <<fun, "in">> \/ d = <<fun, "out">>
      BY DEF IInv, OwnInv
    <3> QED
      BY <1>3, <3>1, <3>2
  <2> QED
    BY <1>1, <1>5, <1>8, <2>1, <2>2, NoText DEF OwnInv
<1>11. RefsInv'
  BY <1>1, <1>3, <1>8, NoText DEF RefsInv
<1>12. SeenInv'
  <2> DEFINE ss == ToSet(services) \cup {fun}
  <2>1. /\ \A t \in seen : t \in NamesIn(buf \o local) \/ Blamed(functions, ss, fun + 1, t)
        /\ \A s \in ss : \A t \in NeedsOf(functions, s) \cap Types :
             t \in NamesIn(buf \o local) \/ Blamed(functions, ss, fun + 1, t)
    BY <1>1, WrittenNeeds
  <2> HIDE DEF ss
  <2>2. ToSet(services') = ss
    BY <1>1, <1>5 DEF ss
  <2> QED
    BY <1>1, <1>4, <1>8, <2>1, <2>2 DEF SeenInv
<1>13. ReasonInv'
  <2>1. \A f \in 1..fun : f \in 1..(fun - 1) \/ f = fun
    BY <1>2
  <2>2. (fun + 1) - 1 = fun
    BY <1>2
  <2>3. \A f \in 1..fun : f \notin ToSet(services) \cup {fun} => "unknown" \in NeedsOf(functions, f)
    BY <2>1 DEF IInv, ReasonInv
  <2>4. outcome' # "panic" /\ outcome' # "error"
    BY <1>1
  <2> QED
    BY <1>1, <1>5, <2>2, <2>3, <2>4 DEF ReasonInv
<1> QED
  BY <1>6, <1>7, <1>9, <1>10, <1>11, <1>12, <1>13 DEF IInv

(* A message of a function ends.                                            *)
LEMMA Ends ==
  ASSUME IInv, EndMessage, Len(stack) = 1
  PROVE  IInv'
<1>1. Saving /\ outcome = "running" /\ dir \in {"in", "out"} /\ stack # <<>>
  BY DEF EndMessage, Saving, IInv, Shapes
<1>2. /\ 1 \in DOMAIN stack /\ DOMAIN stack = {1} /\ Top = stack[1] /\ Top \in Frame
      /\ Text = TextOf(Top)
  BY <1>1, TopCall DEF IInv, Shapes
<1>3. /\ stack' = <<>> /\ local' = local \o TextOf(Top)
      /\ Top.next = Len(Top.args) + 1
      /\ functions' = functions /\ SkipMissingTableOf' = SkipMissingTableOf
      /\ UNCHANGED <<fun, dir, seen, buf, services, outcome>>
  BY <1>2 DEF EndMessage, given
<1>4. /\ buf \in Seq(Message) /\ local \in Seq(Message) /\ TextOf(Top) \in Seq(Message)
      /\ NamesIn(TextOf(Top)) = Placed(Top)
      /\ NamesIn(buf \o local) = NamesIn(buf) \cup NamesIn(local)
      /\ Distinct(buf \o local) => Distinct(buf) /\ Distinct(local) /\ NamesIn(buf) \cap NamesIn(local) = {}
  BY <1>2, Joined, TextHas DEF IInv, Shapes
<1>5. /\ local' \in Seq(Message) /\ NamesIn(local') = NamesIn(local) \cup Placed(Top)
      /\ NamesIn(buf \o local') = NamesIn(buf) \cup NamesIn(local')
  <2>1. local' \in Seq(Message) /\ NamesIn(local') = NamesIn(local) \cup NamesIn(TextOf(Top))
    BY <1>3, <1>4, Joined
  <2>2. NamesIn(buf \o local') = NamesIn(buf) \cup NamesIn(local')
    BY <1>4, <2>1, Joined
  <2> QED
    BY <1>4, <2>1, <2>2
<1>6. InProgress(stack) = Placed(Top) /\ InProgress(<<>>) = {} /\ DOMAIN <<>> = {}
  BY <1>2 DEF InProgress
<1>7. /\ fun \in DOMAIN functions /\ Top.of = <<fun, dir>>
      /\ Top.args = ArgsOf(functions, Top.of) /\ Top.args \in Seq(Fields)
  BY <1>1, TopNeeds
<1>8. Shapes'
  BY <1>3, <1>5 DEF IInv, Shapes
<1>9. FunInv'
  BY <1>1, <1>3, <1>6 DEF IInv, FunInv
<1>10. OnceInv'
  <2>1. Distinct(TextOf(Top)) /\ Placed(Top) \cap NamesIn(buf \o local) = {}
    BY <1>2, <1>6, TextHas DEF IInv, OnceInv
  <2>2. Distinct(buf) /\ Distinct(local) /\ NamesIn(buf) \cap NamesIn(local) = {}
    BY <1>4 DEF IInv, OnceInv
  <2>3. Distinct(local')
    BY <1>3, <1>4, <2>1, <2>2, Joined
  <2>4. Distinct(buf \o local')
    BY <1>4, <1>5, <2>1, <2>2, <2>3, Joined
  <2>5. NamesIn(buf \o local') \cap Types \subseteq seen
    BY <1>4, <1>5, <1>6 DEF IInv, OnceInv
  <2> QED
    BY <1>3, <1>6, <2>4, <2>5 DEF OnceInv
<1>11. OwnInv'
  <2>1. NamesIn(Top.nested) \subseteq Types \cap NeedsOf(functions, fun)
    BY <1>2 DEF IInv, OwnInv
  <2>2. \A d \in Placed(Top) : d = <<fun, dir>> \/ d \in Types \cap NeedsOf(functions, fun)
    BY <1>7, <2>1 DEF Placed
  <2>3. <<fun, dir>> \in NamesIn(local')
    BY <1>5, <1>7 DEF Placed
  <2>4. \A d \in NamesIn(local) :
       \/ d = <<fun, "in">>
       \/ d = <<fun, "out">> /\ dir = "out"
       \/ d \in Types \cap NeedsOf(functions, fun)
    BY DEF IInv, OwnInv
  <2>5. dir = "out" => <<fun, "in">> \in NamesIn(local')
    BY <1>5 DEF IInv, OwnInv
  <2>6. \A d \in NamesIn(local') :
       \/ d = <<fun, "in">>
       \/ d = <<fun, "out">> /\ dir = "out"
       \/ d \in Types \cap NeedsOf(functions, fun)
    BY <1>1, <1>5, <2>2, <2>4
  <2> QED
    BY <1>1, <1>3, <1>6, <2>3, <2>5, <2>6 DEF IInv, OwnInv
<1>12. RefsInv'
  <2>1. CallRefs(functions, seen, Top)
    BY <1>2 DEF IInv, RefsInv
  <2>2. ToSet(ArgsOf(functions, Top.of)) \cap Types \subseteq seen
    <3>1. \A k \in DOMAIN Top.args : k < Top.next
      BY <1>3, <1>7
    <3> QED
      BY <1>7, <2>1, <3>1 DEF CallRefs, ToSet
  <2>3. Complete(functions, seen, TextOf(Top))
    BY <1>2, <2>1, <2>2, TextHas DEF CallRefs
  <2>4. Complete(functions, seen, local')
    BY <1>3, <1>4, <2>3, Joined DEF IInv, RefsInv
  <2> QED
    BY <1>3, <1>6, <2>4 DEF IInv, RefsInv
<1>13. SeenInv'
  <2>1. NamesIn(buf \o local') \cup InProgress(stack') = NamesIn(buf \o local) \cup InProgress(stack)
    BY <1>3, <1>4, <1>5, <1>6
  <2> QED
    BY <1>3, <2>1 DEF IInv, SeenInv
<1>14. ReasonInv'
  BY <1>3 DEF IInv, ReasonInv
<1> QED
  BY <1>8, <1>9, <1>10, <1>11, <1>12, <1>13, <1>14 DEF IInv

(* A message of a record ends, and its text goes to the call before.        *)
LEMMA Returns ==
  ASSUME IInv, EndMessage, Len(stack) # 1
  PROVE  IInv'
<1>1. Saving /\ outcome = "running" /\ dir \in {"in", "out"} /\ stack # <<>>
  BY DEF EndMessage, Saving, IInv, Shapes
<1>2. /\ Len(stack) \in Nat \ {0} /\ DOMAIN stack = 1..Len(stack) /\ Top = stack[Len(stack)]
      /\ Top \in Frame
  BY <1>1, TopCall DEF IInv, Shapes
<1>3. PICK n \in Nat \ {0} : n + 1 = Len(stack)
  <2>1. PICK k \in Nat \ {0, 1} : k = Len(stack)
    BY <1>2
  <2>2. k - 1 \in Nat \ {0} /\ (k - 1) + 1 = k
    OBVIOUS
  <2> QED
    BY <2>1, <2>2
<1>4. Len(stack) > 1 /\ Len(stack) - 1 = n /\ stack \in Seq(Frame)
  BY <1>3 DEF IInv, Shapes
<1>5. /\ stack' = Returned
      /\ Top.next = Len(Top.args) + 1
      /\ functions' = functions /\ SkipMissingTableOf' = SkipMissingTableOf
      /\ UNCHANGED <<fun, dir, local, seen, buf, services, outcome>>
  BY DEF EndMessage, given
<1>6. /\ stack' \in Seq(Frame) /\ Len(stack') = n
      /\ \A i \in 1..n :
           /\ stack'[i].of = stack[i].of /\ stack'[i].args = stack[i].args
           /\ stack'[i].next = stack[i].next /\ stack'[i].refs = stack[i].refs
           /\ i # n => stack'[i] = stack[i]
      /\ stack'[n].nested = stack[n].nested \o TextOf(Top)
  BY <1>4, <1>5, CallReturns
<1>7. /\ DOMAIN stack' = 1..n /\ stack' # <<>>
      /\ DOMAIN stack = 1..(n+1) /\ Top = stack[n+1]
      /\ \A i \in 1..n : i \in DOMAIN stack
      /\ n \in DOMAIN stack /\ n + 1 \in DOMAIN stack /\ n \in 1..n
      /\ \A i \in DOMAIN stack : i \in 1..n \/ i = n + 1
      /\ \A i \in 1..n : i # n + 1
  <2>1. DOMAIN stack' = 1..n /\ DOMAIN stack = 1..(n+1) /\ Top = stack[n+1]
    <3>1. DOMAIN stack' = 1..n
      BY <1>6
    <3>2. DOMAIN stack = 1..(n+1) /\ Top = stack[n+1]
      BY <1>2, <1>3
    <3> QED
      BY <3>1, <3>2
  <2>2. stack' # <<>>
    BY <1>6
  <2>3. /\ \A i \in 1..n : i \in 1..(n+1) /\ i # n + 1
        /\ \A i \in 1..(n+1) : i \in 1..n \/ i = n + 1
        /\ n \in 1..n /\ n + 1 \in 1..(n+1)
    OBVIOUS
  <2> QED
    BY <2>1, <2>2, <2>3
<1>8. /\ stack[n] \in Frame /\ stack[n].nested \in Seq(Message)
      /\ TextOf(Top) \in Seq(Message) /\ NamesIn(TextOf(Top)) = Placed(Top)
      /\ NamesIn(stack'[n].nested) = NamesIn(stack[n].nested) \cup Placed(Top)
  <2>1. stack[n] \in Frame /\ stack[n].nested \in Seq(Message)
    <3>1. stack[n] \in Frame
      BY <1>4, <1>7
    <3> QED
      BY <3>1 DEF Frame
  <2>2. TextOf(Top) \in Seq(Message) /\ NamesIn(TextOf(Top)) = Placed(Top)
    BY <1>2, TextHas
  <2> QED
    BY <1>6, <2>1, <2>2, Joined
<1>9. /\ \A i \in 1..n : i # n => Placed(stack'[i]) = Placed(stack[i])
      /\ Placed(stack'[n]) = Placed(stack[n]) \cup Placed(Top)
  BY <1>6, <1>7, <1>8 DEF Placed
<1>10. InProgress(stack') = InProgress(stack)
  <2>1. \A x : x \in InProgress(stack') <=> \E i \in 1..n : x \in Placed(stack'[i])
    BY <1>7 DEF InProgress
  <2>2. \A x : x \in InProgress(stack) <=> \E i \in DOMAIN stack : x \in Placed(stack[i])
    BY DEF InProgress
  <2>3. ASSUME NEW x, x \in InProgress(stack') PROVE x \in InProgress(stack)
    BY <1>7, <1>9, <2>1, <2>2, <2>3
  <2>4. ASSUME NEW x, x \in InProgress(stack) PROVE x \in InProgress(stack')
    BY <1>7, <1>9, <2>1, <2>2, <2>4
  <2> QED
    BY <2>3, <2>4
<1>11.
       /\ fun \in DOMAIN functions /\ Top.args = ArgsOf(functions, Top.of) /\ Top.args \in Seq(Fields)
       /\ Top.of \in Types \cap NeedsOf(functions, fun)
  BY <1>1, TopNeeds
<1>12. Shapes'
  BY <1>5, <1>6 DEF IInv, Shapes
<1>13. FunInv'
  <2>1. \A i \in DOMAIN stack' : FrameOf(functions, fun, dir, i, stack'[i])
    <3> SUFFICES ASSUME NEW i \in 1..n PROVE FrameOf(functions, fun, dir, i, stack'[i])
      BY <1>7
    <3>1. FrameOf(functions, fun, dir, i, stack[i])
      BY <1>7 DEF IInv, FunInv
    <3> QED
      BY <1>6, <3>1 DEF FrameOf
  <2> QED
    BY <1>1, <1>5, <2>1 DEF IInv, FunInv
<1>14. OnceInv'
  <2>1. \A i, j \in DOMAIN stack : i # j => Placed(stack[i]) \cap Placed(stack[j]) = {}
    BY DEF IInv, OnceInv
  <2>2. Placed(stack[n]) \cap Placed(Top) = {}
    BY <1>7, <2>1
  <2>3. Distinct(TextOf(Top)) /\ Distinct(stack[n].nested) /\ stack[n].of \notin NamesIn(stack[n].nested)
    BY <1>2, <1>7, TextHas DEF IInv, OnceInv
  <2>4. NamesIn(stack[n].nested) \cap Placed(Top) = {} /\ stack[n].of \notin Placed(Top)
    BY <2>2 DEF Placed
  <2>5. Distinct(stack'[n].nested)
    BY <1>6, <1>8, <2>3, <2>4, Joined
  <2>6. stack'[n].of \notin NamesIn(stack'[n].nested)
    BY <1>6, <1>7, <1>8, <2>3, <2>4
  <2>7. \A i \in DOMAIN stack' : Distinct(stack'[i].nested) /\ stack'[i].of \notin NamesIn(stack'[i].nested)
    BY <1>6, <1>7, <2>5, <2>6 DEF IInv, OnceInv
  <2>8. ASSUME NEW i \in 1..n, i # n PROVE Placed(stack[i]) \cap (Placed(stack[n]) \cup Placed(Top)) = {}
    <3>1. i \in DOMAIN stack /\ i # n + 1
      BY <1>7
    <3>2. Placed(stack[i]) \cap Placed(stack[n]) = {}
      BY <1>7, <2>1, <2>8, <3>1
    <3>3. Placed(stack[i]) \cap Placed(Top) = {}
      BY <1>7, <2>1, <3>1
    <3> QED
      BY <3>2, <3>3
  <2>9. ASSUME NEW i \in 1..n, NEW j \in 1..n, i # j PROVE Placed(stack'[i]) \cap Placed(stack'[j]) = {}
    <3>1. CASE i = n
      <4>1. Placed(stack[j]) \cap Placed(stack'[n]) = {}
        BY <1>9, <2>8, <2>9, <3>1
      <4> QED
        BY <1>9, <2>9, <3>1, <4>1
    <3>2. CASE j = n
      <4>1. Placed(stack[i]) \cap Placed(stack'[n]) = {}
        BY <1>9, <2>8, <2>9, <3>2
      <4> QED
        BY <1>9, <2>9, <3>2, <4>1
    <3>3. CASE i # n /\ j # n
      BY <1>7, <1>9, <2>1, <2>9, <3>3
    <3> QED
      BY <3>1, <3>2, <3>3
  <2>10. \A i, j \in DOMAIN stack' : i # j => Placed(stack'[i]) \cap Placed(stack'[j]) = {}
    BY <1>7, <2>9
  <2> QED
    BY <1>5, <1>10, <2>7, <2>10 DEF IInv, OnceInv
<1>15. OwnInv'
  <2>1. NamesIn(Top.nested) \subseteq Types \cap NeedsOf(functions, fun)
    BY <1>7 DEF IInv, OwnInv
  <2>2. Placed(Top) \subseteq Types \cap NeedsOf(functions, fun)
    BY <1>11, <2>1 DEF Placed
  <2>3. \A i \in 1..n : NamesIn(stack[i].nested) \subseteq Types \cap NeedsOf(functions, fun)
    BY <1>7 DEF IInv, OwnInv
  <2>4. \A i \in 1..n : NamesIn(stack'[i].nested) \subseteq Types \cap NeedsOf(functions, fun)
    BY <1>6, <1>7, <1>8, <2>2, <2>3
  <2> QED
    BY <1>1, <1>5, <1>7, <2>4 DEF IInv, OwnInv
<1>16. RefsInv'
  <2>1. CallRefs(functions, seen, Top) /\ \A i \in 1..n : CallRefs(functions, seen, stack[i])
    BY <1>7 DEF IInv, RefsInv
  <2>2. ToSet(ArgsOf(functions, Top.of)) \cap Types \subseteq seen
    <3>1. \A k \in DOMAIN Top.args : k < Top.next
      BY <1>5, <1>11
    <3> QED
      BY <1>11, <2>1, <3>1 DEF CallRefs, ToSet
  <2>3. Complete(functions, seen, TextOf(Top))
    BY <1>2, <2>1, <2>2, TextHas DEF CallRefs
  <2>4. Complete(functions, seen, stack'[n].nested)
    <3>1. Complete(functions, seen, stack[n].nested)
      BY <1>7, <2>1 DEF CallRefs
    <3> QED
      BY <1>6, <1>8, <2>3, <3>1, Joined
  <2>5. CallRefs(functions, seen, stack'[n])
    BY <1>6, <1>7, <2>1, <2>4 DEF CallRefs
  <2>6. \A i \in 1..n : CallRefs(functions, seen, stack'[i])
    BY <1>6, <2>1, <2>5
  <2> QED
    BY <1>5, <1>7, <2>6 DEF IInv, RefsInv
<1>17. SeenInv'
  BY <1>5, <1>10 DEF IInv, SeenInv
<1>18. ReasonInv'
  BY <1>5 DEF IInv, ReasonInv
<1> QED
  BY <1>12, <1>13, <1>14, <1>15, <1>16, <1>17, <1>18 DEF IInv

(* The generation stops, at the end or at what the function being saved has.*)
LEMMA Stops ==
  ASSUME IInv, UNCHANGED <<given, fun, dir, stack, local, seen, buf, services>>,
         \/ outcome' = "ok" /\ dir = "none" /\ fun = Len(functions) + 1 /\ outcome = "running"
         \/ outcome' = "panic" /\ Saving /\ {"nodata", "odd"} \cap ToSet(Top.args) # {}
  PROVE  IInv'
<1>1. outcome = "running" /\ outcome' # "running" /\ outcome' # "error"
  BY DEF Saving
<1>2. Shapes'
  BY DEF IInv, Shapes, given
<1>3. FunInv'
  BY DEF IInv, FunInv, given
<1>4. OnceInv' /\ OwnInv' /\ RefsInv'
  BY DEF IInv, OnceInv, OwnInv, RefsInv, given
<1>5. SeenInv'
  BY <1>1 DEF IInv, SeenInv, given
<1>6. ReasonInv'
  <2>1. outcome' = "panic" => {"nodata", "odd"} \cap NeedsOf(functions, fun) # {}
    <3>1. Saving => ToSet(Top.args) \subseteq NeedsOf(functions, fun)
      BY TopNeeds
    <3> QED
      BY <3>1
  <2> QED
    BY <1>1, <2>1 DEF IInv, ReasonInv, given
<1> QED
  BY <1>2, <1>3, <1>4, <1>5, <1>6 DEF IInv

(* Where the call goes on, with what it refers to.                          *)
LEMMA GoesOnTo ==
  ASSUME IInv, Saving, NEW r \in SUBSET (seen \cap Types), Top.next \in DOMAIN Top.args,
         Top.args[Top.next] \in Types => Top.args[Top.next] \in seen,
         stack' = Line(r), UNCHANGED <<given, fun, dir, local, seen, buf, services, outcome>>
  PROVE  IInv'
<1>1. Top \in Frame /\ Top = stack[Len(stack)] /\ Len(stack) \in DOMAIN stack
  BY TopCall DEF IInv, Shapes, Saving
<1>2. PICK q \in SUBSET Types : q = Top.refs \cup r
  BY <1>1 DEF Frame
<1>3. Top.next \in Nat /\ Top.args \in Seq(Fields)
  BY <1>1 DEF Frame
<1>4. PICK n \in Nat : n = Top.next + 1
  BY <1>3
<1>5. stack' = TopAt(n, q)
  BY <1>2, <1>4 DEF Line
<1>6. CallRefs(functions, seen, Top)
  BY <1>1 DEF IInv, RefsInv
<1>7. q \subseteq seen
  BY <1>2, <1>6 DEF CallRefs
<1>8. n <= Len(Top.args) + 1
  BY <1>3, <1>4
<1>9. \A k \in DOMAIN Top.args : k < n /\ Top.args[k] \in Types => Top.args[k] \in seen
  <2> SUFFICES ASSUME NEW k \in DOMAIN Top.args, k < n, Top.args[k] \in Types
               PROVE  Top.args[k] \in seen
    OBVIOUS
  <2>1. k < Top.next \/ k = Top.next
    BY <1>3, <1>4
  <2> QED
    BY <1>6, <2>1 DEF CallRefs
<1> QED
  BY <1>5, <1>7, <1>8, <1>9, Moves

-----------------------------------------------------------------------------
(* The invariant is inductive.                                              *)
LEMMA Inductive ==
  /\ Init => IInv
  /\ IInv /\ [Next]_vars => IInv'
<1>1. ASSUME Init PROVE IInv
  <2>1. functions \in Seq(Function) /\ Len(functions) \in Nat
    BY <1>1, ProtoAssumption DEF Init
  <2>2. Shapes
    BY <1>1, <2>1 DEF Init, Shapes
  <2>3. /\ <<>> \o <<>> = <<>> /\ ToSet(<<>>) = {} /\ InProgress(<<>>) = {} /\ DOMAIN <<>> = {}
    BY DEF ToSet, InProgress
  <2>4. FunInv
    BY <1>1, <2>3 DEF Init, FunInv
  <2>5. OnceInv
    BY <1>1, <2>3, NoText DEF Init, OnceInv
  <2>6. OwnInv
    BY <1>1, <2>3, NoText DEF Init, OwnInv
  <2>7. RefsInv
    BY <1>1, <2>3, NoText DEF Init, RefsInv
  <2>8. SeenInv
    BY <1>1, <2>3 DEF Init, SeenInv
  <2>9. ReasonInv
    BY <1>1 DEF Init, ReasonInv
  <2> QED
    BY <2>2, <2>4, <2>5, <2>6, <2>7, <2>8, <2>9 DEF IInv
<1>2. ASSUME IInv, [Next]_vars PROVE IInv'
  <2>1. CASE SaveFunction \/ SaveOutput
    BY <1>2, <2>1, Begins
  <2>2. CASE Save
    BY <1>2, <2>2, Saves
  <2>3. CASE Enter
    <3>1. /\ Saving /\ Top.next = 0
          /\ UNCHANGED <<given, fun, dir, local, seen, buf, services>>
      BY <2>3 DEF Enter
    <3>2. Top \in Frame /\ Top = stack[Len(stack)] /\ Len(stack) \in DOMAIN stack
      BY <1>2, <3>1, TopCall DEF IInv, Shapes, Saving
    <3>3. CASE "nodata" \in ToSet(Top.args)
      BY <1>2, <2>3, <3>1, <3>3, Stops DEF Enter
    <3>4. CASE "nodata" \notin ToSet(Top.args)
      <4>1. stack' = TopAt(1, Top.refs) /\ outcome' = outcome
        BY <2>3, <3>4 DEF Enter
      <4>2. PICK q \in SUBSET Types : q = Top.refs
        BY <3>2 DEF Frame
      <4>3. CallRefs(functions, seen, Top) /\ Top.args \in Seq(Fields)
        BY <1>2, <3>2 DEF IInv, RefsInv, Frame
      <4>4. q \subseteq seen /\ 1 <= Len(Top.args) + 1
        BY <4>2, <4>3 DEF CallRefs
      <4>5. \A k \in DOMAIN Top.args : ~(k < 1)
        BY <4>3
      <4> QED
        BY <1>2, <3>1, <4>1, <4>2, <4>4, <4>5, Moves
    <3> QED
      BY <3>3, <3>4
  <2>4. CASE WriteSimple
    <3>1. "simple" \notin Types /\ {} \in SUBSET (seen \cap Types)
      BY ProtoAssumption
    <3> QED
      BY <1>2, <2>4, <3>1, GoesOnTo DEF WriteSimple, At
  <2>5. CASE Unknown
    BY <1>2, <2>5, Skips
  <2>6. CASE Odd
    <3>1. "odd" \in ToSet(Top.args)
      BY <2>6 DEF Odd, At, ToSet
    <3> QED
      BY <1>2, <2>6, <3>1, Stops DEF Odd, At
  <2>7. CASE EndMessage
    BY <1>2, <2>7, Ends, Returns
  <2>8. CASE WriteAll
    BY <1>2, <2>8, Stops DEF WriteAll
  <2>9. ASSUME NEW t \in Types, WriteReference(t) PROVE IInv'
    <3>1. {t} \in SUBSET (seen \cap Types)
      BY <2>9 DEF WriteReference
    <3> QED
      BY <1>2, <2>9, <3>1, GoesOnTo DEF WriteReference, At
  <2>10. ASSUME NEW t \in Types, WriteMessage(t) PROVE IInv'
    BY <1>2, <2>10, Descends
  <2>11. CASE UNCHANGED vars
    <3>1. Shapes' /\ FunInv'
      BY <1>2, <2>11 DEF IInv, Shapes, FunInv, vars
    <3>2. OnceInv' /\ OwnInv' /\ RefsInv'
      BY <1>2, <2>11 DEF IInv, OnceInv, OwnInv, RefsInv, vars
    <3>3. SeenInv' /\ ReasonInv'
      BY <1>2, <2>11 DEF IInv, SeenInv, ReasonInv, vars
    <3> QED
      BY <3>1, <3>2, <3>3 DEF IInv
  <2> QED
    BY <1>2, <2>1, <2>2, <2>3, <2>4, <2>5, <2>6, <2>7, <2>8, <2>9, <2>10, <2>11 DEF Next, Terminated
<1> QED
  BY <1>1, <1>2

(* The invariant holds.                                                     *)
LEMMA InvariantHolds == Spec => []IInv
BY Inductive, PTL DEF Spec

-----------------------------------------------------------------------------
(* protoWriteMessageTyp calls itself for a type at most once, hence it never*)
(* is deeper in itself than there are types, and a message more.            *)
LEMMA Depth ==
  ASSUME IInv
  PROVE  Len(stack) <= Cardinality(Types) + 1
<1>1. stack \in Seq(Frame) /\ DOMAIN stack = 1..Len(stack)
  BY DEF IInv, Shapes
<1>2. PICK n \in Nat : n = Len(stack)
  BY <1>1, LenProperties
<1>3. PICK c \in Nat : c = Cardinality(Types)
  BY FS_CardinalityType, ProtoAssumption
<1> SUFFICES ASSUME c + 1 < n PROVE FALSE
  BY <1>2, <1>3
<1> DEFINE S == 2..n
           f == [i \in S |-> stack[i].of]
<1>4. ASSUME NEW i \in S PROVE i \in DOMAIN stack /\ stack[i].of \in Types
  <2>1. i \in DOMAIN stack /\ i # 1
    BY <1>1, <1>2
  <2>2. FrameOf(functions, fun, dir, i, stack[i])
    BY <2>1 DEF IInv, FunInv
  <2> QED
    BY <2>1, <2>2 DEF FrameOf
<1>5. IsFiniteSet(S) /\ Cardinality(S) = n - 1
  <2>1. 2 \in Int /\ n \in Int
    OBVIOUS
  <2>2. IsFiniteSet(2..n) /\ Cardinality(2..n) = IF 2 > n THEN 0 ELSE n - 2 + 1
    BY <2>1, FS_Interval
  <2> QED
    BY <2>2
<1> HIDE DEF S
<1>6. f \in [S -> Types]
  BY <1>4
<1>7. Cardinality(Types) < Cardinality(S)
  BY <1>3, <1>5
<1> HIDE DEF f
<1>8. PICK x \in S, y \in S : x # y /\ f[x] = f[y]
  BY <1>5, <1>6, <1>7, FS_PigeonHole, ProtoAssumption
<1>9. stack[x].of = stack[y].of
  BY <1>8 DEF f
<1>10. Placed(stack[x]) \cap Placed(stack[y]) = {}
  BY <1>4, <1>8 DEF IInv, OnceInv
<1> QED
  BY <1>9, <1>10 DEF Placed

(* SaveProtobuf's variables are of their types at every step: the recursion *)
(* ends even for records that contain each other, since each is in it once. *)
THEOREM TypeCorrect == Spec => []TypeOK
<1>1. IInv => TypeOK
  <2> SUFFICES ASSUME IInv PROVE TypeOK
    OBVIOUS
  <2>1. Len(stack) <= Cardinality(Types) + 1
    BY Depth
  <2> QED
    BY <2>1 DEF IInv, Shapes, FunInv, TypeOK
<1> QED
  BY <1>1, InvariantHolds, PTL

(* What the properties say of the file, in the invariant's words.           *)
LEMMA FileHas ==
  ASSUME IInv
  PROVE  /\ functions \in Seq(Function) /\ buf \in Seq(Message)
         /\ Defined = NamesIn(buf) /\ Used \subseteq seen
         /\ \A f : Needs(f) = NeedsOf(functions, f)
         /\ fun \in Nat \ {0} /\ DOMAIN functions = 1..Len(functions)
         /\ outcome = "ok" => fun = Len(functions) + 1 /\ DOMAIN functions = 1..(fun - 1) /\ local = <<>> /\ stack = <<>>
<1>1. functions \in Seq(Function) /\ buf \in Seq(Message) /\ fun \in Nat \ {0}
  BY DEF IInv, Shapes
<1>2. Defined = NamesIn(buf)
  BY DEF Defined, NamesIn, ToSet
<1>3. Used \subseteq seen
  <2>1. \A i \in DOMAIN buf : buf[i].refs \subseteq seen
    BY DEF IInv, RefsInv, Complete
  <2> QED
    BY <2>1 DEF Used, ToSet
<1>4. \A f : Needs(f) = NeedsOf(functions, f)
  BY DEF Needs, NeedsOf
<1>5. DOMAIN functions = 1..Len(functions) /\ Len(functions) \in Nat
  BY <1>1
<1>6. outcome = "ok" => fun = Len(functions) + 1 /\ DOMAIN functions = 1..(fun - 1) /\ local = <<>> /\ stack = <<>>
  BY <1>5 DEF IInv, FunInv
<1> QED
  BY <1>1, <1>2, <1>3, <1>4, <1>5, <1>6

(* Only functions of one name have messages of one name in the file: what   *)
(* protoWriteMessageTyp writes of a record it writes once.  And a type the  *)
(* file uses and does not define was met first in a function that           *)
(* SaveProtobuf skipped without forgetting what it had seen.                *)
THEOREM DefinedOnceHolds == Spec => []DefinedOnce
<1>1. IInv => DefinedOnce
  <2> SUFFICES ASSUME IInv PROVE DefinedOnce
    OBVIOUS
  <2>1. ASSUME NEW i \in DOMAIN buf, NEW j \in DOMAIN buf, i # j, NameOf(buf[i].of) = NameOf(buf[j].of)
        PROVE  \E f, g \in ToSet(services), d \in {"in", "out"} :
                 /\ f # g /\ functions[f].name = functions[g].name
                 /\ buf[i].of = <<f, d>> /\ buf[j].of = <<g, d>>
    <3>1. Distinct(buf)
      BY Joined DEF IInv, Shapes, OnceInv
    <3>2. buf[i].of # buf[j].of
      BY <2>1, <3>1 DEF Distinct
    <3>3. ASSUME NEW k \in DOMAIN buf
          PROVE  \/ buf[k].of \in Types
                 \/ \E f \in ToSet(services), d \in {"in", "out"} : buf[k].of = <<f, d>>
      <4>1. buf[k].of \in NamesIn(buf)
        BY DEF NamesIn
      <4> QED
        BY <4>1 DEF IInv, OwnInv
    <3>4. ASSUME NEW f \in ToSet(services), NEW d \in {"in", "out"}
          PROVE  NameOf(<<f, d>>) = <<functions[f].name, d>> /\ NameOf(<<f, d>>) \notin Types
      <4>1. functions \in Seq(Function) /\ f \in DOMAIN functions
        BY DEF IInv, Shapes, ToSet
      <4>2. f \in Nat /\ functions[f] \in Function
        BY <4>1
      <4>3. functions[f].name \in Names
        BY <4>2 DEF Function
      <4>4. <<f, d>> \in (Nat \cup Names) \X {"in", "out"} /\ <<functions[f].name, d>> \in (Nat \cup Names) \X {"in", "out"}
        BY <4>2, <4>3
      <4>5. <<f, d>> \notin Types /\ <<functions[f].name, d>> \notin Types
        BY <4>4, ProtoAssumption
      <4> QED
        BY <4>5 DEF NameOf
    <3>5. buf[i].of \notin Types /\ buf[j].of \notin Types
      <4>1. \A t \in Types : NameOf(t) = t
        BY DEF NameOf
      <4>2. ASSUME NEW k \in {i, j}, buf[k].of \notin Types PROVE NameOf(buf[k].of) \notin Types
        <5>1. PICK f \in ToSet(services), d \in {"in", "out"} : buf[k].of = <<f, d>>
          BY <3>3, <4>2
        <5> QED
          BY <3>4, <5>1
      <4>3. CASE buf[i].of \in Types
        <5>1. NameOf(buf[j].of) \in Types
          BY <2>1, <4>1, <4>3
        <5>2. buf[j].of \in Types
          BY <4>2, <5>1
        <5> QED
          BY <2>1, <3>2, <4>1, <4>3, <5>2
      <4>4. CASE buf[j].of \in Types
        <5>1. NameOf(buf[i].of) \in Types
          BY <2>1, <4>1, <4>4
        <5>2. buf[i].of \in Types
          BY <4>2, <5>1
        <5> QED
          BY <2>1, <3>2, <4>1, <4>4, <5>2
      <4> QED
        BY <4>3, <4>4
    <3>6. PICK f \in ToSet(services), d \in {"in", "out"} : buf[i].of = <<f, d>>
      BY <3>3, <3>5
    <3>7. PICK g \in ToSet(services), e \in {"in", "out"} : buf[j].of = <<g, e>>
      BY <3>3, <3>5
    <3>8. <<functions[f].name, d>> = <<functions[g].name, e>>
      BY <2>1, <3>4, <3>6, <3>7
    <3>9. functions[f].name = functions[g].name /\ d = e /\ f # g
      BY <3>2, <3>6, <3>7, <3>8
    <3> QED
      BY <3>6, <3>7, <3>9
  <2>2. ASSUME outcome = "ok", NEW t \in Used \ Defined
        PROVE  \E f \in Skipped : t \in Needs(f) /\ \A s \in ToSet(services) : t \in Needs(s) => f < s
    <3>1. /\ Defined = NamesIn(buf) /\ Used \subseteq seen
          /\ \A f : Needs(f) = NeedsOf(functions, f)
          /\ DOMAIN functions = 1..(fun - 1) /\ local = <<>> /\ stack = <<>> /\ buf \in Seq(Message)
      BY <2>2, FileHas
    <3>2. buf \o <<>> = buf /\ InProgress(<<>>) = {}
      BY <3>1 DEF InProgress
    <3>3. t \in NamesIn(buf \o local) \cup InProgress(stack) \/ Blamed(functions, ToSet(services), fun, t)
      BY <2>2, <3>1 DEF IInv, SeenInv
    <3>4. Blamed(functions, ToSet(services), fun, t)
      BY <3>1, <3>2, <3>3
    <3>5. PICK f \in 1..(fun - 1) :
            /\ f \notin ToSet(services) /\ t \in NeedsOf(functions, f)
            /\ \A s \in ToSet(services) : t \in NeedsOf(functions, s) => f < s
      BY <3>4 DEF Blamed
    <3>6. f \in Skipped
      BY <3>1, <3>5 DEF Skipped
    <3> QED
      BY <3>1, <3>5, <3>6
  <2> QED
    BY <2>1, <2>2 DEF DefinedOnce
<1> QED
  BY <1>1, InvariantHolds, PTL

(* FunLoop drops all that a skipped function has written: a message in the  *)
(* file belongs to an rpc in it, and each rpc has its two messages.         *)
THEOREM NothingOfTheSkippedHolds == Spec => []NothingOfTheSkipped
<1>1. IInv => NothingOfTheSkipped
  <2> SUFFICES ASSUME IInv PROVE NothingOfTheSkipped
    OBVIOUS
  <2>1. Defined = NamesIn(buf) /\ \A f : Needs(f) = NeedsOf(functions, f)
    BY FileHas
  <2>2. \A s \in ToSet(services) : {<<s, "in">>, <<s, "out">>} \subseteq Defined
    BY <2>1 DEF IInv, OwnInv
  <2>3. ASSUME NEW d \in Defined
        PROVE  IF d \in Types THEN \E s \in ToSet(services) : d \in Needs(s)
               ELSE d[1] \in ToSet(services)
    <3>1. PICK s \in ToSet(services) : d \in Types \cap NeedsOf(functions, s) \/ d = <<s, "in">> \/ d = <<s, "out">>
      BY <2>1, <2>3 DEF IInv, OwnInv
    <3>2. <<s, "in">> \notin Types /\ <<s, "out">> \notin Types
      <4>1. s \in Nat
        <5>1. functions \in Seq(Function) /\ s \in DOMAIN functions
          BY DEF IInv, Shapes, ToSet
        <5> QED
          BY <5>1
      <4>2. <<s, "in">> \in Nat \X {"in", "out"} /\ <<s, "out">> \in Nat \X {"in", "out"}
        BY <4>1
      <4> QED
        BY <4>2, ProtoAssumption
    <3> QED
      BY <2>1, <3>1, <3>2
  <2> QED
    BY <2>2, <2>3 DEF NothingOfTheSkipped
<1> QED
  BY <1>1, InvariantHolds, PTL

(* Whatever FunLoop skips or stops at is a type of that very function: what *)
(* another function has seen is never the reason.                           *)
THEOREM StopsForAReasonHolds == Spec => []StopsForAReason
<1>1. IInv => StopsForAReason
  <2> SUFFICES ASSUME IInv PROVE StopsForAReason
    OBVIOUS
  <2>1. \A f : Needs(f) = NeedsOf(functions, f)
    BY FileHas
  <2>2. ASSUME outcome = "ok", NEW f \in Skipped PROVE "unknown" \in Needs(f)
    <3>1. f \in 1..(fun - 1) /\ f \notin ToSet(services)
      BY <2>2, FileHas DEF Skipped
    <3> QED
      BY <2>1, <3>1 DEF IInv, ReasonInv
  <2>3. /\ outcome = "panic" => {"nodata", "odd"} \cap Needs(fun) # {}
        /\ outcome = "error" => "unknown" \in Needs(fun) /\ ~SkipMissingTableOf
    BY <2>1 DEF IInv, ReasonInv
  <2> QED
    BY <2>2, <2>3 DEF StopsForAReason
<1> QED
  BY <1>1, InvariantHolds, PTL
=============================================================================
