------------------------- MODULE SourceDocs_proofs --------------------------
(***************************************************************************)
(* Theorems about the lexer and the documentation it is read for, for any  *)
(* source texts over any letters.                                          *)
(***************************************************************************)
EXTENDS SourceDocs, SequenceTheorems, WellFoundedInduction, TLAPS

Types == {"Error", "EOF", "Text", "Comment", "Sep", "String"}

(* A sequence of items in the order of the text, up to n, that leaves out   *)
(* nothing but the line ends that close line comments. No comment is empty, *)
(* and the end is at the end.                                              *)
InOrder(e) == \A i, j \in DOMAIN e : i < j => e[i].to <= e[j].from

Fits(item) ==
  /\ item.typ = "Comment" => item.from < item.to
  /\ item.typ = "EOF" => item.to = Len(input)

UpTo(e, n) ==
  \A i \in DOMAIN e : e[i].from <= e[i].to /\ e[i].to <= n /\ Fits(e[i])

Closes(item, p) ==
  /\ item.to = p
  /\ \/ item.typ = "Comment"
     \/ item.typ = "Sep" /\ At(item.from, lcBegin)

Covers(e, n) ==
  \A p \in 0..(n - 1) :
    \/ \E i \in DOMAIN e : p \in Inside(e[i])
    \/ At(p, lcEnd) /\ \E i \in DOMAIN e : Closes(e[i], p)

(* A comment that begins with d is open at n, or is so for ever.            *)
OpenedBy(d, e, n) == \E i \in DOMAIN e : e[i].typ = "Sep" /\ e[i].to = n /\ At(e[i].from, d)
LeftOpen(e, n) == OpenedBy(bcBegin, e, n) /\ Index(bcEnd, n) = {}

(* What a lexer's fields are before and after each step of a state function;*)
(* e are the items yielded so far.                                         *)
Good(e, lx) ==
  /\ lx \in Lexers /\ lx.start <= Len(input) /\ Len(lx.items) <= 3
  /\ InOrder(e \o lx.items) /\ UpTo(e \o lx.items, lx.start)
  /\ lx.fate = "ok" => /\ lx.start <= lx.pos /\ Covers(e \o lx.items, lx.start)
                       /\ lx.closed => lx.start = Len(input)

(* What they are between the state functions: where a comment begins, and   *)
(* at the end.                                                             *)
Stands(e, lx) ==
  lx.fate = "ok" =>
    /\ lx.state = "line" => lx.start = lx.pos /\ OpenedBy(lcBegin, e \o lx.items, lx.start)
    /\ lx.state = "block" => lx.start = lx.pos /\ OpenedBy(bcBegin, e \o lx.items, lx.start)
    /\ lx.state \in {"nil", "returned"} => lx.start = Len(input) \/ LeftOpen(e \o lx.items, lx.start)

(* There is room for all but n items, or the lexer will send no more.       *)
Room(lx, n) == lx.fate # "blocked" /\ (lx.state = "nil" \/ Len(lx.items) <= n)

-----------------------------------------------------------------------------
LEMMA ItemsOrder ==
  ASSUME NEW e \in Seq(Item), NEW item \in Item, NEW n \in Nat, InOrder(e), UpTo(e, n),
         n <= item.from, item.from <= item.to, Fits(item)
  PROVE  InOrder(Append(e, item)) /\ UpTo(Append(e, item), item.to)
<1> DEFINE f == Append(e, item)
<1>1. PICK k \in Nat : k = Len(e)
  OBVIOUS
<1>2. DOMAIN e = 1..k /\ DOMAIN f = 1..(k+1) /\ f[k+1] = item /\ \A i \in 1..k : f[i] = e[i]
  BY <1>1
<1>3. \A i \in 1..k : e[i] \in Item
  BY <1>2
<1>4. \A i \in 1..k : e[i].to \in Nat /\ e[i].from \in Nat
  BY <1>3 DEF Item
<1>5. item.from \in Nat /\ item.to \in Nat
  BY DEF Item
<1> HIDE DEF f
<1>6. InOrder(f)
  <2> SUFFICES ASSUME NEW i \in 1..(k+1), NEW j \in 1..(k+1), i < j PROVE f[i].to <= f[j].from
    BY <1>2 DEF InOrder
  <2>1. i \in 1..k /\ f[i] = e[i]
    BY <1>1, <1>2
  <2>2. CASE j = k + 1
    BY <1>2, <1>4, <1>5, <2>1, <2>2 DEF UpTo
  <2>3. CASE j # k + 1
    BY <1>2, <2>1, <2>3 DEF InOrder
  <2> QED
    BY <2>2, <2>3
<1>7. UpTo(f, item.to)
  BY SMTT(20), <1>1, <1>2, <1>4, <1>5 DEF UpTo
<1> QED
  BY <1>6, <1>7 DEF f

LEMMA ItemsCover ==
  ASSUME NEW e \in Seq(Item), NEW item \in Item, Covers(e, item.from)
  PROVE  Covers(Append(e, item), item.to)
<1> DEFINE f == Append(e, item)
<1>1. PICK k \in Nat : k = Len(e)
  OBVIOUS
<1>2. DOMAIN e = 1..k /\ DOMAIN f = 1..(k+1) /\ f[k+1] = item /\ \A i \in 1..k : f[i] = e[i]
  BY <1>1
<1>3. item.from \in Nat /\ item.to \in Nat
  BY DEF Item
<1> HIDE DEF f
<1> SUFFICES ASSUME NEW p \in 0..(item.to - 1)
             PROVE  \/ \E i \in DOMAIN f : p \in Inside(f[i])
                    \/ At(p, lcEnd) /\ \E i \in DOMAIN f : Closes(f[i], p)
  BY DEF Covers, f
<1>4. CASE p < item.from
  <2>1. p \in 0..(item.from - 1)
    BY <1>3, <1>4
  <2>2. CASE At(p, lcEnd) /\ \E i \in DOMAIN e : Closes(e[i], p)
    <3>1. PICK i \in 1..k : Closes(e[i], p)
      BY <1>2, <2>2
    <3>2. i \in DOMAIN f /\ f[i] = e[i]
      BY <1>2
    <3> QED
      BY <2>2, <3>1, <3>2
  <2>3. CASE \E i \in DOMAIN e : p \in Inside(e[i])
    <3>1. PICK i \in 1..k : p \in Inside(e[i])
      BY <1>2, <2>3
    <3>2. i \in DOMAIN f /\ f[i] = e[i]
      BY <1>2
    <3> QED
      BY <3>1, <3>2
  <2> QED
    BY <2>1, <2>2, <2>3 DEF Covers
<1>5. CASE p >= item.from
  <2>1. p \in Inside(item)
    BY <1>3, <1>5 DEF Inside
  <2> QED
    BY <1>2, <2>1
<1> QED
  BY <1>3, <1>4, <1>5

(* What is sent comes last.                                                 *)
LEMMA SendFields ==
  ASSUME NEW lx \in Lexers, NEW item \in Item
  PROVE  LET s == Send(lx, item) IN
         /\ s \in Lexers
         /\ s.state = lx.state /\ s.start = lx.start /\ s.pos = lx.pos /\ s.closed = lx.closed
         /\ Len(lx.items) = 3 => s.items = lx.items /\ s.fate = "blocked"
         /\ Len(lx.items) # 3 => s.items = Append(lx.items, item) /\ s.fate = lx.fate
<1>1. CASE Len(lx.items) = 3
  <2> DEFINE s == [lx EXCEPT !.fate = "blocked"]
  <2>1. Send(lx, item) = s
    BY <1>1 DEF Send, ItemsCap
  <2>2. s \in Lexers
    BY DEF Lexers
  <2>3. s.state = lx.state /\ s.start = lx.start /\ s.pos = lx.pos /\ s.closed = lx.closed
    BY DEF Lexers
  <2>4. s.items = lx.items /\ s.fate = "blocked"
    BY DEF Lexers
  <2> QED
    BY <1>1, <2>1, <2>2, <2>3, <2>4
<1>2. CASE Len(lx.items) # 3
  <2> DEFINE s == [lx EXCEPT !.items = Append(lx.items, item)]
  <2>1. Send(lx, item) = s
    BY <1>2 DEF Send, ItemsCap
  <2>2. Append(lx.items, item) \in Seq(Item)
    BY DEF Lexers
  <2>3. s \in Lexers
    BY <2>2 DEF Lexers
  <2>4. s.state = lx.state /\ s.start = lx.start /\ s.pos = lx.pos /\ s.closed = lx.closed
    BY DEF Lexers
  <2>5. s.items = Append(lx.items, item) /\ s.fate = lx.fate
    BY DEF Lexers
  <2> QED
    BY <1>2, <2>1, <2>3, <2>4, <2>5
<1> QED
  BY <1>1, <1>2

ItemOf(lx, t) == [typ |-> t, from |-> lx.start, to |-> lx.pos]

(* emit, where it slices what is there and has room for an item and the end:*)
(* the slice, when it is not empty.                                        *)
LEMMA SliceFields ==
  ASSUME NEW lx \in Lexers, NEW t \in Types, input \in Seq(Chars), t = "EOF" => lx.pos = Len(input),
         lx.start <= lx.pos, lx.pos <= Len(input), Len(lx.items) <= 1
  PROVE  LET s == Slice(lx, t) IN
         /\ s \in Lexers
         /\ s.state = lx.state /\ s.start = lx.pos /\ s.pos = lx.pos /\ s.closed = lx.closed
         /\ s.fate = lx.fate
         /\ lx.start = lx.pos => s.items = lx.items
         /\ lx.start # lx.pos => s.items = Append(lx.items, ItemOf(lx, t))
<1> DEFINE sent == Send(lx, ItemOf(lx, t))
           s == [sent EXCEPT !.start = IF t = "EOF" THEN Len(input) ELSE lx.pos]
<1>1. CASE lx.start = lx.pos
  BY <1>1 DEF Slice
<1>2. CASE lx.start # lx.pos
  <2>1. Slice(lx, t) = s
    BY <1>2 DEF Slice, ItemOf
  <2>2. ItemOf(lx, t) \in Item
    BY DEF ItemOf, Item, Types, Lexers
  <2>3. Len(lx.items) # 3
    <3>1. lx.items \in Seq(Item)
      BY DEF Lexers
    <3>2. PICK n \in Nat : n = Len(lx.items)
      BY <3>1
    <3>3. ~(3 <= 2) /\ ~(3 <= 1)
      OBVIOUS
    <3> QED
      BY <3>2, <3>3
  <2>4. /\ sent \in Lexers
        /\ sent.state = lx.state /\ sent.start = lx.start /\ sent.pos = lx.pos /\ sent.closed = lx.closed
        /\ sent.items = Append(lx.items, ItemOf(lx, t)) /\ sent.fate = lx.fate
    BY <2>2, <2>3, SendFields
  <2>5. lx.pos \in Nat /\ (IF t = "EOF" THEN Len(input) ELSE lx.pos) = lx.pos
    BY DEF Lexers
  <2> HIDE DEF sent
  <2>6. s = [sent EXCEPT !.start = lx.pos]
    BY <2>5
  <2>7. s \in Lexers
    BY <2>4, <2>5, <2>6 DEF Lexers
  <2>8. s.state = sent.state /\ s.pos = sent.pos /\ s.closed = sent.closed /\ s.items = sent.items /\ s.fate = sent.fate
    BY <2>4, <2>6 DEF Lexers
  <2>9. s.start = lx.pos
    BY <2>4, <2>6 DEF Lexers
  <2> QED
    BY <1>2, <2>1, <2>4, <2>7, <2>8, <2>9
<1> QED
  BY <1>1, <1>2

(* The end, at the end of the input.                                        *)
LEMMA CloseFields ==
  ASSUME NEW lx \in Lexers, input \in Seq(Chars), lx.fate = "ok", Len(lx.items) <= 2
  PROVE  LET s == close(lx) IN
         /\ s \in Lexers
         /\ s.start = lx.start /\ s.pos = lx.pos /\ s.fate = "ok"
         /\ lx.start # Len(input) => s = lx
         /\ lx.start = Len(input) => /\ s.items = Append(lx.items, EOFItem)
                                     /\ s.state = "nil" /\ s.closed
<1> DEFINE sent == Send(lx, EOFItem)
           s == [sent EXCEPT !.closed = TRUE, !.state = "nil"]
<1>1. CASE lx.start # Len(input)
  BY <1>1 DEF close
<1>2. CASE lx.start = Len(input)
  <2>1. close(lx) = s
    BY <1>2 DEF close
  <2>2. EOFItem \in Item
    BY DEF EOFItem, Item
  <2>3. Len(lx.items) # 3
    <3>1. lx.items \in Seq(Item)
      BY DEF Lexers
    <3>2. PICK n \in Nat : n = Len(lx.items)
      BY <3>1
    <3>3. ~(3 <= 2) /\ ~(3 <= 1)
      OBVIOUS
    <3> QED
      BY <3>2, <3>3
  <2>4. /\ sent \in Lexers
        /\ sent.start = lx.start /\ sent.pos = lx.pos
        /\ sent.items = Append(lx.items, EOFItem) /\ sent.fate = lx.fate
    BY <2>2, <2>3, SendFields
  <2> HIDE DEF sent
  <2>5. s \in Lexers
    BY <2>4 DEF Lexers
  <2>6. s.start = sent.start /\ s.pos = sent.pos /\ s.items = sent.items /\ s.fate = sent.fate
    BY <2>4 DEF Lexers
  <2>7. s.state = "nil" /\ s.closed
    BY <2>4 DEF Lexers
  <2> QED
    BY <1>2, <2>1, <2>4, <2>5, <2>6, <2>7
<1> QED
  BY <1>1, <1>2

LEMMA EmitFields ==
  ASSUME NEW lx \in Lexers, NEW t \in Types, input \in Seq(Chars), t = "EOF" => lx.pos >= Len(input),
         lx.state # "nil" => Len(lx.items) <= 1
  PROVE  LET s == emit(lx, t)
             b == IF lx.start = lx.pos THEN lx.items ELSE Append(lx.items, ItemOf(lx, t)) IN
         /\ s \in Lexers /\ s.pos = lx.pos
         /\ lx.fate # "ok" \/ lx.state = "nil" => s = lx
         /\ lx.fate = "ok" /\ lx.state # "nil" /\ (lx.start > lx.pos \/ lx.pos > Len(input)) =>
              /\ s.fate = "panic" /\ s.start = lx.start /\ s.state = lx.state
              /\ s.items = lx.items /\ s.closed = lx.closed
         /\ lx.fate = "ok" /\ lx.state # "nil" /\ lx.start <= lx.pos /\ lx.pos <= Len(input) =>
              /\ s.fate = "ok" /\ s.start = lx.pos
              /\ lx.pos # Len(input) => s.items = b /\ s.state = lx.state /\ s.closed = lx.closed
              /\ lx.pos = Len(input) => s.items = Append(b, EOFItem) /\ s.state = "nil" /\ s.closed
<1>0. lx.start \in Nat /\ lx.pos \in Nat
  BY DEF Lexers
<1>1. CASE lx.fate # "ok" \/ lx.state = "nil"
  BY <1>1 DEF emit
<1>2. CASE lx.fate = "ok" /\ lx.state # "nil" /\ (lx.start > lx.pos \/ lx.pos > Len(input))
  <2> DEFINE s == [lx EXCEPT !.fate = "panic"]
  <2>1. emit(lx, t) = s
    BY <1>2 DEF emit
  <2>2. s \in Lexers
    BY DEF Lexers
  <2>3. s.start = lx.start /\ s.pos = lx.pos /\ s.state = lx.state /\ s.items = lx.items
        /\ s.closed = lx.closed /\ s.fate = "panic"
    BY DEF Lexers
  <2> QED
    BY <1>0, <1>2, <2>1, <2>2, <2>3
<1>3. CASE lx.fate = "ok" /\ lx.state # "nil" /\ lx.start <= lx.pos /\ lx.pos <= Len(input)
  <2> DEFINE sl == Slice(lx, t)
             b == IF lx.start = lx.pos THEN lx.items ELSE Append(lx.items, ItemOf(lx, t))
  <2>1. Len(input) \in Nat
    OBVIOUS
  <2>2. emit(lx, t) = close(sl)
    BY <1>0, <1>3, <2>1 DEF emit
  <2>3. t = "EOF" => lx.pos = Len(input)
    BY <1>0, <1>3, <2>1
  <2>4. /\ sl \in Lexers
        /\ sl.state = lx.state /\ sl.start = lx.pos /\ sl.pos = lx.pos /\ sl.closed = lx.closed
        /\ sl.fate = "ok" /\ sl.items = b
    BY <1>3, <2>3, SliceFields
  <2>5. Len(b) <= 2
    <3>1. lx.items \in Seq(Item) /\ Len(lx.items) \in Nat
      BY DEF Lexers
    <3>2. Len(Append(lx.items, ItemOf(lx, t))) = Len(lx.items) + 1
      BY <3>1
    <3> QED
      BY <1>3, <3>1, <3>2
  <2> HIDE DEF sl, b
  <2>6. LET s == close(sl) IN
         /\ s \in Lexers
         /\ s.start = sl.start /\ s.pos = sl.pos /\ s.fate = "ok"
         /\ sl.start # Len(input) => s = sl
         /\ sl.start = Len(input) => /\ s.items = Append(sl.items, EOFItem)
                                     /\ s.state = "nil" /\ s.closed
    BY <2>4, <2>5, CloseFields
  <2> QED
    BY <1>0, <1>3, <2>1, <2>2, <2>4, <2>6 DEF b
<1> QED
  BY <1>0, <1>1, <1>2, <1>3

LEMMA AppendLast ==
  ASSUME NEW e \in Seq(Item), NEW s \in Seq(Item), NEW x \in Item
  PROVE  e \o s \in Seq(Item) /\ e \o Append(s, x) = Append(e \o s, x)
<1>1. e \o s \in Seq(Item) /\ e \o Append(s, x) \in Seq(Item) /\ Append(e \o s, x) \in Seq(Item)
  OBVIOUS
<1>2. PICK k \in Nat, n \in Nat : k = Len(e) /\ n = Len(s)
  OBVIOUS
<1>3. Len(e \o Append(s, x)) = k + n + 1 /\ Len(Append(e \o s, x)) = k + n + 1
  BY <1>2
<1>4. ASSUME NEW i \in 1..(k+n+1) PROVE (e \o Append(s, x))[i] = Append(e \o s, x)[i]
  BY <1>2
<1> QED
  BY <1>1, <1>2, <1>3, <1>4, SeqEqual

(* A text keeps its order and loses nothing when an item goes on where the  *)
(* last one ended.                                                         *)
LEMMA SentGood ==
  ASSUME NEW e \in Seq(Item), NEW s \in Seq(Item), NEW x \in Item, InOrder(e \o s), UpTo(e \o s, x.from),
         Covers(e \o s, x.from), x.from <= x.to, Fits(x)
  PROVE  InOrder(e \o Append(s, x)) /\ UpTo(e \o Append(s, x), x.to) /\ Covers(e \o Append(s, x), x.to)
<1>1. e \o s \in Seq(Item) /\ e \o Append(s, x) = Append(e \o s, x)
  BY AppendLast
<1>2. x.from \in Nat /\ x.from <= x.from
  BY DEF Item
<1> QED
  BY <1>1, <1>2, ItemsOrder, ItemsCover

LEMMA EmitGood ==
  ASSUME NEW e \in Seq(Item), NEW lx, Good(e, lx), NEW t \in Types, input \in Seq(Chars),
         t = "EOF" => lx.pos >= Len(input), NEW n \in 0..1, Room(lx, n)
  PROVE  LET s == emit(lx, t) IN
         /\ Good(e, s) /\ Room(s, n + 1)
         /\ s.pos = lx.pos /\ s.state \in {lx.state, "nil"}
         /\ lx.fate = "ok" /\ lx.state # "nil" /\ lx.start <= lx.pos /\ lx.pos <= Len(input) =>
              s.fate = "ok" /\ s.start = lx.pos /\ (lx.pos # Len(input) => s.state = lx.state)
<1> DEFINE s == emit(lx, t)
           b == IF lx.start = lx.pos THEN lx.items ELSE Append(lx.items, ItemOf(lx, t))
<1>0. lx \in Lexers /\ lx.start \in Nat /\ lx.pos \in Nat /\ lx.items \in Seq(Item) /\ Len(lx.items) \in Nat
      /\ Len(input) \in Nat
  BY DEF Good, Lexers
<1>1. lx.state # "nil" => Len(lx.items) <= 1
  BY <1>0 DEF Room
<1>2. /\ s \in Lexers /\ s.pos = lx.pos
      /\ lx.fate # "ok" \/ lx.state = "nil" => s = lx
      /\ lx.fate = "ok" /\ lx.state # "nil" /\ (lx.start > lx.pos \/ lx.pos > Len(input)) =>
           /\ s.fate = "panic" /\ s.start = lx.start /\ s.state = lx.state
           /\ s.items = lx.items /\ s.closed = lx.closed
      /\ lx.fate = "ok" /\ lx.state # "nil" /\ lx.start <= lx.pos /\ lx.pos <= Len(input) =>
           /\ s.fate = "ok" /\ s.start = lx.pos
           /\ lx.pos # Len(input) => s.items = b /\ s.state = lx.state /\ s.closed = lx.closed
           /\ lx.pos = Len(input) => s.items = Append(b, EOFItem) /\ s.state = "nil" /\ s.closed
  BY <1>0, <1>1, EmitFields
<1> HIDE DEF s
<1>3. CASE lx.fate # "ok" \/ lx.state = "nil"
  <2>1. s = lx
    BY <1>2, <1>3
  <2>2. Room(lx, n + 1)
    BY <1>0 DEF Room
  <2> QED
    BY <1>3, <2>1, <2>2 DEF s
<1>4. CASE lx.fate = "ok" /\ lx.state # "nil" /\ (lx.start > lx.pos \/ lx.pos > Len(input))
  <2>1. /\ s.fate = "panic" /\ s.start = lx.start /\ s.state = lx.state
        /\ s.items = lx.items /\ s.closed = lx.closed
    BY <1>2, <1>4
  <2>2. Good(e, s)
    BY <1>2, <2>1 DEF Good
  <2>3. Room(s, n + 1)
    BY <1>0, <2>1 DEF Room
  <2> QED
    BY <1>2, <2>1, <2>2, <2>3 DEF s
<1>5. CASE lx.fate = "ok" /\ lx.state # "nil" /\ lx.start <= lx.pos /\ lx.pos <= Len(input)
  <2>1. InOrder(e \o lx.items) /\ UpTo(e \o lx.items, lx.start) /\ Covers(e \o lx.items, lx.start)
    BY <1>5 DEF Good
  <2>2. b \in Seq(Item) /\ Len(b) <= n + 1 /\ Len(b) \in Nat
    <3>1. ItemOf(lx, t) \in Item
      BY <1>0 DEF ItemOf, Item, Types
    <3>2. Len(lx.items) <= n
      BY <1>5 DEF Room
    <3> QED
      BY <1>0, <3>1, <3>2
  <2>3. InOrder(e \o b) /\ UpTo(e \o b, lx.pos) /\ Covers(e \o b, lx.pos)
    <3>1. CASE lx.start = lx.pos
      BY <2>1, <3>1
    <3>2. CASE lx.start # lx.pos
      <4> DEFINE x == ItemOf(lx, t)
      <4>1. x \in Item /\ x.from = lx.start /\ x.to = lx.pos /\ Fits(x)
        <5>1. t = "EOF" => lx.pos = Len(input)
          BY <1>0, <1>5
        <5> QED
          BY <1>0, <1>5, <3>2, <5>1 DEF ItemOf, Item, Types, Fits
      <4> HIDE DEF x
      <4>2. InOrder(e \o Append(lx.items, x)) /\ UpTo(e \o Append(lx.items, x), x.to)
            /\ Covers(e \o Append(lx.items, x), x.to)
        BY <1>0, <1>5, <2>1, <4>1, SentGood
      <4> QED
        BY <3>2, <4>1, <4>2 DEF x
    <3> QED
      BY <3>1, <3>2
  <2> HIDE DEF b
  <2>4. CASE lx.pos # Len(input)
    <3>1. s.fate = "ok" /\ s.start = lx.pos /\ s.items = b /\ s.state = lx.state /\ ~s.closed
      <4>1. lx.closed => lx.start = Len(input)
        BY <1>5 DEF Good
      <4>2. ~lx.closed
        BY <1>0, <1>5, <2>4, <4>1
      <4> QED
        BY <1>2, <1>5, <2>4, <4>2
    <3>2. Good(e, s)
      BY <1>0, <1>2, <1>5, <2>2, <2>3, <3>1 DEF Good
    <3>3. Room(s, n + 1)
      BY <2>2, <3>1 DEF Room
    <3> QED
      BY <1>0, <1>2, <1>5, <2>4, <3>1, <3>2, <3>3 DEF s
  <2>5. CASE lx.pos = Len(input)
    <3>1. s.fate = "ok" /\ s.start = lx.pos /\ s.items = Append(b, EOFItem) /\ s.state = "nil"
      BY <1>2, <1>5, <2>5
    <3>2. EOFItem \in Item /\ EOFItem.from = Len(input) /\ EOFItem.to = Len(input) /\ Fits(EOFItem)
      BY <1>0 DEF EOFItem, Item, Fits
    <3>3. InOrder(e \o s.items) /\ UpTo(e \o s.items, lx.pos) /\ Covers(e \o s.items, lx.pos)
      <4> DEFINE x == EOFItem
      <4>1. x \in Item /\ x.from = lx.pos /\ x.to = lx.pos /\ x.from <= x.to /\ Fits(x)
        BY <1>0, <2>5, <3>2
      <4> HIDE DEF x
      <4>2. InOrder(e \o Append(b, x)) /\ UpTo(e \o Append(b, x), x.to) /\ Covers(e \o Append(b, x), x.to)
        BY <2>2, <2>3, <4>1, SentGood
      <4> QED
        BY <3>1, <4>1, <4>2 DEF x
    <3>4. Len(s.items) <= 3
      BY <2>2, <3>1, <3>2
    <3>5. Good(e, s)
      BY <1>0, <1>2, <1>5, <3>1, <3>3, <3>4 DEF Good
    <3>6. Room(s, n + 1)
      BY <3>1 DEF Room
    <3> QED
      BY <1>2, <3>1, <3>5, <3>6 DEF s
  <2> QED
    BY <2>4, <2>5
<1> QED
  BY <1>0, <1>3, <1>4, <1>5

(* What is sliced is among the items, from now on.                          *)
LEMMA EmitSends ==
  ASSUME NEW e \in Seq(Item), NEW lx, Good(e, lx), NEW t \in Types, input \in Seq(Chars),
         t # "EOF", NEW n \in 0..1, Room(lx, n),
         lx.fate = "ok", lx.state # "nil", lx.start < lx.pos, lx.pos <= Len(input)
  PROVE  LET s == emit(lx, t) IN
         \E i \in DOMAIN (e \o s.items) : (e \o s.items)[i] = ItemOf(lx, t)
<1> DEFINE s == emit(lx, t)
           x == ItemOf(lx, t)
           b == Append(lx.items, x)
<1>0. lx \in Lexers /\ lx.start \in Nat /\ lx.pos \in Nat /\ lx.items \in Seq(Item) /\ Len(lx.items) \in Nat
      /\ Len(input) \in Nat
  BY DEF Good, Lexers
<1>1. Len(lx.items) <= 1
  BY <1>0 DEF Room
<1>2. lx.start # lx.pos /\ lx.start <= lx.pos
  BY <1>0
<1>3. s.items = b \/ s.items = Append(b, EOFItem)
  <2> DEFINE c == IF lx.start = lx.pos THEN lx.items ELSE Append(lx.items, ItemOf(lx, t))
  <2>1. lx.fate = "ok" /\ lx.state # "nil" /\ lx.start <= lx.pos /\ lx.pos <= Len(input) =>
          /\ s.fate = "ok" /\ s.start = lx.pos
          /\ lx.pos # Len(input) => s.items = c /\ s.state = lx.state /\ s.closed = lx.closed
          /\ lx.pos = Len(input) => s.items = Append(c, EOFItem) /\ s.state = "nil" /\ s.closed
    BY <1>0, <1>1, EmitFields
  <2> HIDE DEF s
  <2> QED
    BY <1>2, <2>1
<1>4. x \in Item /\ EOFItem \in Item
  BY <1>0 DEF ItemOf, Item, Types, EOFItem
<1> HIDE DEF x, s
<1>5. b \in Seq(Item) /\ e \o lx.items \in Seq(Item) /\ e \o b = Append(e \o lx.items, x)
  BY SMTT(20), <1>0, <1>4, AppendLast
<1>6. PICK k \in Nat : k = Len(e \o lx.items)
  BY <1>5
<1> HIDE DEF b
<1>7. e \o b \in Seq(Item) /\ Len(e \o b) = k + 1 /\ (e \o b)[k + 1] = x
  BY <1>4, <1>5, <1>6
<1>8. CASE s.items = b
  BY <1>7, <1>8 DEF s, x
<1>9. CASE s.items = Append(b, EOFItem)
  <2>1. e \o s.items = Append(e \o b, EOFItem)
    <3>1. e \o Append(b, EOFItem) = Append(e \o b, EOFItem)
      BY <1>4, <1>5, AppendLast
    <3> QED
      BY <1>9, <3>1
  <2>2. k + 1 \in DOMAIN (e \o s.items) /\ (e \o s.items)[k + 1] = x
    BY <1>4, <1>7, <2>1
  <2> QED
    BY <2>2 DEF s, x
<1> QED
  BY <1>3, <1>8, <1>9

-----------------------------------------------------------------------------
(* The state functions.                                                     *)

LEMMA MinFacts ==
  ASSUME NEW S \in SUBSET Nat, S # {}
  PROVE  Min(S) \in S /\ \A x \in S : Min(S) <= x
<1> DEFINE R == {ss \in Nat \X Nat : ss[1] < ss[2]}
<1>1. IsWellFoundedOn(R, Nat)
  BY NatLessThanWellFounded DEF OpToRel
<1>2. PICK m \in S : \A y \in S : ~(<<y, m>> \in R)
  <2> HIDE DEF R
  <2> QED
    BY <1>1, WFMin
<1>3. ASSUME NEW y \in S PROVE m <= y
  <2>1. y \in Nat /\ m \in Nat
    OBVIOUS
  <2>2. y < m => <<y, m>> \in R
    BY <2>1
  <2> HIDE DEF R
  <2>3. ~(y < m)
    BY <1>2, <2>2
  <2> QED
    BY <2>1, <2>3
<1>4. \E x \in S : \A y \in S : x <= y
  BY <1>3
<1> QED
  BY <1>4 DEF Min

(* Steps that send nothing.                                                 *)
LEMMA MoveGood ==
  ASSUME NEW e, NEW lx, Good(e, lx), NEW n \in Nat, Room(lx, n), NEW p \in Nat,
         lx.fate = "ok" => lx.start <= p
  PROVE  LET s == [lx EXCEPT !.pos = p] IN
         /\ Good(e, s) /\ Room(s, n)
         /\ s.pos = p /\ s.start = lx.start /\ s.state = lx.state /\ s.fate = lx.fate
         /\ s.items = lx.items /\ s.closed = lx.closed
<1> DEFINE s == [lx EXCEPT !.pos = p]
<1>1. lx \in Lexers
  BY DEF Good
<1>2. s \in Lexers
  BY <1>1 DEF Lexers
<1>3. s.pos = p /\ s.start = lx.start /\ s.state = lx.state /\ s.fate = lx.fate
      /\ s.items = lx.items /\ s.closed = lx.closed
  BY <1>1 DEF Lexers
<1> HIDE DEF s
<1>4. Good(e, s) /\ Room(s, n)
  BY <1>2, <1>3 DEF Good, Room
<1> QED
  BY <1>3, <1>4 DEF s

LEMMA ForwardGood ==
  ASSUME NEW e, NEW lx, Good(e, lx), NEW n \in Nat, Room(lx, n), NEW k \in Nat
  PROVE  LET s == Forward(lx, k) IN
         /\ Good(e, s) /\ Room(s, n)
         /\ s.pos = lx.pos + k /\ s.start = lx.start /\ s.state = lx.state /\ s.fate = lx.fate
         /\ s.items = lx.items /\ s.closed = lx.closed
<1>1. lx.pos \in Nat /\ lx.start \in Nat /\ (lx.fate = "ok" => lx.start <= lx.pos)
  BY DEF Good, Lexers
<1> DEFINE p == lx.pos + k
<1>2. p \in Nat /\ (lx.fate = "ok" => lx.start <= p)
  BY <1>1
<1>3. Forward(lx, k) = [lx EXCEPT !.pos = p]
  BY DEF Forward
<1> HIDE DEF p
<1> QED
  BY <1>2, <1>3, MoveGood DEF p

LEMMA ThenGood ==
  ASSUME NEW e, NEW lx, Good(e, lx), NEW n, Room(lx, n), NEW state \in {"text", "string", "line", "block", "nil"}
  PROVE  LET s == Then(lx, state) IN
         /\ Good(e, s) /\ s.fate # "blocked"
         /\ s.pos = lx.pos /\ s.start = lx.start /\ s.state = state /\ s.fate = lx.fate
         /\ s.items = lx.items /\ s.closed = lx.closed
<1> DEFINE s == Then(lx, state)
<1>1. lx \in Lexers
  BY DEF Good
<1>2. s \in Lexers
  BY <1>1 DEF Lexers, Then
<1>3. s.pos = lx.pos /\ s.start = lx.start /\ s.state = state /\ s.fate = lx.fate
      /\ s.items = lx.items /\ s.closed = lx.closed
  BY <1>1 DEF Lexers, Then
<1> HIDE DEF s
<1>4. Good(e, s)
  BY <1>2, <1>3 DEF Good
<1> QED
  BY <1>3, <1>4 DEF s, Room

(* Before a state function.                                                 *)
Ready(e, lx) == Good(e, lx) /\ lx.items = <<>> /\ lx.fate = "ok" /\ lx.state # "nil"

LEMMA ReadyFacts ==
  ASSUME NEW e, NEW lx, Ready(e, lx), input \in Seq(Chars)
  PROVE  /\ Good(e, lx) /\ Room(lx, 0) /\ lx.fate = "ok" /\ lx.state # "nil"
         /\ lx.start \in Nat /\ lx.pos \in Nat /\ lx.start <= lx.pos /\ Len(input) \in Nat
<1>1. Good(e, lx) /\ lx.items = <<>> /\ lx.fate = "ok" /\ lx.state # "nil"
  BY DEF Ready
<1>2. lx.start \in Nat /\ lx.pos \in Nat /\ lx.start <= lx.pos
  BY <1>1 DEF Good, Lexers
<1>3. Len(<<>>) <= 0
  OBVIOUS
<1>4. Room(lx, 0)
  BY <1>1, <1>3 DEF Room
<1> QED
  BY <1>1, <1>2, <1>4

(* What a delimiter is, and where.                                          *)
LEMMA IndexRange ==
  ASSUME input \in Seq(Chars), NEW pos \in Nat
  PROVE  /\ Delimiters(pos) \subseteq pos..(Len(input) - 1) /\ Delimiters(pos) \in SUBSET Nat
         /\ Index(strBegin, pos) \subseteq pos..(Len(input) - 1) /\ Index(strBegin, pos) \in SUBSET Nat
         /\ Index(lcEnd, pos) \subseteq pos..(Len(input) - 1) /\ Index(lcEnd, pos) \in SUBSET Nat
         /\ Index(bcEnd, pos) \subseteq pos..(Len(input) - 2) /\ Index(bcEnd, pos) \in SUBSET Nat
<1>1. Len(input) \in Nat /\ Len(strBegin) = 1 /\ Len(lcEnd) = 1 /\ Len(bcEnd) = 2
  BY DEF strBegin, lcEnd, bcEnd
<1> QED
  BY <1>1 DEF Delimiters, Index

LEMMA OpensRange ==
  ASSUME input \in Seq(Chars), NEW i \in Nat, i < Len(input)
  PROVE  /\ Opens(i) \in {"string", "line", "block", "none"}
         /\ Opens(i) \in {"line", "block"} => i + 2 <= Len(input)
<1>1. Len(input) \in Nat /\ Len(lcBegin) = 2 /\ Len(bcBegin) = 2
  BY DEF lcBegin, bcBegin
<1> QED
  BY <1>1 DEF Opens, At

LEMMA TextGood ==
  ASSUME NEW e \in Seq(Item), NEW lx, Ready(e, lx), input \in Seq(Chars)
  PROVE  Good(e, lexText(lx)) /\ lexText(lx).fate # "blocked" /\ Stands(e, lexText(lx))
<1>0. /\ Good(e, lx) /\ Room(lx, 0) /\ lx.fate = "ok" /\ lx.state # "nil"
      /\ lx.start \in Nat /\ lx.pos \in Nat /\ lx.start <= lx.pos /\ Len(input) \in Nat
  BY ReadyFacts
<1>1. CASE lx.pos = Len(input)
  <2> DEFINE eof == emit(lx, "EOF")
  <2>1. Good(e, eof) /\ Room(eof, 1) /\ eof.start = Len(input)
    <3>1. "EOF" \in Types /\ 0 \in 0..1 /\ lx.pos >= Len(input) /\ lx.pos <= Len(input)
      BY <1>0, <1>1 DEF Types
    <3> QED
      BY <1>0, <1>1, <3>1, EmitGood
  <2>2. lexText(lx) = Then(eof, "nil")
    BY <1>1 DEF lexText
  <2> HIDE DEF eof
  <2>3. Good(e, Then(eof, "nil")) /\ Then(eof, "nil").fate # "blocked"
        /\ Then(eof, "nil").state = "nil" /\ Then(eof, "nil").start = Len(input)
    BY <2>1, ThenGood
  <2> QED
    BY <2>2, <2>3 DEF Stands
<1>2. CASE lx.pos > Len(input)
  <2> DEFINE s == [lx EXCEPT !.fate = "panic"]
  <2>1. lexText(lx) = s
    BY <1>0, <1>2 DEF lexText
  <2>2. lx \in Lexers
    BY <1>0 DEF Good
  <2>3. s \in Lexers
    BY <2>2 DEF Lexers
  <2>4. s.start = lx.start /\ s.fate = "panic" /\ s.items = lx.items
    BY <2>2 DEF Lexers
  <2> HIDE DEF s
  <2>5. Good(e, s)
    BY <1>0, <2>3, <2>4 DEF Good
  <2>6. s.fate # "blocked" /\ Stands(e, s)
    BY <2>4 DEF Stands
  <2> QED
    BY <2>1, <2>5, <2>6
<1>3. CASE lx.pos < Len(input) /\ Delimiters(lx.pos) = {}
  <2> DEFINE all == [lx EXCEPT !.pos = Len(input)]
             text == emit(all, "Text")
  <2>1. /\ Good(e, all) /\ Room(all, 0) /\ all.pos = Len(input) /\ all.start = lx.start
        /\ all.state = lx.state /\ all.fate = "ok"
    <3>1. lx.start <= Len(input)
      BY <1>0, <1>3
    <3> QED
      BY <1>0, <3>1, MoveGood
  <2>2. lexText(lx) = Then(text, "nil")
    BY <1>0, <1>3 DEF lexText
  <2> HIDE DEF all
  <2>3. Good(e, text) /\ Room(text, 1) /\ text.start = Len(input)
    <3>1. "Text" \in Types /\ "Text" # "EOF" /\ 0 \in 0..1
      BY DEF Types
    <3>2. all.fate = "ok" /\ all.state # "nil" /\ all.start <= all.pos /\ all.pos <= Len(input)
      BY <1>0, <1>3, <2>1
    <3> QED
      BY <2>1, <3>1, <3>2, EmitGood
  <2> HIDE DEF text
  <2>4. Good(e, Then(text, "nil")) /\ Then(text, "nil").fate # "blocked"
        /\ Then(text, "nil").state = "nil" /\ Then(text, "nil").start = Len(input)
    BY <2>3, ThenGood
  <2> QED
    BY <2>2, <2>4 DEF Stands
<1>4. CASE lx.pos < Len(input) /\ Delimiters(lx.pos) # {}
  <2> DEFINE first == Min(Delimiters(lx.pos))
             upto == [lx EXCEPT !.pos = first]
             text == emit(upto, "Text")
             k == IF Opens(first) = "string" THEN 1 ELSE 2
             over == Forward(text, k)
             sep == emit(over, "Sep")
  <2>1. lexText(lx) = Then([sep EXCEPT !.start = sep.pos], Opens(first))
    BY <1>0, <1>4 DEF lexText
  <2>2. first \in Nat /\ first \in Delimiters(lx.pos) /\ lx.pos <= first /\ first < Len(input)
    <3>1. Delimiters(lx.pos) \in SUBSET Nat /\ Delimiters(lx.pos) \subseteq lx.pos..(Len(input) - 1)
      BY <1>0, IndexRange
    <3>2. first \in Delimiters(lx.pos)
      <4> DEFINE D == Delimiters(lx.pos)
      <4>1. D \in SUBSET Nat /\ D # {}
        BY <1>4, <3>1
      <4> HIDE DEF D
      <4>2. Min(D) \in D
        BY <4>1, MinFacts
      <4> QED
        BY <4>2 DEF D
    <3> QED
      BY <1>0, <3>1, <3>2
  <2>3. Opens(first) \in {"string", "line", "block"} /\ k \in {1, 2} /\ first + k <= Len(input)
    <3>1. Opens(first) \in {"string", "line", "block", "none"}
          /\ (Opens(first) \in {"line", "block"} => first + 2 <= Len(input))
      BY <2>2, OpensRange
    <3>2. Opens(first) # "none"
      BY <2>2 DEF Delimiters
    <3> QED
      BY <1>0, <2>2, <3>1, <3>2
  <2>0. (Opens(first) = "line" => At(first, lcBegin)) /\ (Opens(first) = "block" => At(first, bcBegin))
    BY DEF Opens
  <2> HIDE DEF first
  <2>4. /\ Good(e, upto) /\ Room(upto, 0) /\ upto.pos = first /\ upto.start = lx.start
        /\ upto.state = lx.state /\ upto.fate = "ok"
    <3>1. lx.start <= first
      BY <1>0, <2>2
    <3> QED
      BY <1>0, <2>2, <3>1, MoveGood
  <2> HIDE DEF upto
  <2>5. /\ Good(e, text) /\ Room(text, 1) /\ text.pos = first
        /\ text.fate = "ok" /\ text.start = first /\ text.state = lx.state
    <3>1. "Text" \in Types /\ "Text" # "EOF" /\ 0 \in 0..1
      BY DEF Types
    <3>2. upto.fate = "ok" /\ upto.state # "nil" /\ upto.start <= upto.pos /\ upto.pos <= Len(input)
          /\ upto.pos # Len(input)
      BY <1>0, <2>2, <2>4
    <3> QED
      BY <2>4, <3>1, <3>2, EmitGood
  <2> HIDE DEF text, k
  <2>6. /\ Good(e, over) /\ Room(over, 1) /\ over.pos = first + k /\ over.start = first
        /\ over.state = lx.state /\ over.fate = "ok"
    BY <2>3, <2>5, ForwardGood
  <2> HIDE DEF over
  <2>20. \E i \in DOMAIN (e \o sep.items) : (e \o sep.items)[i] = [typ |-> "Sep", from |-> first, to |-> first + k]
    <3>1. "Sep" \in Types /\ "Sep" # "EOF" /\ 1 \in 0..1
      BY DEF Types
    <3>2. over.state # "nil" /\ over.start < over.pos /\ over.pos <= Len(input)
      BY <1>0, <2>2, <2>3, <2>6
    <3>3. \E i \in DOMAIN (e \o sep.items) : (e \o sep.items)[i] = ItemOf(over, "Sep")
      BY <2>6, <3>1, <3>2, EmitSends
    <3> QED
      BY <2>6, <3>3 DEF ItemOf
  <2>7. /\ Good(e, sep) /\ Room(sep, 2) /\ sep.pos = first + k /\ sep.start = first + k
    <3>1. "Sep" \in Types /\ "Sep" # "EOF" /\ 1 \in 0..1 /\ 1 + 1 = 2
      BY DEF Types
    <3>2. over.fate = "ok" /\ over.state # "nil" /\ over.start <= over.pos /\ over.pos <= Len(input)
      BY <1>0, <2>2, <2>3, <2>6
    <3> QED
      BY <2>6, <3>1, <3>2, EmitGood
  <2> HIDE DEF sep
  <2> DEFINE s == [sep EXCEPT !.start = sep.pos]
  <2>8. sep \in Lexers
    BY <2>7 DEF Good
  <2>9. /\ s.state = sep.state /\ s.pos = sep.pos /\ s.items = sep.items /\ s.fate = sep.fate
        /\ s.closed = sep.closed
    BY <2>8 DEF Lexers
  <2>10. s.start = sep.start /\ s \in Lexers
    BY <2>7, <2>8 DEF Lexers
  <2> HIDE DEF s
  <2>11. Good(e, s) /\ Room(s, 2)
    BY <2>7, <2>9, <2>10 DEF Good, Room
  <2>12. /\ Then(s, Opens(first)).fate # "blocked" /\ Good(e, Then(s, Opens(first)))
         /\ Stands(e, Then(s, Opens(first)))
    <3> DEFINE state == Opens(first)
               lexed == Then(s, state)
    <3>1. state \in {"text", "string", "line", "block", "nil"}
      BY <2>3
    <3>2. state \notin {"nil", "returned"}
      BY <2>3
    <3> HIDE DEF state
    <3>3. /\ lexed.fate # "blocked" /\ Good(e, lexed) /\ lexed.state = state
          /\ lexed.pos = s.pos /\ lexed.start = s.start /\ lexed.items = s.items
      BY ZenonT(60), <2>11, <3>1, ThenGood
    <3> HIDE DEF lexed
    <3>4. PICK i \in DOMAIN (e \o lexed.items) :
            (e \o lexed.items)[i] = [typ |-> "Sep", from |-> first, to |-> first + k]
      BY <2>9, <2>20, <3>3
    <3>5. lexed.start = first + k /\ lexed.pos = first + k
      BY <2>7, <2>9, <2>10, <3>3
    <3>6. \A d : At(first, d) => OpenedBy(d, e \o lexed.items, lexed.start)
      BY <3>4, <3>5 DEF OpenedBy
    <3>7. Stands(e, lexed)
      BY <2>0, <3>2, <3>3, <3>5, <3>6 DEF Stands, state
    <3> QED
      BY <3>3, <3>7 DEF state, lexed
  <2> QED
    BY <2>1, <2>12 DEF s
<1> QED
  BY <1>0, <1>1, <1>2, <1>3, <1>4

(* The end of a string is not before where it begins.                       *)
LEMMA StringEndRange ==
  ASSUME NEW lx, lx.pos \in Nat, input \in Seq(Chars)
  PROVE  /\ StringEnd(lx) \in Nat /\ lx.pos <= StringEnd(lx)
         /\ Index(strBegin, lx.pos) # {} => StringEnd(lx) < Len(input)
<1>0. Len(input) \in Nat
  OBVIOUS
<1>1. CASE Index(strBegin, lx.pos) = {}
  BY <1>1 DEF StringEnd
<1>2. CASE Index(strBegin, lx.pos) # {}
  <2> DEFINE I == Index(strBegin, lx.pos)
             i == Min(I)
             J == {j \in i..(Len(input) - 1) : ~At(j + 1, strBegin)}
  <2>1. I \in SUBSET Nat /\ I \subseteq lx.pos..(Len(input) - 1)
    BY IndexRange
  <2>2. i \in I
    <3> HIDE DEF I
    <3> QED
      BY <1>2, <2>1, MinFacts DEF I
  <2>3. i \in Nat /\ lx.pos <= i /\ i <= Len(input) - 1
    BY <1>0, <2>1, <2>2
  <2>4. StringEnd(lx) = Min(J)
    BY <1>2 DEF StringEnd, RunEnd
  <2> HIDE DEF I, i
  <2>5. Len(input) - 1 \in J
    <3>1. Len(strBegin) = 1
      BY DEF strBegin
    <3>2. ~At((Len(input) - 1) + 1, strBegin)
      BY <1>0, <3>1 DEF At
    <3> QED
      BY <1>0, <2>3, <3>2
  <2>6. J \in SUBSET Nat /\ J \subseteq i..(Len(input) - 1)
    BY <1>0, <2>3
  <2> HIDE DEF J
  <2>7. Min(J) \in J
    BY <2>5, <2>6, MinFacts
  <2>8. Min(J) \in Nat /\ i <= Min(J) /\ Min(J) <= Len(input) - 1
    <3> DEFINE m == Min(J)
    <3>1. m \in i..(Len(input) - 1)
      BY <2>6, <2>7
    <3> HIDE DEF m
    <3>2. m \in Nat /\ i <= m /\ m <= Len(input) - 1
      BY <1>0, <2>3, <3>1
    <3> QED
      BY <3>2 DEF m
  <2>9. StringEnd(lx) \in Nat /\ i <= StringEnd(lx) /\ StringEnd(lx) <= Len(input) - 1
    BY <2>4, <2>8
  <2>10. lx.pos <= StringEnd(lx)
    BY <2>3, <2>9
  <2>11. StringEnd(lx) < Len(input)
    BY <1>0, <2>9
  <2> QED
    BY <2>9, <2>10, <2>11
<1> QED
  BY <1>1, <1>2

LEMMA StringGood ==
  ASSUME NEW e \in Seq(Item), NEW lx, Ready(e, lx), input \in Seq(Chars)
  PROVE  Good(e, lexString(lx)) /\ lexString(lx).fate # "blocked" /\ Stands(e, lexString(lx))
<1>0. /\ Good(e, lx) /\ Room(lx, 0) /\ lx.fate = "ok" /\ lx.state # "nil"
      /\ lx.start \in Nat /\ lx.pos \in Nat /\ lx.start <= lx.pos /\ Len(input) \in Nat
  BY ReadyFacts
<1> DEFINE end == StringEnd(lx)
           upto == [lx EXCEPT !.pos = end]
           string == emit(upto, "String")
           over == Forward(string, 1)
           sep == emit(over, "Sep")
<1>1. lexString(lx) = Then(sep, "text")
  BY DEF lexString
<1>2. end \in Nat /\ lx.start <= end
  <2>1. StringEnd(lx) \in Nat /\ lx.pos <= StringEnd(lx)
    BY <1>0, StringEndRange
  <2> QED
    BY <1>0, <2>1
<1> HIDE DEF end
<1>3. Good(e, upto) /\ Room(upto, 0)
  BY <1>0, <1>2, MoveGood
<1> HIDE DEF upto
<1>4. Good(e, string) /\ Room(string, 1)
  <2>1. "String" \in Types /\ "String" # "EOF" /\ 0 \in 0..1
    BY DEF Types
  <2> QED
    BY <1>3, <2>1, EmitGood
<1> HIDE DEF string
<1>5. Good(e, over) /\ Room(over, 1)
  BY <1>4, ForwardGood
<1> HIDE DEF over
<1>6. Good(e, sep) /\ Room(sep, 2)
  <2>1. "Sep" \in Types /\ "Sep" # "EOF" /\ 1 \in 0..1 /\ 1 + 1 = 2
    BY DEF Types
  <2> QED
    BY <1>5, <2>1, EmitGood
<1> HIDE DEF sep
<1>7. Good(e, Then(sep, "text")) /\ Then(sep, "text").fate # "blocked" /\ Then(sep, "text").state = "text"
  BY <1>6, ThenGood
<1> QED
  BY <1>1, <1>7 DEF Stands

(* A comment up to where it ends.                                           *)
LEMMA CommentGood ==
  ASSUME NEW e \in Seq(Item), NEW lx, Ready(e, lx), input \in Seq(Chars),
         NEW end \in Nat, lx.pos <= end, end < Len(input)
  PROVE  LET comment == emit([lx EXCEPT !.pos = end], "Comment") IN
         /\ Good(e, comment) /\ Room(comment, 1)
         /\ comment.pos = end /\ comment.start = end /\ comment.fate = "ok" /\ comment.state = lx.state
         /\ OpenedBy(lcBegin, e \o lx.items, lx.pos) /\ lx.start = lx.pos =>
              \E i \in DOMAIN (e \o comment.items) : Closes((e \o comment.items)[i], end)
<1>0. /\ Good(e, lx) /\ Room(lx, 0) /\ lx.fate = "ok" /\ lx.state # "nil"
      /\ lx.start \in Nat /\ lx.pos \in Nat /\ lx.start <= lx.pos /\ Len(input) \in Nat
  BY ReadyFacts
<1> DEFINE upto == [lx EXCEPT !.pos = end]
<1>1. /\ Good(e, upto) /\ Room(upto, 0) /\ upto.pos = end /\ upto.start = lx.start
      /\ upto.state = lx.state /\ upto.fate = "ok" /\ upto.items = lx.items
  <2>1. lx.start <= end
    BY <1>0
  <2> QED
    BY <1>0, <2>1, MoveGood
<1> HIDE DEF upto
<1>2. "Comment" \in Types /\ "Comment" # "EOF" /\ 0 \in 0..1 /\ 0 + 1 = 1
  BY DEF Types
<1>3. upto.fate = "ok" /\ upto.state # "nil" /\ upto.start <= upto.pos /\ upto.pos <= Len(input)
      /\ upto.pos # Len(input)
  BY <1>0, <1>1
<1>4. LET comment == emit(upto, "Comment") IN
         /\ Good(e, comment) /\ Room(comment, 1)
         /\ comment.pos = end /\ comment.start = end /\ comment.fate = "ok" /\ comment.state = lx.state
  BY <1>1, <1>2, <1>3, EmitGood
<1>5. ASSUME OpenedBy(lcBegin, e \o lx.items, lx.pos), lx.start = lx.pos
      PROVE  LET comment == emit(upto, "Comment") IN
             \E i \in DOMAIN (e \o comment.items) : Closes((e \o comment.items)[i], end)
  <2> DEFINE comment == emit(upto, "Comment")
  <2>1. CASE lx.pos = end
    <3>1. upto \in Lexers /\ upto.start = upto.pos /\ Len(upto.items) <= 1
      BY <1>0, <1>1, <1>5, <2>1 DEF Good, Room, Lexers
    <3>2. comment.items = lx.items
      BY <1>1, <1>2, <1>3, <3>1, EmitFields
    <3> HIDE DEF comment
    <3> QED
      BY <1>5, <2>1, <3>2 DEF OpenedBy, Closes, comment
  <2>2. CASE lx.pos < end
    <3>1. upto.start < upto.pos
      BY <1>0, <1>1, <1>5, <2>2
    <3>2. \E i \in DOMAIN (e \o comment.items) : (e \o comment.items)[i] = ItemOf(upto, "Comment")
      BY <1>1, <1>2, <1>3, <3>1, EmitSends
    <3>3. Closes(ItemOf(upto, "Comment"), end)
      BY <1>1 DEF Closes, ItemOf
    <3> HIDE DEF comment
    <3> QED
      BY <3>2, <3>3 DEF comment
  <2> QED
    BY <1>0, <2>1, <2>2
<1> QED
  BY <1>4, <1>5 DEF upto

(* A comment that does not end, at the end of the text or before it.        *)
LEMMA AtEndGood ==
  ASSUME NEW e \in Seq(Item), NEW lx, Ready(e, lx), input \in Seq(Chars), lx.start = lx.pos,
         lx.pos >= Len(input)
  PROVE  LET s == Then(emit(lx, "EOF"), "nil") IN
         Good(e, s) /\ s.fate # "blocked" /\ Stands(e, s)
<1> DEFINE eof == emit(lx, "EOF")
           s == Then(eof, "nil")
<1>0. /\ Good(e, lx) /\ Room(lx, 0) /\ lx.fate = "ok" /\ lx.state # "nil"
      /\ lx.start \in Nat /\ lx.pos \in Nat /\ lx.start <= lx.pos /\ Len(input) \in Nat
  BY ReadyFacts
<1>1. "EOF" \in Types /\ 0 \in 0..1
  BY DEF Types
<1>2. lx.start <= Len(input)
  BY <1>0 DEF Good
<1>3. lx.pos = Len(input)
  BY <1>0, <1>2
<1>4. Good(e, eof) /\ Room(eof, 0 + 1) /\ eof.start = Len(input)
  BY <1>0, <1>1, <1>2, <1>3, EmitGood
<1> HIDE DEF eof
<1>5. Good(e, s) /\ s.fate # "blocked" /\ s.state = "nil" /\ s.start = Len(input)
  <2>1. "nil" \in {"text", "string", "line", "block", "nil"}
    OBVIOUS
  <2>2. LET r == Then(eof, "nil") IN
        Good(e, r) /\ r.fate # "blocked" /\ r.start = eof.start /\ r.state = "nil"
    BY ZenonT(30), <1>4, <2>1, ThenGood
  <2> QED
    BY <1>4, <2>2
<1> HIDE DEF s
<1> QED
  BY <1>5 DEF Stands, s, eof

LEMMA UnendedGood ==
  ASSUME NEW e \in Seq(Item), NEW lx, Ready(e, lx), input \in Seq(Chars), lx.start = lx.pos,
         ~(lx.pos >= Len(input)), LeftOpen(e \o lx.items, lx.start)
  PROVE  LET s == Then(emit(lx, "Error"), "nil") IN
         Good(e, s) /\ s.fate # "blocked" /\ Stands(e, s)
<1> DEFINE error == emit(lx, "Error")
           s == Then(error, "nil")
<1>0. /\ Good(e, lx) /\ Room(lx, 0) /\ lx.fate = "ok" /\ lx.state # "nil" /\ lx \in Lexers
      /\ lx.start \in Nat /\ lx.pos \in Nat /\ lx.start <= lx.pos /\ Len(input) \in Nat
  BY ReadyFacts DEF Good
<1>1. "Error" \in Types /\ "Error" # "EOF" /\ 0 \in 0..1
  BY DEF Types
<1>2. Good(e, error) /\ Room(error, 0 + 1)
  BY <1>0, <1>1, EmitGood
<1>3. error.start = lx.start /\ error.items = lx.items
  <2>1. Len(lx.items) <= 1
    BY <1>0 DEF Room, Good, Lexers
  <2>2. lx.pos <= Len(input) /\ lx.pos # Len(input)
    BY <1>0
  <2> QED
    BY <1>0, <1>1, <2>1, <2>2, EmitFields
<1> HIDE DEF error
<1>4. Good(e, s) /\ s.fate # "blocked" /\ s.state = "nil" /\ s.start = lx.start /\ s.items = lx.items
  <2>1. "nil" \in {"text", "string", "line", "block", "nil"}
    OBVIOUS
  <2>2. LET r == Then(error, "nil") IN
        /\ Good(e, r) /\ r.fate # "blocked"
        /\ r.start = error.start /\ r.state = "nil" /\ r.items = error.items
    BY <1>2, <2>1, ThenGood
  <2> QED
    BY <1>3, <2>2
<1> HIDE DEF s
<1> QED
  BY <1>4 DEF Stands, s, error

(* Lex adds a line end to a text without one.                               *)
LineEnded == Len(input) > 0 /\ input[Len(input)] = "newline"

LEMMA LineGood ==
  ASSUME NEW e \in Seq(Item), NEW lx, Ready(e, lx), input \in Seq(Chars), LineEnded,
         lx.state = "line", Stands(e, lx)
  PROVE  Good(e, lexLineComment(lx)) /\ lexLineComment(lx).fate # "blocked" /\ Stands(e, lexLineComment(lx))
<1>0. lx.pos \in Nat /\ Len(input) \in Nat /\ lx.fate = "ok"
  BY ReadyFacts
<1>10. lx.start = lx.pos /\ OpenedBy(lcBegin, e \o lx.items, lx.start)
  BY <1>0 DEF Stands
<1>1. CASE lx.pos >= Len(input)
  BY <1>1, <1>10, AtEndGood DEF lexLineComment
<1>2. CASE ~(lx.pos >= Len(input)) /\ Index(lcEnd, lx.pos) = {}
  <2> DEFINE last == Len(input) - 1
  <2>1. Len(lcEnd) = 1 /\ lcEnd[1] = "newline"
    BY DEF lcEnd
  <2>2. last \in lx.pos..(Len(input) - 1) /\ last + 1 = Len(input)
    BY <1>0, <1>2 DEF LineEnded
  <2>3. At(last, lcEnd)
    BY <1>0, <2>1, <2>2 DEF At, LineEnded
  <2> QED
    BY <1>2, <2>1, <2>2, <2>3 DEF Index
<1>3. CASE ~(lx.pos >= Len(input)) /\ Index(lcEnd, lx.pos) # {}
  <2> DEFINE end == Min(Index(lcEnd, lx.pos))
             comment == emit([lx EXCEPT !.pos = end], "Comment")
             over == Forward(comment, 1)
             s == SkipLineEnd(comment)
  <2>1. lexLineComment(lx) = Then(CheckStart(s), "text")
    BY <1>3 DEF lexLineComment
  <2>2. end \in Nat /\ lx.pos <= end /\ end < Len(input) /\ At(end, lcEnd)
    <3> DEFINE I == Index(lcEnd, lx.pos)
    <3>1. I \in SUBSET Nat /\ I \subseteq lx.pos..(Len(input) - 1)
      BY <1>0, IndexRange
    <3>2. \A i \in I : At(i, lcEnd)
      BY DEF Index
    <3> HIDE DEF I
    <3>3. Min(I) \in I
      BY <1>3, <3>1, MinFacts DEF I
    <3> DEFINE m == Min(I)
    <3>4. m \in lx.pos..(Len(input) - 1)
      BY <3>1, <3>3
    <3>5. At(m, lcEnd)
      BY <3>2, <3>3
    <3> HIDE DEF m
    <3>6. m \in Nat /\ lx.pos <= m /\ m < Len(input)
      BY <1>0, <3>4
    <3> QED
      BY <3>5, <3>6 DEF m, I
  <2> HIDE DEF end
  <2>3. /\ Good(e, comment) /\ Room(comment, 1)
        /\ comment.pos = end /\ comment.start = end /\ comment.fate = "ok"
        /\ \E i \in DOMAIN (e \o comment.items) : Closes((e \o comment.items)[i], end)
    BY <1>10, <2>2, CommentGood
  <2>4. s = [over EXCEPT !.start = over.start + 1]
    BY DEF SkipLineEnd
  <2> HIDE DEF comment, s
  <2>5. /\ Good(e, over) /\ Room(over, 1) /\ over.pos = end + 1 /\ over.start = end
        /\ over.fate = "ok" /\ \E i \in DOMAIN (e \o over.items) : Closes((e \o over.items)[i], end)
    <3>1. /\ Good(e, over) /\ Room(over, 1) /\ over.pos = end + 1 /\ over.start = end
          /\ over.fate = "ok" /\ over.items = comment.items
      BY SMTT(30), <2>3, ForwardGood
    <3> HIDE DEF over
    <3> QED
      BY <2>3, <3>1
  <2> HIDE DEF over
  <2>6. over \in Lexers /\ over.start + 1 \in Nat
    BY <2>2, <2>5 DEF Good
  <2>7. s \in Lexers
    BY <2>4, <2>6 DEF Lexers
  <2>8. /\ s.state = over.state /\ s.pos = over.pos /\ s.items = over.items /\ s.fate = over.fate
        /\ ~s.closed
    <3>1. over.closed => over.start = Len(input)
      BY <2>5 DEF Good
    <3>2. ~over.closed
      BY <1>0, <2>2, <2>5, <3>1
    <3> QED
      BY <2>4, <2>6, <3>2 DEF Lexers
  <2>9. s.start = end + 1
    BY <2>4, <2>5, <2>6 DEF Lexers
  <2>10. Covers(e \o s.items, end + 1)
    <3>1. Covers(e \o s.items, end)
      BY <2>5, <2>8 DEF Good
    <3>2. \A p \in 0..((end + 1) - 1) : p \in 0..(end - 1) \/ p = end
      BY <2>2
    <3>3. \E i \in DOMAIN (e \o s.items) : Closes((e \o s.items)[i], end)
      BY <2>5, <2>8
    <3> QED
      BY <2>2, <3>1, <3>2, <3>3 DEF Covers
  <2>11. InOrder(e \o s.items) /\ UpTo(e \o s.items, end + 1)
    <3>1. InOrder(e \o s.items) /\ UpTo(e \o s.items, end) /\ e \o s.items \in Seq(Item)
      BY <2>5, <2>6, <2>8 DEF Good, Lexers
    <3>2. PICK f \in Seq(Item) : f = e \o s.items
      BY <3>1
    <3>3. ASSUME NEW i \in DOMAIN f PROVE f[i].to \in Nat
      <4>1. f[i] \in Item
        OBVIOUS
      <4> QED
        BY <4>1 DEF Item
    <3>4. UpTo(f, end + 1)
      BY <2>2, <3>1, <3>2, <3>3 DEF UpTo
    <3> QED
      BY <3>1, <3>2, <3>4
  <2>12. Good(e, s) /\ Room(s, 1)
    <3>1. Len(s.items) <= 3 /\ end + 1 <= Len(input)
      BY <1>0, <2>2, <2>5, <2>8 DEF Good
    <3>2. Room(s, 1)
      BY <2>5, <2>8 DEF Room
    <3> QED
      BY <2>2, <2>5, <2>7, <2>8, <2>9, <2>10, <2>11, <3>1, <3>2 DEF Good
  <2>13. CheckStart(s) = s
    BY <2>2, <2>5, <2>8, <2>9 DEF CheckStart
  <2> HIDE DEF s
  <2>14. Good(e, Then(s, "text")) /\ Then(s, "text").fate # "blocked" /\ Then(s, "text").state = "text"
    BY SMTT(30), <2>12, ThenGood
  <2> QED
    BY <2>1, <2>13, <2>14 DEF Stands
<1> QED
  BY <1>1, <1>2, <1>3

LEMMA BlockGood ==
  ASSUME NEW e \in Seq(Item), NEW lx, Ready(e, lx), input \in Seq(Chars),
         lx.state = "block", Stands(e, lx)
  PROVE  /\ Good(e, lexBlockComment(lx)) /\ lexBlockComment(lx).fate # "blocked"
         /\ Stands(e, lexBlockComment(lx))
<1>0. lx.pos \in Nat /\ Len(input) \in Nat /\ lx.fate = "ok"
  BY ReadyFacts
<1>10. lx.start = lx.pos /\ OpenedBy(bcBegin, e \o lx.items, lx.start)
  BY <1>0 DEF Stands
<1>1. CASE lx.pos >= Len(input)
  BY <1>1, <1>10, AtEndGood DEF lexBlockComment
<1>2. CASE ~(lx.pos >= Len(input)) /\ Index(bcEnd, lx.pos) = {}
  <2>1. LeftOpen(e \o lx.items, lx.start)
    BY <1>2, <1>10 DEF LeftOpen
  <2> QED
    BY <1>2, <1>10, <2>1, UnendedGood DEF lexBlockComment
<1>3. CASE ~(lx.pos >= Len(input)) /\ Index(bcEnd, lx.pos) # {}
  <2> DEFINE end == Min(Index(bcEnd, lx.pos))
             comment == emit([lx EXCEPT !.pos = end], "Comment")
             closing == Forward(comment, 2)
             sep == emit(closing, "Sep")
             s == Forward(sep, 2)
  <2>1. lexBlockComment(lx) = Then(CheckStart(s), "text")
    BY <1>3 DEF lexBlockComment
  <2>2. end \in Nat /\ lx.pos <= end /\ end < Len(input)
    <3> DEFINE I == Index(bcEnd, lx.pos)
    <3>1. I \in SUBSET Nat /\ I \subseteq lx.pos..(Len(input) - 2)
      BY <1>0, IndexRange
    <3> HIDE DEF I
    <3>2. Min(I) \in I
      BY <1>3, <3>1, MinFacts DEF I
    <3> DEFINE m == Min(I)
    <3>3. m \in lx.pos..(Len(input) - 2)
      BY <3>1, <3>2
    <3> HIDE DEF m
    <3>4. m \in Nat /\ lx.pos <= m /\ m < Len(input)
      BY <1>0, <3>3
    <3> QED
      BY <3>4 DEF m, I
  <2> HIDE DEF end
  <2>3. Good(e, comment) /\ Room(comment, 1)
    BY <2>2, CommentGood
  <2> HIDE DEF comment
  <2>4. Good(e, closing) /\ Room(closing, 1)
    BY <2>3, ForwardGood
  <2> HIDE DEF closing
  <2>5. Good(e, sep) /\ Room(sep, 2)
    <3>1. "Sep" \in Types /\ "Sep" # "EOF" /\ 1 \in 0..1 /\ 1 + 1 = 2
      BY DEF Types
    <3> QED
      BY <2>4, <3>1, EmitGood
  <2> HIDE DEF sep
  <2>6. Good(e, s) /\ Room(s, 2)
    BY <2>5, ForwardGood
  <2> HIDE DEF s
  <2>7. CheckStart(s) = s
    <3>1. s.start \in Nat /\ s.pos \in Nat /\ (s.fate = "ok" => s.start <= s.pos)
      BY <2>6 DEF Good, Lexers
    <3> QED
      BY <3>1 DEF CheckStart
  <2>8. Good(e, Then(s, "text")) /\ Then(s, "text").fate # "blocked" /\ Then(s, "text").state = "text"
    BY <2>6, ThenGood
  <2> QED
    BY <2>1, <2>7, <2>8 DEF Stands
<1> QED
  BY <1>1, <1>2, <1>3

-----------------------------------------------------------------------------
(* The invariant.                                                           *)

DocsType ==
  /\ buf \in Seq(Nat)
  /\ DOMAIN docs \subseteq Names \cup {Package}
  /\ \A n \in DOMAIN docs : docs[n] \in Seq(Nat)
  /\ annotations \in Seq(Nat)

(* What is yielded and sent is in order and complete all the time; the end  *)
(* may be yielded before the text is over, after an error, and is the last. *)
ItemsInv ==
  /\ InOrder(Emitted)
  /\ l.state # "returned" => UpTo(Emitted, l.start)
  /\ l.fate = "ok" => /\ l.start <= l.pos /\ Covers(Emitted, l.start)
                      /\ l.closed => l.start = Len(input)
  /\ Stands(out, l)

IInv == LexerTypeOK /\ LineEnded /\ DocsType /\ ItemsInv /\ NeverBlocks

LEMMA InitInv == DocsInit => IInv
<1> SUFFICES ASSUME DocsInit PROVE IInv
  OBVIOUS
<1>1. input \in Seq(Chars)
  <2>1. PICK s \in Texts : input = WithLineEnd(s)
    BY DEF DocsInit, Init
  <2>2. s \in Seq(Chars) /\ "newline" \in Chars
    BY LexerAssumption DEF Chars, Special
  <2> QED
    BY <2>1, <2>2 DEF WithLineEnd
<1>9. LineEnded
  <2>1. PICK s \in Texts : input = WithLineEnd(s)
    BY DEF DocsInit, Init
  <2>2. s \in Seq(Chars)
    BY LexerAssumption
  <2>3. CASE s # <<>> /\ s[Len(s)] = "newline"
    <3>1. input = s /\ Len(s) > 0
      BY <2>1, <2>2, <2>3 DEF WithLineEnd
    <3> QED
      BY <2>3, <3>1 DEF LineEnded
  <2>4. CASE ~(s # <<>> /\ s[Len(s)] = "newline")
    <3>1. input = Append(s, "newline")
      BY <2>1, <2>4 DEF WithLineEnd
    <3>2. PICK n \in Nat : n = Len(s)
      BY <2>2
    <3>3. Len(input) = n + 1 /\ input[n + 1] = "newline"
      BY <2>2, <3>1, <3>2
    <3> QED
      BY <3>3 DEF LineEnded
  <2> QED
    BY <2>3, <2>4
<1>2. /\ l = [state |-> "text", start |-> 0, pos |-> 0, items |-> <<>>, closed |-> FALSE, fate |-> "ok"]
      /\ out = <<>> /\ buf = <<>> /\ docs = NoDocs /\ annotations = <<>>
  BY DEF DocsInit, Init
<1>3. /\ l.start = 0 /\ l.pos = 0 /\ l.items = <<>> /\ l.fate = "ok" /\ l.state = "text" /\ ~l.closed
  BY <1>2
<1>4. l \in Lexers
  BY <1>2 DEF Lexers
<1>5. LexerTypeOK
  <2>1. Len(input) \in Nat /\ Len(<<>>) <= 3 /\ 0 <= Len(input)
    BY <1>1
  <2> QED
    BY <1>1, <1>2, <1>3, <1>4, <2>1 DEF LexerTypeOK
<1>6. DocsType
  BY <1>2 DEF DocsType, NoDocs
<1>7. Emitted = <<>>
  BY <1>2, <1>3 DEF Emitted
<1>8. ItemsInv
  <2>1. InOrder(<<>>) /\ UpTo(<<>>, 0) /\ Covers(<<>>, 0)
    BY DEF InOrder, UpTo, Covers
  <2>2. Stands(out, l)
    BY <1>3 DEF Stands
  <2> QED
    BY <1>3, <1>7, <2>1, <2>2 DEF ItemsInv
<1> QED
  BY <1>3, <1>5, <1>6, <1>8, <1>9 DEF IInv, NeverBlocks

(* What holds between the steps is what a state function begins from, and   *)
(* what it ends with is what holds.                                        *)
LEMMA InvReady ==
  ASSUME IInv, Running, l.items = <<>>, l.state # "nil"
  PROVE  Ready(out, l) /\ Stands(out, l) /\ out \in Seq(Item) /\ input \in Seq(Chars) /\ LineEnded
BY DEF IInv, LexerTypeOK, ItemsInv, Emitted, Running, Ready, Good

LEMMA ItemsStay ==
  ASSUME input' = input, InOrder(Emitted'), l'.state # "returned" => UpTo(Emitted', l'.start),
         l'.fate = "ok" => /\ l'.start <= l'.pos /\ Covers(Emitted', l'.start)
                           /\ l'.closed => l'.start = Len(input),
         Stands(out', l')
  PROVE  ItemsInv'
<1>1. InOrder(Emitted)'
  BY DEF InOrder
<1>2. UpTo(Emitted', l'.start) => UpTo(Emitted, l.start)'
  BY DEF UpTo, Fits
<1>3. Covers(Emitted', l'.start) => Covers(Emitted, l.start)'
  BY DEF Covers, Closes, Inside, At, lcEnd, lcBegin
<1>4. Stands(out, l)'
  BY DEF Stands, OpenedBy, LeftOpen, Index, At, lcBegin, bcBegin, bcEnd
<1> QED
  BY <1>1, <1>2, <1>3, <1>4 DEF ItemsInv

LEMMA LexInv ==
  ASSUME IInv, Lex, UNCHANGED docVars
  PROVE  IInv'
<1>1. /\ Running /\ l.items = <<>> /\ l.state \in {"text", "string", "line", "block"}
      /\ UNCHANGED <<input, out>>
      /\ \/ l.state = "text" /\ l' = lexText(l)
         \/ l.state = "string" /\ l' = lexString(l)
         \/ l.state = "line" /\ l' = lexLineComment(l)
         \/ l.state = "block" /\ l' = lexBlockComment(l)
  BY DEF Lex, Step
<1>2. Ready(out, l) /\ Stands(out, l) /\ out \in Seq(Item) /\ input \in Seq(Chars) /\ LineEnded
  BY <1>1, InvReady
<1>3. Good(out, l') /\ l'.fate # "blocked" /\ Stands(out, l')
  BY <1>1, <1>2, TextGood, StringGood, LineGood, BlockGood
<1>4. PICK lx \in Lexers : lx = l' /\ Good(out, lx) /\ lx.fate # "blocked" /\ Stands(out, lx)
  BY <1>3 DEF Good
<1>5. LexerTypeOK'
  BY <1>1, <1>2, <1>4 DEF LexerTypeOK, Good
<1>6. DocsType'
  BY DEF IInv, DocsType, docVars
<1>7. ItemsInv'
  <2>1. Emitted' = out \o lx.items
    BY <1>1, <1>4 DEF Emitted
  <2>2. /\ InOrder(Emitted') /\ UpTo(Emitted', l'.start)
        /\ l'.fate = "ok" => /\ l'.start <= l'.pos /\ Covers(Emitted', l'.start)
                             /\ l'.closed => l'.start = Len(input)
    BY <1>4, <2>1 DEF Good
  <2> QED
    BY <1>1, <1>4, <2>2, ItemsStay
<1>8. NeverBlocks'
  BY <1>4 DEF NeverBlocks
<1>9. LineEnded'
  BY <1>1, <1>2 DEF LineEnded
<1> QED
  BY <1>5, <1>6, <1>7, <1>8, <1>9 DEF IInv

(* An item that is received was sent.                                       *)
LEMMA HeadOut ==
  ASSUME NEW e \in Seq(Item), NEW s \in Seq(Item), s # <<>>
  PROVE  /\ Head(s) \in Item /\ Tail(s) \in Seq(Item) /\ Len(Tail(s)) <= Len(s)
         /\ Append(e, Head(s)) \in Seq(Item)
         /\ Append(e, Head(s)) \o Tail(s) = e \o s
<1>1. PICK k \in Nat, n \in Nat : k = Len(e) /\ n = Len(s)
  OBVIOUS
<1>2. n > 0
  BY <1>1
<1>3. Head(s) \in Item /\ Tail(s) \in Seq(Item) /\ Len(Tail(s)) = n - 1 /\ Append(e, Head(s)) \in Seq(Item)
  BY <1>1
<1>4. /\ Append(e, Head(s)) \o Tail(s) \in Seq(Item) /\ e \o s \in Seq(Item)
      /\ Len(Append(e, Head(s)) \o Tail(s)) = k + n /\ Len(e \o s) = k + n
  BY <1>1, <1>2, <1>3
<1>5. ASSUME NEW i \in 1..(k+n) PROVE (Append(e, Head(s)) \o Tail(s))[i] = (e \o s)[i]
  <2>1. CASE i <= k
    BY <1>1, <1>3, <2>1
  <2>2. CASE i = k + 1
    BY <1>1, <1>2, <1>3, <2>2
  <2>3. CASE i > k + 1
    <3>1. i - (k + 1) \in 1..(n-1) /\ (i - (k + 1)) + 1 = i - k /\ i - k \in 1..n
      BY <1>1, <2>3
    <3>2. Tail(s)[i - (k + 1)] = s[i - k]
      BY <1>1, <1>2, <3>1
    <3>3. (e \o s)[i] = s[i - k]
      BY <1>1, <2>3
    <3>4. (Append(e, Head(s)) \o Tail(s))[i] = Tail(s)[i - (k + 1)]
      BY <1>1, <1>3, <2>3
    <3> QED
      BY <3>2, <3>3, <3>4
  <2> QED
    BY <1>1, <2>1, <2>2, <2>3
<1>6. Append(e, Head(s)) \o Tail(s) = e \o s
  BY <1>4, <1>5, SeqEqual
<1>7. Len(Tail(s)) <= Len(s)
  BY <1>1, <1>3
<1> QED
  BY <1>3, <1>6, <1>7

LEMMA ReceiveInv ==
  ASSUME IInv, NEW goesOn, Receive(goesOn)
  PROVE  LexerTypeOK' /\ LineEnded' /\ ItemsInv' /\ NeverBlocks'
<1> DEFINE item == Head(l.items)
           state == AfterItem(item, goesOn)
           rest == [l EXCEPT !.items = Tail(l.items), !.state = state]
<1>0. /\ input \in Seq(Chars) /\ l \in Lexers /\ l.start <= Len(input) /\ Len(l.items) <= 3
      /\ out \in Seq(Item) /\ l.items \in Seq(Item) /\ l.items # <<>>
      /\ l.fate = "ok" /\ l.state # "returned"
  BY DEF IInv, LexerTypeOK, Lexers, Receive, Running
<1>1. input' = input /\ out' = Append(out, item) /\ l' = rest
  BY DEF Receive
<1>2. /\ Tail(l.items) \in Seq(Item) /\ Len(Tail(l.items)) <= Len(l.items) /\ out' \in Seq(Item)
      /\ out' \o Tail(l.items) = Emitted
  BY <1>0, <1>1, HeadOut DEF Emitted
<1>3. state \in {"text", "string", "line", "block", "nil", "returned", "stopped"}
  BY <1>0 DEF AfterItem, Lexers
<1> HIDE DEF state
<1>4. rest \in Lexers
  BY <1>0, <1>2, <1>3 DEF Lexers
<1>5. rest.start = l.start /\ rest.pos = l.pos /\ rest.fate = l.fate /\ rest.closed = l.closed
  BY <1>0 DEF Lexers
<1>6. rest.items = Tail(l.items) /\ rest.state = state
  BY <1>0, <1>2, <1>3 DEF Lexers
<1> HIDE DEF rest
<1>7. LexerTypeOK'
  <2>0. Len(Tail(l.items)) \in Nat /\ Len(l.items) \in Nat
    BY <1>0, <1>2
  <2>1. PICK k \in Nat, n \in Nat : k = Len(Tail(l.items)) /\ n = Len(l.items)
    BY <2>0
  <2>2. k <= n /\ n <= 3
    BY <1>0, <1>2, <2>1
  <2>3. k <= 3
    BY <2>2
  <2>4. Len(rest.items) <= 3
    BY <1>6, <2>1, <2>3
  <2> QED
    BY <1>0, <1>1, <1>2, <1>4, <1>5, <2>4 DEF LexerTypeOK
<1>8. Emitted' = Emitted
  BY <1>1, <1>2, <1>6 DEF Emitted
<1>9. ItemsInv'
  <2>1. /\ InOrder(Emitted) /\ UpTo(Emitted, l.start) /\ Stands(out, l)
        /\ l.start <= l.pos /\ Covers(Emitted, l.start) /\ (l.closed => l.start = Len(input))
    BY <1>0 DEF IInv, ItemsInv
  <2>2. ASSUME item.typ = "EOF" PROVE l.start = Len(input)
    <3>1. PICK i \in DOMAIN Emitted : Emitted[i] = item
      <4>1. PICK k \in Nat, n \in Nat : k = Len(out) /\ n = Len(l.items) /\ n > 0
        BY <1>0
      <4>2. k + 1 \in DOMAIN (out \o l.items) /\ (out \o l.items)[k + 1] = l.items[1]
        BY <1>0, <4>1
      <4> QED
        BY SMTT(20), <1>0, <4>1, <4>2 DEF Emitted
    <3>2. item.to = Len(input) /\ item.to <= l.start
      BY <2>1, <2>2, <3>1 DEF UpTo, Fits
    <3>3. l.start \in Nat /\ Len(input) \in Nat
      BY <1>0 DEF Lexers
    <3> QED
      BY <1>0, <3>2, <3>3
  <2>3. /\ state \in {"line", "block", "nil"} => l.state = state
        /\ state = "returned" => item.typ = "EOF"
    BY <1>0 DEF AfterItem, state, Lexers
  <2>4. Stands(out', rest)
    BY <1>0, <1>1, <1>5, <1>6, <1>8, <2>1, <2>2, <2>3 DEF Stands, Emitted
  <2>5. InOrder(Emitted') /\ UpTo(Emitted', rest.start) /\ Covers(Emitted', rest.start)
    BY <1>5, <1>8, <2>1
  <2> QED
    BY <1>1, <1>5, <2>1, <2>4, <2>5, ItemsStay
<1>10. NeverBlocks' /\ LineEnded'
  BY <1>0, <1>1, <1>5 DEF NeverBlocks, LineEnded, IInv
<1> QED
  BY <1>7, <1>9, <1>10

LEMMA FinishInv ==
  ASSUME IInv, Finish, UNCHANGED docVars
  PROVE  IInv'
<1> DEFINE over == [l EXCEPT !.state = "returned"]
<1>0. /\ input \in Seq(Chars) /\ l \in Lexers /\ l.start <= Len(input) /\ Len(l.items) <= 3
      /\ out \in Seq(Item) /\ l.items = <<>> /\ l.fate = "ok" /\ l.state # "returned"
      /\ l.start \in Nat /\ Len(input) \in Nat
  BY DEF IInv, LexerTypeOK, Lexers, Finish, Running
<1>1. input' = input /\ out' = Append(out, EOFItem) /\ l' = over
  BY DEF Finish
<1>2. over \in Lexers
  BY <1>0 DEF Lexers
<1>3. /\ over.start = l.start /\ over.pos = l.pos /\ over.fate = "ok" /\ over.items = <<>>
      /\ over.state = "returned" /\ over.closed = l.closed
  BY <1>0 DEF Lexers
<1> HIDE DEF over
<1>4. EOFItem \in Item /\ EOFItem.from = Len(input) /\ EOFItem.to = Len(input) /\ Fits(EOFItem)
  BY <1>0 DEF EOFItem, Item, Fits
<1>5. LexerTypeOK'
  BY <1>0, <1>1, <1>2, <1>3, <1>4 DEF LexerTypeOK
<1>6. Emitted = out /\ Emitted' = Append(out, EOFItem)
  BY <1>0, <1>1, <1>3, <1>4 DEF Emitted
<1>7. /\ InOrder(out) /\ UpTo(out, l.start) /\ Covers(out, l.start) /\ l.start <= l.pos
      /\ l.closed => l.start = Len(input)
      /\ l.start = Len(input) \/ LeftOpen(out, l.start)
  <2>1. l.closed \/ l.state = "nil"
    BY DEF Finish
  <2>2. out \o l.items = out
    BY <1>0, <1>6 DEF Emitted
  <2> QED
    BY <1>0, <1>6, <2>1, <2>2 DEF IInv, ItemsInv, Stands
<1>8. InOrder(Append(out, EOFItem))
  <2>1. EOFItem.from <= EOFItem.to /\ l.start <= EOFItem.from
    BY <1>0, <1>4
  <2> QED
    BY <1>0, <1>4, <1>7, <2>1, ItemsOrder
<1>9. Covers(Append(out, EOFItem), l.start) /\ (LeftOpen(out, l.start) => LeftOpen(Append(out, EOFItem), l.start))
  <2>0. out \in Seq(Item) /\ EOFItem \in Item
    BY <1>0, <1>4
  <2>1. PICK f : f = Append(out, EOFItem)
    OBVIOUS
  <2>2. \A i \in DOMAIN out : i \in DOMAIN f /\ f[i] = out[i]
    <3>1. PICK k \in Nat : k = Len(out)
      BY <2>0
    <3>2. DOMAIN out = 1..k /\ DOMAIN f = 1..(k+1) /\ \A i \in 1..k : f[i] = out[i]
      BY <2>0, <2>1, <3>1
    <3> QED
      BY <3>2
  <2>3. Covers(f, l.start)
    <3> SUFFICES ASSUME NEW p \in 0..(l.start - 1)
                 PROVE  \/ \E i \in DOMAIN f : p \in Inside(f[i])
                        \/ At(p, lcEnd) /\ \E i \in DOMAIN f : Closes(f[i], p)
      BY DEF Covers
    <3> QED
      BY <1>7, <2>2 DEF Covers
  <2>4. LeftOpen(out, l.start) => LeftOpen(f, l.start)
    BY <2>2 DEF LeftOpen, OpenedBy
  <2> QED
    BY <2>1, <2>3, <2>4
<1>10. ItemsInv'
  <2>1. Stands(out', over)
    <3>1. out' \o over.items = out'
      BY <1>1, <1>3, <1>6 DEF Emitted
    <3> QED
      BY <1>1, <1>3, <1>7, <1>9, <3>1 DEF Stands
  <2> QED
    BY <1>1, <1>3, <1>6, <1>7, <1>8, <1>9, <2>1, ItemsStay
<1>11. DocsType' /\ NeverBlocks' /\ LineEnded'
  BY <1>1, <1>3 DEF IInv, DocsType, docVars, NeverBlocks, LineEnded
<1> QED
  BY <1>5, <1>10, <1>11 DEF IInv

(* The positions of an item.                                                *)
LEMMA PositionsType ==
  ASSUME NEW item \in Item
  PROVE  Positions(item) \in Seq(Nat)
<1>1. item.from \in Nat /\ item.to \in Nat
  BY DEF Item
<1>2. PICK n \in Nat : 1..(item.to - item.from) = 1..n
  <2>1. CASE item.to >= item.from
    BY <1>1, <2>1
  <2>2. CASE item.to < item.from
    <3>1. 1..(item.to - item.from) = 1..0
      BY <1>1, <2>2
    <3> QED
      BY <3>1
  <2> QED
    BY <1>1, <2>1, <2>2
<1>3. \A i \in 1..n : item.from + i - 1 \in Nat
  BY <1>1
<1>4. Positions(item) = [i \in 1..n |-> item.from + i - 1]
  BY <1>2 DEF Positions
<1> QED
  BY <1>3, <1>4

LEMMA TakeInv ==
  ASSUME IInv, TakeItem
  PROVE  IInv'
<1> DEFINE item == Head(l.items)
<1>0. /\ l.items \in Seq(Item) /\ l.items # <<>> /\ buf \in Seq(Nat) /\ annotations \in Seq(Nat)
      /\ DOMAIN docs \subseteq Names \cup {Package} /\ \A n \in DOMAIN docs : docs[n] \in Seq(Nat)
  BY DEF IInv, LexerTypeOK, Lexers, DocsType, TakeItem, Receive
<1>1. item \in Item
  BY <1>0
<1>2. LexerTypeOK' /\ LineEnded' /\ ItemsInv' /\ NeverBlocks'
  <2>1. Receive(~Begins(item, Malformed))
    BY DEF TakeItem
  <2> QED
    BY <2>1, ReceiveInv
<1> HIDE DEF item
<1>3. item.from \in Nat /\ Positions(item) \in Seq(Nat)
  BY <1>1, PositionsType DEF Item
<1>4. ASSUME NEW n \in Names \cup {Package}, NEW s \in Seq(Nat)
      PROVE  /\ DOMAIN Put(n, s) \subseteq Names \cup {Package}
             /\ \A k \in DOMAIN Put(n, s) : Put(n, s)[k] \in Seq(Nat)
  BY <1>0, <1>4 DEF Put
<1>5. CASE TakeText(item) /\ buf' = Reset(item)
  <2> DEFINE text == CharsAt(Positions(item))
  <2>1. Declares(text) # {} => DeclaredIn(text) \in Names
    <3> DEFINE D == Declares(text)
    <3>1. D \in SUBSET Nat
      BY <1>3 DEF Declares, CharsAt
    <3>2. \A i \in D : text[i] \in Names
      BY DEF Declares
    <3> HIDE DEF D, text
    <3>3. D # {} => Min(D) \in D
      BY <3>1, MinFacts
    <3> QED
      BY <3>2, <3>3 DEF DeclaredIn, D
  <2>2. OfPackage \in Seq(Nat)
    BY <1>0 DEF OfPackage
  <2>3. docs' = IF Declares(text) # {} THEN Put(DeclaredIn(text), buf)
                ELSE IF IsHeading(CharsAt(buf)) /\ DOMAIN docs \subseteq {Package}
                THEN Put(Package, OfPackage) ELSE docs
    BY <1>5 DEF TakeText
  <2> HIDE DEF text
  <2>4. DOMAIN docs' \subseteq Names \cup {Package} /\ \A n \in DOMAIN docs' : docs'[n] \in Seq(Nat)
    BY <1>0, <1>4, <2>1, <2>2, <2>3
  <2>5. buf' \in Seq(Nat) /\ annotations' \in Seq(Nat)
    BY <1>0, <1>5 DEF TakeText, Reset
  <2> QED
    BY <1>2, <2>4, <2>5 DEF IInv, DocsType
<1>6. CASE TakeComment(item)
  <2>0. /\ annotations' = annotations \/ annotations' = Append(annotations, item.from)
        /\ buf' = buf \/ buf' = buf \o Positions(item)
        /\ docs' = docs
    BY <1>6 DEF TakeComment
  <2>1. buf' \in Seq(Nat)
    <3>1. buf \in Seq(Nat) /\ Positions(item) \in Seq(Nat)
      BY <1>0, <1>3
    <3>2. buf \o Positions(item) \in Seq(Nat)
      BY <3>1
    <3> QED
      BY <2>0, <3>1, <3>2
  <2>2. annotations' \in Seq(Nat)
    <3>1. annotations \in Seq(Nat) /\ item.from \in Nat
      BY <1>0, <1>3
    <3>2. Append(annotations, item.from) \in Seq(Nat)
      BY <3>1
    <3> QED
      BY <2>0, <3>1, <3>2
  <2> QED
    BY <1>0, <1>2, <2>0, <2>1, <2>2 DEF IInv, DocsType
<1>7. CASE UNCHANGED docVars
  BY <1>0, <1>2, <1>7 DEF IInv, DocsType, docVars
<1> QED
  BY <1>5, <1>6, <1>7 DEF TakeItem, item

LEMMA NextInv == IInv /\ [Next]_allVars => IInv'
<1> SUFFICES ASSUME IInv, [Next]_allVars PROVE IInv'
  OBVIOUS
<1>1. CASE TakeItem
  BY <1>1, TakeInv
<1>2. CASE Lex /\ UNCHANGED docVars
  BY <1>2, LexInv
<1>3. CASE Finish /\ UNCHANGED docVars
  BY <1>3, FinishInv
<1>4. CASE UNCHANGED allVars
  <2>1. input' = input /\ out' = out /\ l' = l /\ Emitted' = Emitted
    BY <1>4 DEF allVars, Emitted
  <2>2. ItemsInv'
    BY <2>1, ItemsStay DEF IInv, ItemsInv
  <2> QED
    BY <1>4, <2>1, <2>2 DEF allVars, IInv, LexerTypeOK, LineEnded, DocsType, NeverBlocks
<1>5. CASE Terminated /\ UNCHANGED docVars
  BY <1>4, <1>5 DEF Terminated, vars, docVars, allVars
<1> QED
  BY <1>1, <1>2, <1>3, <1>4, <1>5 DEF Next

LEMMA Invariant == Spec => []IInv
<1>1. DocsInit => IInv
  BY InitInv
<1>2. IInv /\ [Next]_allVars => IInv'
  BY NextInv
<1> QED
  BY <1>1, <1>2, PTL DEF Spec

(* The lexer's fields, its channel of at most three items and the           *)
(* documentation keep their types.                                         *)
THEOREM TypeCorrect == Spec => []TypeOK
<1>1. IInv => TypeOK
  BY DEF IInv, DocsType, TypeOK
<1> QED
  BY <1>1, Invariant, PTL

(* No state function sends more than the channel of three items holds, so   *)
(* that Iter, which runs it in the goroutine that receives, never waits for *)
(* itself (lex.go:212-243).                                                *)
THEOREM NeverBlocksHolds == Spec => []NeverBlocks
<1>1. IInv => NeverBlocks
  BY DEF IInv
<1> QED
  BY <1>1, Invariant, PTL

(* For every text the items do not overlap, are in its order, and leave out *)
(* nothing before where the lexer stands but the line ends that close line  *)
(* comments; and at the end it stands at the end of the text, or where a    *)
(* block comment begins that is never closed (lex.go:62-202).               *)
THEOREM LosslessHolds == Spec => []Lossless
<1>1. IInv => Lossless
  <2>1. IInv /\ l.fate = "ok" =>
          \A p \in 0..(l.start - 1) : InAnItem(p) \/ ClosesALineComment(p)
    BY DEF IInv, ItemsInv, Covers, Closes, InAnItem, ClosesALineComment
  <2>2. IInv /\ l.fate = "ok" /\ l.state = "returned" => l.start = Len(input) \/ NeverClosed(l.start)
    BY DEF IInv, ItemsInv, Stands, LeftOpen, OpenedBy, Emitted, NeverClosed
  <2> QED
    BY <2>1, <2>2 DEF IInv, ItemsInv, InOrder, Lossless
<1> QED
  BY <1>1, Invariant, PTL

-----------------------------------------------------------------------------
(* The rules of the language.                                               *)

(* f tells the state before each character of the input.                    *)
IsRun(f) ==
  /\ DOMAIN f = 0..Len(input) /\ f[0] = "text"
  /\ \A i \in 1..Len(input) : f[i] = AfterChar(f[i-1], i-1)

(* What makes a text tractable.                                             *)
Copes(f) ==
  /\ \A i \in DOMAIN f : f[i] # "escape2"
  /\ f[Len(input)] # "string"
  /\ \A i \in DOMAIN f : f[i] = "close2" =>
       i + 3 <= Len(input) /\ Opens(i+1) = "none" /\ Opens(i+2) = "none"

(* A set with 0 and the successor of each of its numbers has all of them.   *)
LEMMA SetInduction ==
  ASSUME NEW S, 0 \in S, \A n \in Nat : n \in S => n + 1 \in S
  PROVE  \A n \in Nat : n \in S
<1> DEFINE T == Nat \ S
<1> SUFFICES ASSUME T # {} PROVE FALSE
  OBVIOUS
<1> DEFINE e == Min(T)
<1>1. e \in T /\ \A y \in T : e <= y
  BY MinFacts
<1> HIDE DEF e
<1>2. e \in Nat /\ e # 0 /\ e - 1 \in Nat /\ e = (e - 1) + 1 /\ e \notin S
  BY <1>1
<1>3. e - 1 \in S
  BY <1>1, <1>2
<1> QED
  BY <1>2, <1>3

(* There is a run up to any position.                                       *)
LEMMA RunsExist ==
  ASSUME NEW k \in Nat
  PROVE  \E f : /\ DOMAIN f = 0..k
                /\ \A i \in 0..k : f[i] = IF i = 0 THEN "text" ELSE AfterChar(f[i-1], i-1)
<1> DEFINE Run(n, f) == /\ DOMAIN f = 0..n
                        /\ \A i \in 0..n : f[i] = IF i = 0 THEN "text" ELSE AfterChar(f[i-1], i-1)
           S == {n \in Nat : \E f : Run(n, f)}
<1>1. 0 \in S
  <2>1. Run(0, [i \in 0..0 |-> "text"])
    OBVIOUS
  <2> HIDE DEF Run
  <2> QED
    BY <2>1
<1>2. ASSUME NEW n \in Nat, n \in S PROVE n + 1 \in S
  <2>1. PICK f : Run(n, f)
    BY <1>2
  <2> DEFINE g == [i \in 0..(n+1) |-> IF i = n + 1 THEN AfterChar(f[n], n) ELSE f[i]]
  <2>2. ASSUME NEW i \in 0..(n+1) PROVE g[i] = IF i = 0 THEN "text" ELSE AfterChar(g[i-1], i-1)
    <3>1. CASE i = n + 1
      <4>1. n \in 0..(n+1) /\ n # n + 1 /\ i - 1 = n /\ i # 0
        BY <3>1
      <4>2. g[n] = f[n]
        BY <4>1
      <4>3. g[i] = AfterChar(f[n], n)
        BY <3>1
      <4> HIDE DEF g
      <4> QED
        BY <4>1, <4>2, <4>3
    <3>2. CASE i # n + 1
      <4>1. i \in 0..n /\ (i # 0 => i - 1 \in 0..(n+1) /\ i - 1 # n + 1)
        BY <3>2
      <4>2. g[i] = f[i] /\ (i # 0 => g[i-1] = f[i-1])
        BY <3>2, <4>1
      <4> HIDE DEF g
      <4> QED
        BY <2>1, <4>1, <4>2
    <3> QED
      BY <3>1, <3>2
  <2>3. Run(n + 1, g)
    <3>1. DOMAIN g = 0..(n+1)
      OBVIOUS
    <3> HIDE DEF g
    <3> QED
      BY <2>2, <3>1
  <2> HIDE DEF Run
  <2> QED
    BY <2>3
<1>3. \A n \in Nat : n \in S
  <2> HIDE DEF S
  <2> QED
    BY <1>1, <1>2, SetInduction
<1> QED
  BY <1>3

(* Syntax is a run.                                                         *)
LEMMA SyntaxRuns == input \in Seq(Chars) => IsRun(Syntax) /\ (Tractable => Copes(Syntax))
<1> SUFFICES ASSUME input \in Seq(Chars) PROVE IsRun(Syntax) /\ (Tractable => Copes(Syntax))
  OBVIOUS
<1> DEFINE Whole(f) == f = [i \in 0..Len(input) |-> IF i = 0 THEN "text" ELSE AfterChar(f[i-1], i-1)]
           w == CHOOSE f : Whole(f)
<1>0. Len(input) \in Nat
  OBVIOUS
<1>1. PICK g : /\ DOMAIN g = 0..Len(input)
               /\ \A i \in 0..Len(input) : g[i] = IF i = 0 THEN "text" ELSE AfterChar(g[i-1], i-1)
  BY <1>0, RunsExist
<1> DEFINE h == [i \in 0..Len(input) |-> g[i]]
<1>2. Whole(h)
  <2>1. \A i \in 0..Len(input) : i # 0 => i - 1 \in 0..Len(input)
    BY <1>0
  <2>2. \A i \in 0..Len(input) : h[i] = IF i = 0 THEN "text" ELSE AfterChar(h[i-1], i-1)
    BY <1>1, <2>1
  <2>3. h = [i \in 0..Len(input) |-> h[i]]
    OBVIOUS
  <2> HIDE DEF h
  <2> QED
    BY <2>2, <2>3
<1>3. Whole(w)
  <2> HIDE DEF Whole, h
  <2> QED
    BY <1>2, Zenon
<1>4. Syntax = w
  BY DEF Syntax
<1> HIDE DEF w
<1>5. IsRun(w)
  <2>1. DOMAIN w = 0..Len(input)
    BY <1>3
  <2>2. \A i \in 0..Len(input) : w[i] = IF i = 0 THEN "text" ELSE AfterChar(w[i-1], i-1)
    BY <1>3
  <2>3. 0 \in 0..Len(input) /\ \A i \in 1..Len(input) : i \in 0..Len(input) /\ i # 0
    BY <1>0
  <2> QED
    BY <2>1, <2>2, <2>3 DEF IsRun
<1> QED
  BY <1>4, <1>5 DEF Tractable, Copes

(* An item holds what its type says and all of it: a comment and a text are *)
(* as long as they can be, and only what stands behind a comment at the     *)
(* very end is given out as the end. What is in no item up to n is neither. *)
Neither(f, p) == ~CommentAt(f, p) /\ ~TextAt(f, p)

CommentEnds(f, x) ==
  x.from < x.to /\ (x.from > 0 => ~CommentAt(f, x.from - 1)) /\ (x.to < Len(input) => ~CommentAt(f, x.to))

TextEnds(f, x) ==
  x.from < x.to /\ (x.from > 0 => ~TextAt(f, x.from - 1)) /\ (x.to < Len(input) => ~TextAt(f, x.to))

EndsIn(f) == Len(input) > 2 /\ f[Len(input) - 3] = "close2"

HasType(f, t, p) ==
  /\ t = "Comment" => CommentAt(f, p)
  /\ t = "String" => f[p] = "string"
  /\ t = "Text" => TextAt(f, p)
  /\ t = "EOF" => f[p] = "text"
  /\ t \in {"Sep", "Error"} => Neither(f, p)

Holds(f, x) ==
  /\ \A p \in Inside(x) : HasType(f, x.typ, p)
  /\ x.typ = "Comment" => CommentEnds(f, x)
  /\ x.typ = "Text" => TextEnds(f, x)
  /\ x.typ = "EOF" => x.to = Len(input) /\ (x.from = x.to \/ EndsIn(f))

Told(f, e, n) ==
  /\ \A i \in DOMAIN e : Holds(f, e[i])
  /\ \A p \in 0..(n - 1) : Neither(f, p) \/ \E i \in DOMAIN e : p \in Inside(e[i])

LEMMA ToldAppend ==
  ASSUME NEW f, NEW e \in Seq(Item), NEW x \in Item, Told(f, e, x.from), Holds(f, x)
  PROVE  Told(f, Append(e, x), x.to)
<1> DEFINE g == Append(e, x)
<1>1. PICK k \in Nat : k = Len(e)
  OBVIOUS
<1>2. DOMAIN e = 1..k /\ DOMAIN g = 1..(k+1) /\ g[k+1] = x /\ \A i \in 1..k : g[i] = e[i]
  BY <1>1
<1>3. x.from \in Nat /\ x.to \in Nat
  BY DEF Item
<1> HIDE DEF g
<1>4. ASSUME NEW i \in DOMAIN g PROVE Holds(f, g[i])
  <2>1. CASE i = k + 1
    BY <1>2, <2>1
  <2>2. CASE i # k + 1
    <3>1. i \in DOMAIN e /\ g[i] = e[i]
      BY <1>1, <1>2, <2>2
    <3> QED
      BY <3>1 DEF Told
  <2> QED
    BY <2>1, <2>2
<1>5. ASSUME NEW p \in 0..(x.to - 1)
      PROVE  Neither(f, p) \/ \E i \in DOMAIN g : p \in Inside(g[i])
  <2>1. CASE p < x.from
    <3>1. p \in 0..(x.from - 1)
      BY <1>3, <2>1
    <3>2. CASE Neither(f, p)
      BY <3>2
    <3>3. CASE \E i \in DOMAIN e : p \in Inside(e[i])
      <4>1. PICK i \in 1..k : p \in Inside(e[i])
        BY <1>2, <3>3
      <4>2. i \in DOMAIN g /\ g[i] = e[i]
        BY <1>1, <1>2
      <4> QED
        BY <4>1, <4>2
    <3> QED
      BY <3>1, <3>2, <3>3 DEF Told
  <2>2. CASE p >= x.from
    <3>1. p \in Inside(x)
      BY <1>3, <2>2 DEF Inside
    <3>2. k + 1 \in DOMAIN g /\ g[k+1] = x
      BY <1>1, <1>2
    <3> QED
      BY <3>1, <3>2
  <2> QED
    BY <1>3, <2>1, <2>2
<1>6. Told(f, g, x.to)
  BY <1>4, <1>5 DEF Told
<1> QED
  BY <1>6 DEF g

(* More of the text, without a comment or a text.                           *)
LEMMA ToldMore ==
  ASSUME NEW f, NEW e, NEW n \in Nat, NEW m \in Nat, Told(f, e, n), \A p \in n..(m - 1) : Neither(f, p)
  PROVE  Told(f, e, m)
<1>1. \A p \in 0..(m - 1) : p \in 0..(n - 1) \/ p \in n..(m - 1)
  OBVIOUS
<1> QED
  BY <1>1 DEF Told

(* What holds under the rules of the language before and after the steps of *)
(* a state function that has not come to the end: the lexer has sent but    *)
(* two items, none of them the end.                                        *)
Telling(f, e, lx, n) ==
  /\ lx \in Lexers /\ lx.fate = "ok" /\ lx.state # "nil" /\ ~lx.closed
  /\ lx.start <= lx.pos /\ lx.pos <= Len(input)
  /\ Len(lx.items) <= n /\ \A i \in DOMAIN lx.items : lx.items[i].typ # "EOF"
  /\ Told(f, e \o lx.items, lx.start)

(* After an emit.                                                           *)
Ended(f, e, lx) ==
  /\ lx \in Lexers /\ lx.fate = "ok" /\ lx.state = "nil"
  /\ lx.start = Len(input) /\ lx.pos = Len(input)
  /\ Told(f, e \o lx.items, lx.start)

LEMMA EmitTelling ==
  ASSUME NEW f, NEW e \in Seq(Item), NEW lx, Telling(f, e, lx, 1), NEW t \in Types,
         input \in Seq(Chars), t = "EOF" => lx.pos = Len(input),
         lx.start # lx.pos => Holds(f, ItemOf(lx, t))
  PROVE  LET s == emit(lx, t) IN
         /\ s.start = lx.pos /\ s.pos = lx.pos /\ s.fate = "ok"
         /\ lx.pos # Len(input) => Telling(f, e, s, 2) /\ Len(s.items) <= Len(lx.items) + 1
         /\ lx.pos = Len(input) => Ended(f, e, s)
<1> DEFINE s == emit(lx, t)
           x == ItemOf(lx, t)
           b == IF lx.start = lx.pos THEN lx.items ELSE Append(lx.items, x)
<1>0. /\ lx \in Lexers /\ lx.start \in Nat /\ lx.pos \in Nat /\ lx.items \in Seq(Item) /\ Len(lx.items) \in Nat
      /\ Len(input) \in Nat /\ lx.fate = "ok" /\ lx.state # "nil" /\ ~lx.closed
      /\ lx.start <= lx.pos /\ lx.pos <= Len(input) /\ Len(lx.items) <= 1
      /\ \A i \in DOMAIN lx.items : lx.items[i].typ # "EOF"
      /\ Told(f, e \o lx.items, lx.start)
  BY DEF Telling, Lexers
<1>1. Len(lx.items) <= 1
  BY <1>0
<1>2. /\ s \in Lexers /\ s.pos = lx.pos /\ s.fate = "ok" /\ s.start = lx.pos
      /\ lx.pos # Len(input) => s.items = b /\ s.state = lx.state /\ s.closed = lx.closed
      /\ lx.pos = Len(input) => s.items = Append(b, EOFItem) /\ s.state = "nil" /\ s.closed
  <2>1. t = "EOF" => lx.pos >= Len(input)
    BY <1>0
  <2>2. lx.fate = "ok" /\ lx.state # "nil" /\ lx.start <= lx.pos /\ lx.pos <= Len(input)
    BY <1>0
  <2> QED
    BY <1>0, <1>1, <2>1, <2>2, EmitFields
<1> HIDE DEF s
<1>3. x \in Item /\ x.from = lx.start /\ x.to = lx.pos /\ x.typ = t /\ Inside(x) = lx.start..(lx.pos - 1)
  BY <1>0 DEF ItemOf, Item, Types, Inside
<1>4. lx.start # lx.pos => Holds(f, x)
  OBVIOUS
<1> HIDE DEF x
<1>5. b \in Seq(Item) /\ Len(b) <= Len(lx.items) + 1
  BY <1>0, <1>3
<1>6. Told(f, e \o b, lx.pos)
  <2>1. CASE lx.start = lx.pos
    BY <1>0, <2>1
  <2>2. CASE lx.start # lx.pos
    <3>1. e \o lx.items \in Seq(Item) /\ e \o Append(lx.items, x) = Append(e \o lx.items, x)
      BY <1>0, <1>3, AppendLast
    <3>3. Told(f, Append(e \o lx.items, x), x.to)
      BY <1>0, <1>3, <1>4, <2>2, <3>1, ToldAppend
    <3> QED
      BY <1>3, <2>2, <3>1, <3>3
  <2> QED
    BY <2>1, <2>2
<1>7. ASSUME lx.pos # Len(input) PROVE Telling(f, e, s, 2) /\ Len(s.items) <= Len(lx.items) + 1
  <2>1. s.items = b /\ s.state = lx.state /\ s.closed = lx.closed
    BY <1>2, <1>7
  <2>2. ASSUME NEW i \in DOMAIN b PROVE b[i].typ # "EOF"
    <3>1. CASE lx.start = lx.pos
      BY <1>0, <2>2, <3>1
    <3>2. CASE lx.start # lx.pos
      <4>0. x.typ # "EOF"
        BY <1>3, <1>7
      <4>1. PICK k \in Nat : k = Len(lx.items)
        BY <1>0
      <4>2. DOMAIN lx.items = 1..k /\ DOMAIN Append(lx.items, x) = 1..(k+1)
            /\ Append(lx.items, x)[k+1] = x /\ \A j \in 1..k : Append(lx.items, x)[j] = lx.items[j]
        BY <1>0, <1>3, <4>1
      <4>3. b = Append(lx.items, x)
        BY <3>2
      <4> HIDE DEF b
      <4>4. i = k + 1 \/ i \in 1..k
        BY <2>2, <4>1, <4>2, <4>3
      <4> QED
        BY <1>0, <4>0, <4>2, <4>3, <4>4
    <3> QED
      BY <3>1, <3>2
  <2> HIDE DEF b
  <2>3. Len(s.items) <= Len(lx.items) + 1 /\ Len(s.items) <= 2
    <3>1. Len(b) \in Nat
      BY <1>5
    <3> QED
      BY <1>0, <1>5, <2>1, <3>1
  <2> QED
    BY <1>0, <1>2, <1>6, <2>1, <2>2, <2>3 DEF Telling
<1>8. ASSUME lx.pos = Len(input) PROVE Ended(f, e, s)
  <2>1. s.items = Append(b, EOFItem) /\ s.state = "nil"
    BY <1>2, <1>8
  <2> HIDE DEF b
  <2> DEFINE eof == EOFItem
  <2>2. eof \in Item /\ eof.typ = "EOF" /\ eof.from = lx.pos /\ eof.to = lx.pos /\ Inside(eof) = {}
    BY <1>0, <1>8 DEF EOFItem, Item, Inside
  <2> HIDE DEF eof
  <2>3. e \o b \in Seq(Item) /\ e \o Append(b, eof) = Append(e \o b, eof)
    BY <1>5, <2>2, AppendLast
  <2>4. Holds(f, eof)
    BY <1>8, <2>2 DEF Holds
  <2>5. Told(f, Append(e \o b, eof), eof.to)
    BY <1>6, <2>2, <2>3, <2>4, ToldAppend
  <2> QED
    BY <1>2, <1>8, <2>1, <2>2, <2>3, <2>5 DEF Ended, eof
<1> QED
  BY <1>2, <1>7, <1>8 DEF s

LEMMA Fewer ==
  ASSUME NEW f, NEW e, NEW lx, Telling(f, e, lx, 0)
  PROVE  Telling(f, e, lx, 1)
<1>1. Len(lx.items) \in Nat
  BY DEF Telling, Lexers
<1> QED
  BY <1>1 DEF Telling

(* The first item, where the text goes on after it.                         *)
LEMMA FirstTelling ==
  ASSUME NEW f, NEW e \in Seq(Item), NEW lx, Telling(f, e, lx, 0), NEW t \in Types, t # "EOF",
         input \in Seq(Chars), lx.pos # Len(input), lx.start # lx.pos => Holds(f, ItemOf(lx, t))
  PROVE  LET s == emit(lx, t) IN Telling(f, e, s, 1) /\ s.start = lx.pos /\ s.pos = lx.pos
<1> DEFINE s == emit(lx, t)
<1>1. /\ s.start = lx.pos /\ s.pos = lx.pos
      /\ Telling(f, e, s, 2) /\ Len(s.items) <= Len(lx.items) + 1
  BY Fewer, EmitTelling
<1> HIDE DEF s
<1>2. Len(lx.items) \in Nat /\ Len(lx.items) <= 0
  BY DEF Telling, Lexers
<1>3. Len(s.items) \in Nat
  BY <1>1 DEF Telling, Lexers
<1>4. Len(s.items) <= 1
  BY <1>1, <1>2, <1>3
<1>5. Telling(f, e, s, 1)
  BY <1>1, <1>4 DEF Telling
<1> QED
  BY <1>1, <1>5 DEF s

(* Between the state functions: where the lexer is in the text.             *)
Between(f, e, lx) ==
  /\ lx \in Lexers /\ lx.fate = "ok"
  /\ lx.closed => lx.start = Len(input)
  /\ \A i \in DOMAIN lx.items : lx.items[i].typ = "EOF" => lx.start = Len(input)
  /\ Told(f, e \o lx.items, lx.start)

(* The two characters that a block comment skips are text.                  *)
Skipped(f, lx) ==
  /\ lx.pos = lx.start + 2 /\ lx.start > 0 /\ f[lx.start - 1] = "close2"
  /\ Opens(lx.start) = "none" /\ Opens(lx.start + 1) = "none"

PlaceOf(f, lx, state) ==
  /\ state = "nil" => \A p \in lx.start..(Len(input) - 1) : Neither(f, p)
  /\ state = "text" => /\ lx.start <= lx.pos /\ lx.pos <= Len(input)
                       /\ \A p \in lx.start..lx.pos : f[p] = "text"
                       /\ lx.start > 0 => f[lx.start - 1] # "text"
                       /\ lx.start = lx.pos \/ Skipped(f, lx)
  /\ state \in {"string", "line", "block"} =>
       lx.start = lx.pos /\ lx.pos <= Len(input) /\ f[lx.pos] = state
  /\ state \in {"line", "block"} => lx.start > 0 /\ ~CommentAt(f, lx.start - 1)

Placed(f, e, lx) == Between(f, e, lx) /\ PlaceOf(f, lx, lx.state) /\ lx.state # "returned"

LEMMA SentBetween ==
  ASSUME NEW f, NEW e, NEW lx, NEW n, Telling(f, e, lx, n) \/ Ended(f, e, lx)
  PROVE  Between(f, e, lx)
BY DEF Telling, Ended, Between

(* A separator, which says nothing about the text.                          *)
LEMMA SepTelling ==
  ASSUME NEW f, NEW e \in Seq(Item), NEW lx, Telling(f, e, lx, 1), input \in Seq(Chars),
         \A p \in lx.start..(lx.pos - 1) : Neither(f, p)
  PROVE  LET s == emit(lx, "Sep") IN
         /\ Between(f, e, s) /\ s.start = lx.pos /\ s.pos = lx.pos
         /\ lx.pos # Len(input) => Telling(f, e, s, 2)
<1> DEFINE t == "Sep"
           s == emit(lx, t)
<1>1. t \in Types /\ t # "EOF" /\ Holds(f, ItemOf(lx, t))
  <2>1. ItemOf(lx, t).typ = "Sep" /\ Inside(ItemOf(lx, t)) = lx.start..(lx.pos - 1)
    BY DEF ItemOf, Inside
  <2> QED
    BY <2>1 DEF Types, Holds, HasType
<1> HIDE DEF t
<1>2. /\ s.start = lx.pos /\ s.pos = lx.pos
      /\ lx.pos # Len(input) => Telling(f, e, s, 2)
      /\ lx.pos = Len(input) => Ended(f, e, s)
  BY <1>1, EmitTelling
<1> HIDE DEF s
<1>3. Between(f, e, s)
  BY <1>2, SentBetween
<1> QED
  BY <1>2, <1>3 DEF s, t

LEMMA ThenPlaced ==
  ASSUME NEW f, NEW e, NEW lx, Between(f, e, lx), NEW state \in {"text", "string", "line", "block", "nil"},
         PlaceOf(f, lx, state)
  PROVE  Placed(f, e, Then(lx, state))
<1> DEFINE s == Then(lx, state)
<1>1. lx \in Lexers
  BY DEF Between
<1>2. s \in Lexers
  BY <1>1 DEF Lexers, Then
<1>3. /\ s.pos = lx.pos /\ s.start = lx.start /\ s.state = state /\ s.fate = lx.fate /\ s.items = lx.items
      /\ s.closed = lx.closed
  BY <1>1 DEF Lexers, Then
<1> HIDE DEF s
<1>4. Between(f, e, s)
  BY <1>2, <1>3 DEF Between
<1>5. PlaceOf(f, s, s.state)
  BY <1>3 DEF PlaceOf, Skipped
<1> QED
  BY <1>3, <1>4, <1>5 DEF s, Placed

LEMMA MoveTelling ==
  ASSUME NEW f, NEW e, NEW lx, NEW n, Telling(f, e, lx, n), NEW p \in Nat, lx.start <= p, p <= Len(input)
  PROVE  LET s == [lx EXCEPT !.pos = p] IN
         /\ Telling(f, e, s, n)
         /\ s.pos = p /\ s.start = lx.start /\ s.state = lx.state /\ s.items = lx.items
<1> DEFINE s == [lx EXCEPT !.pos = p]
<1>1. lx \in Lexers
  BY DEF Telling
<1>2. s \in Lexers
  BY <1>1 DEF Lexers
<1>3. /\ s.pos = p /\ s.start = lx.start /\ s.state = lx.state /\ s.fate = lx.fate /\ s.items = lx.items
      /\ s.closed = lx.closed
  BY <1>1 DEF Lexers
<1> HIDE DEF s
<1>4. Telling(f, e, s, n)
  BY <1>2, <1>3 DEF Telling
<1> QED
  BY <1>3, <1>4 DEF s

LEMMA ForwardTelling ==
  ASSUME NEW f, NEW e, NEW lx, NEW n, Telling(f, e, lx, n), NEW k \in Nat, lx.pos + k <= Len(input)
  PROVE  LET s == Forward(lx, k) IN
         /\ Telling(f, e, s, n)
         /\ s.pos = lx.pos + k /\ s.start = lx.start /\ s.state = lx.state /\ s.items = lx.items
<1> DEFINE p == lx.pos + k
<1>1. lx.pos \in Nat /\ lx.start \in Nat /\ lx.start <= lx.pos
  BY DEF Telling, Lexers
<1>2. p \in Nat /\ lx.start <= p /\ p <= Len(input)
  BY <1>1
<1>3. Forward(lx, k) = [lx EXCEPT !.pos = p]
  BY DEF Forward
<1> HIDE DEF p
<1> QED
  BY <1>2, <1>3, MoveTelling DEF p

(* Before a state function.                                                 *)
LEMMA ReadyTelling ==
  ASSUME NEW f, NEW e, NEW lx, Ready(e, lx), Placed(f, e, lx), ~lx.closed, input \in Seq(Chars),
         lx.pos <= Len(input)
  PROVE  Telling(f, e, lx, 0)
<1>1. lx.start <= lx.pos /\ lx.fate = "ok" /\ lx.state # "nil" /\ lx.items = <<>>
  BY ReadyFacts DEF Ready
<1>2. Len(<<>>) <= 0 /\ DOMAIN <<>> = {}
  OBVIOUS
<1> QED
  BY <1>1, <1>2 DEF Telling, Placed, Between

(* A run goes on as the characters let it.                                  *)
LEMMA Stays ==
  ASSUME NEW f, IsRun(f), input \in Seq(Chars), NEW q \in Nat, NEW r \in Nat, q <= r, r <= Len(input),
         NEW state, f[q] = state, \A p \in q..(r - 1) : AfterChar(state, p) = state
  PROVE  \A p \in q..r : f[p] = state
<1> DEFINE S == {n \in Nat : q + n <= r => f[q + n] = state}
<1>0. Len(input) \in Nat
  OBVIOUS
<1>1. 0 \in S
  <2>1. q + 0 = q
    OBVIOUS
  <2> QED
    BY <2>1
<1>2. ASSUME NEW n \in Nat, n \in S PROVE n + 1 \in S
  <2> SUFFICES ASSUME q + (n + 1) <= r PROVE f[q + (n + 1)] = state
    OBVIOUS
  <2>1. q + n \in q..(r - 1) /\ q + (n + 1) \in 1..Len(input) /\ (q + (n + 1)) - 1 = q + n
    BY <1>0
  <2>2. f[q + n] = state
    BY <1>2
  <2>3. f[q + (n + 1)] = AfterChar(f[q + n], q + n)
    BY <2>1 DEF IsRun
  <2> QED
    BY <2>1, <2>2, <2>3
<1>3. \A n \in Nat : n \in S
  <2> HIDE DEF S
  <2> QED
    BY <1>1, <1>2, SetInduction
<1> SUFFICES ASSUME NEW p \in q..r PROVE f[p] = state
  OBVIOUS
<1>4. p - q \in Nat /\ q + (p - q) = p /\ p <= r
  OBVIOUS
<1> QED
  BY <1>3, <1>4

LEMMA TextStays ==
  ASSUME NEW f, IsRun(f), input \in Seq(Chars), NEW q \in Nat, NEW r \in Nat, q <= r, r <= Len(input),
         f[q] = "text", \A p \in q..(r - 1) : Opens(p) = "none"
  PROVE  \A p \in q..r : f[p] = "text"
<1> DEFINE state == "text"
<1>1. f[q] = state /\ \A p \in q..(r - 1) : AfterChar(state, p) = state
  BY DEF AfterChar
<1> HIDE DEF state
<1>2. \A p \in q..r : f[p] = state
  BY <1>1, Stays
<1> QED
  BY <1>2 DEF state

LEMMA NextOf ==
  ASSUME NEW f, IsRun(f), input \in Seq(Chars), NEW p \in Nat, p < Len(input)
  PROVE  f[p + 1] = AfterChar(f[p], p)
<1>1. Len(input) \in Nat
  OBVIOUS
<1>2. p + 1 \in 1..Len(input) /\ (p + 1) - 1 = p
  BY <1>1
<1> QED
  BY <1>2 DEF IsRun

LEMMA EndedPlace ==
  ASSUME NEW f, NEW e, NEW lx, Ended(f, e, lx), Len(input) \in Nat
  PROVE  PlaceOf(f, lx, "nil")
<1>1. lx.start..(Len(input) - 1) = {}
  BY DEF Ended
<1> QED
  BY <1>1 DEF PlaceOf

(* A text that is emitted, as long as it can be.                            *)
LEMMA TextHolds ==
  ASSUME NEW f, NEW lx, lx.start \in Nat, lx.pos \in Nat, lx.start < lx.pos,
         \A p \in lx.start..(lx.pos - 1) : f[p] = "text" /\ Opens(p) = "none",
         lx.start > 0 => ~TextAt(f, lx.start - 1), lx.pos < Len(input) => ~TextAt(f, lx.pos)
  PROVE  Holds(f, ItemOf(lx, "Text"))
<1> DEFINE x == ItemOf(lx, "Text")
<1>1. x.typ = "Text" /\ x.from = lx.start /\ x.to = lx.pos /\ Inside(x) = lx.start..(lx.pos - 1)
  BY DEF ItemOf, Inside
<1> HIDE DEF x
<1>2. TextEnds(f, x)
  BY <1>1 DEF TextEnds
<1>3. \A p \in Inside(x) : TextAt(f, p)
  BY <1>1 DEF TextAt
<1>4. Holds(f, x)
  BY <1>1, <1>2, <1>3 DEF Holds, HasType
<1> QED
  BY <1>4 DEF x

LEMMA CommentHolds ==
  ASSUME NEW f, NEW lx, lx.start \in Nat, lx.pos \in Nat, lx.start < lx.pos,
         \A p \in lx.start..(lx.pos - 1) : CommentAt(f, p),
         lx.start > 0 => ~CommentAt(f, lx.start - 1), lx.pos < Len(input) => ~CommentAt(f, lx.pos)
  PROVE  Holds(f, ItemOf(lx, "Comment"))
<1> DEFINE x == ItemOf(lx, "Comment")
<1>1. x.typ = "Comment" /\ x.from = lx.start /\ x.to = lx.pos /\ Inside(x) = lx.start..(lx.pos - 1)
  BY DEF ItemOf, Inside
<1> HIDE DEF x
<1>2. CommentEnds(f, x)
  BY <1>1 DEF CommentEnds
<1>3. Holds(f, x)
  BY <1>1, <1>2 DEF Holds, HasType
<1> QED
  BY <1>3 DEF x

(* The state functions, in a tractable text, under the rules.               *)
LEMMA TextPlaced ==
  ASSUME NEW f, IsRun(f), Copes(f), NEW e \in Seq(Item), NEW lx, Ready(e, lx), Placed(f, e, lx), ~lx.closed,
         lx.state = "text", input \in Seq(Chars)
  PROVE  Placed(f, e, lexText(lx))
<1>0. /\ lx.start \in Nat /\ lx.pos \in Nat /\ lx.start <= lx.pos /\ Len(input) \in Nat
      /\ lx.pos <= Len(input) /\ \A p \in lx.start..lx.pos : f[p] = "text"
      /\ (lx.start > 0 => f[lx.start - 1] # "text") /\ (lx.start = lx.pos \/ Skipped(f, lx))
  BY ReadyFacts DEF Placed, PlaceOf
<1>s. /\ lx.start > 0 => ~TextAt(f, lx.start - 1)
      /\ \A p \in lx.start..(lx.pos - 1) : Opens(p) = "none"
  <2>1. CASE lx.start = lx.pos
    BY <1>0, <2>1 DEF TextAt
  <2>2. CASE Skipped(f, lx)
    <3>1. \A p \in lx.start..(lx.pos - 1) : p = lx.start \/ p = lx.start + 1
      BY <1>0, <2>2 DEF Skipped
    <3> QED
      BY <1>0, <2>2, <3>1 DEF Skipped, TextAt
  <2> QED
    BY <1>0, <2>1, <2>2
<1>1. Telling(f, e, lx, 0)
  BY <1>0, ReadyTelling
<1>2. "EOF" \in Types /\ "Text" \in Types /\ "Sep" \in Types /\ 0 \in 0..1 /\ 1 \in 0..1
  BY DEF Types
<1>3. CASE lx.pos = Len(input)
  <2> DEFINE eof == emit(lx, "EOF")
  <2>1. ASSUME lx.start # lx.pos PROVE Holds(f, ItemOf(lx, "EOF"))
    <3> DEFINE x == ItemOf(lx, "EOF")
    <3>1. x.typ = "EOF" /\ x.to = Len(input) /\ Inside(x) = lx.start..(lx.pos - 1)
      BY <1>3 DEF ItemOf, Inside
    <3> HIDE DEF x
    <3>2. \A p \in lx.start..(lx.pos - 1) : p \in lx.start..lx.pos
      BY <1>0
    <3>3. EndsIn(f)
      <4>1. Skipped(f, lx)
        BY <1>0, <2>1
      <4>2. lx.start - 1 = Len(input) - 3 /\ Len(input) > 2
        BY <1>0, <1>3, <4>1 DEF Skipped
      <4> QED
        BY <4>1, <4>2 DEF Skipped, EndsIn
    <3>4. \A p \in Inside(x) : HasType(f, x.typ, p)
      BY <1>0, <3>1, <3>2 DEF HasType
    <3>5. Holds(f, x)
      BY <3>1, <3>3, <3>4 DEF Holds
    <3> QED
      BY <3>5 DEF x
  <2>2. Ended(f, e, eof)
    BY <1>1, <1>2, <1>3, <2>1, Fewer, EmitTelling
  <2>3. lexText(lx) = Then(eof, "nil")
    BY <1>3 DEF lexText
  <2> HIDE DEF eof
  <2>4. PlaceOf(f, eof, "nil")
    BY <1>0, <2>2, EndedPlace
  <2> QED
    BY <2>2, <2>3, <2>4, SentBetween, ThenPlaced
<1>4. CASE lx.pos < Len(input) /\ Delimiters(lx.pos) = {}
  <2> DEFINE all == [lx EXCEPT !.pos = Len(input)]
             text == emit(all, "Text")
  <2>1. Telling(f, e, all, 0) /\ all.pos = Len(input) /\ all.start = lx.start
    <3>1. lx.start <= Len(input) /\ Len(input) <= Len(input)
      BY <1>0
    <3> QED
      BY <1>0, <1>1, <3>1, MoveTelling
  <2>2. lexText(lx) = Then(text, "nil")
    BY <1>0, <1>4 DEF lexText
  <2> HIDE DEF all
  <2>o. \A p \in lx.pos..(Len(input) - 1) : Opens(p) = "none"
    BY <1>4 DEF Delimiters
  <2>3. \A p \in lx.pos..Len(input) : f[p] = "text"
    <3>2. f[lx.pos] = "text" /\ Len(input) <= Len(input)
      BY <1>0
    <3> QED
      BY <1>0, <2>o, <3>2, TextStays
  <2>4. \A p \in lx.start..(Len(input) - 1) : f[p] = "text" /\ Opens(p) = "none"
    <3>1. ASSUME NEW p \in lx.start..(Len(input) - 1)
          PROVE  \/ p \in lx.start..(lx.pos - 1) /\ p \in lx.start..lx.pos
                 \/ p \in lx.pos..(Len(input) - 1) /\ p \in lx.pos..Len(input)
      BY <1>0
    <3> QED
      BY <1>0, <1>s, <2>o, <2>3, <3>1
  <2>5. Holds(f, ItemOf(all, "Text"))
    <3>1. /\ all.start \in Nat /\ all.pos \in Nat /\ all.start < all.pos /\ ~(all.pos < Len(input))
          /\ \A p \in all.start..(all.pos - 1) : f[p] = "text" /\ Opens(p) = "none"
          /\ all.start > 0 => ~TextAt(f, all.start - 1)
      BY <1>0, <1>4, <1>s, <2>1, <2>4
    <3> QED
      BY <3>1, TextHolds
  <2>6. Ended(f, e, text)
    <3>1. "Text" # "EOF"
      OBVIOUS
    <3> QED
      BY <1>2, <2>1, <2>5, <3>1, Fewer, EmitTelling
  <2> HIDE DEF text
  <2>7. PlaceOf(f, text, "nil")
    BY <1>0, <2>6, EndedPlace
  <2> QED
    BY <2>2, <2>6, <2>7, SentBetween, ThenPlaced
<1>5. CASE lx.pos < Len(input) /\ Delimiters(lx.pos) # {}
  <2> DEFINE first == Min(Delimiters(lx.pos))
             upto == [lx EXCEPT !.pos = first]
             text == emit(upto, "Text")
             k == IF Opens(first) = "string" THEN 1 ELSE 2
             over == Forward(text, k)
             sep == emit(over, "Sep")
             s == [sep EXCEPT !.start = sep.pos]
  <2>1. lexText(lx) = Then(s, Opens(first))
    BY <1>0, <1>5 DEF lexText
  <2>2. /\ first \in Nat /\ Opens(first) # "none" /\ lx.pos <= first /\ first < Len(input)
        /\ \A p \in lx.pos..(first - 1) : Opens(p) = "none"
    <3> DEFINE D == Delimiters(lx.pos)
    <3>1. D \in SUBSET Nat /\ D \subseteq lx.pos..(Len(input) - 1)
      BY <1>0, IndexRange
    <3>2. \A p \in lx.pos..(Len(input) - 1) : p \in D <=> Opens(p) # "none"
      BY DEF Delimiters
    <3>3. Min(D) \in D /\ \A p \in D : Min(D) <= p
      <4> HIDE DEF D
      <4> QED
        BY <1>5, <3>1, MinFacts DEF D
    <3>4. first = Min(D)
      OBVIOUS
    <3> HIDE DEF D, first
    <3>5. first \in D /\ first \in lx.pos..(Len(input) - 1) /\ Opens(first) # "none" /\ \A p \in D : first <= p
      BY <3>1, <3>2, <3>3, <3>4
    <3>6. first \in Nat /\ lx.pos <= first /\ first < Len(input)
      BY <1>0, <3>5
    <3>7. ASSUME NEW p \in lx.pos..(first - 1) PROVE Opens(p) = "none"
      <4>1. p \in lx.pos..(Len(input) - 1) /\ ~(first <= p)
        BY <1>0, <3>6
      <4> QED
        BY <3>2, <3>5, <4>1
    <3> QED
      BY <3>5, <3>6, <3>7
  <2> HIDE DEF first
  <2>3. Opens(first) \in {"string", "line", "block"} /\ k \in Nat /\ k >= 1 /\ first + k <= Len(input)
        /\ (k = 1 <=> Opens(first) = "string") /\ k \in 1..2
    <3>1. Opens(first) \in {"string", "line", "block", "none"}
          /\ (Opens(first) \in {"line", "block"} => first + 2 <= Len(input))
      BY <2>2, OpensRange
    <3> QED
      BY <1>0, <2>2, <3>1
  <2>4. \A p \in lx.pos..first : f[p] = "text"
    <3>1. f[lx.pos] = "text" /\ first <= Len(input)
      BY <1>0, <2>2
    <3> QED
      BY <1>0, <2>2, <3>1, TextStays
  <2>5. \A p \in lx.start..(first - 1) : f[p] = "text" /\ Opens(p) = "none"
    <3>1. ASSUME NEW p \in lx.start..(first - 1)
          PROVE  \/ p \in lx.start..(lx.pos - 1) /\ p \in lx.start..lx.pos
                 \/ p \in lx.pos..(first - 1) /\ p \in lx.pos..first
      BY <1>0, <2>2
    <3> QED
      BY <1>0, <1>s, <2>2, <2>4, <3>1
  <2>6. /\ f[first] = "text" /\ f[first + k] = Opens(first)
        /\ \A p \in first..(first + k - 1) : Neither(f, p)
        /\ k = 2 => ~CommentAt(f, first + k - 1)
    <3>1. f[first] = "text" /\ f[first + 1] = AfterChar("text", first)
      <4>1. f[first] = "text"
        BY <1>0, <2>2, <2>4
      <4> QED
        BY <2>2, <4>1, NextOf
    <3>2. CASE Opens(first) = "string"
      <4>1. k = 1 /\ first + k - 1 = first
        BY <2>2, <3>2
      <4>2. f[first + 1] = "string"
        BY <3>1, <3>2 DEF AfterChar
      <4>3. \A p \in first..(first + k - 1) : p = first
        BY <2>2, <4>1
      <4> QED
        BY <3>1, <3>2, <2>2, <4>1, <4>2, <4>3 DEF Neither, CommentAt, TextAt
    <3>3. CASE Opens(first) = "line"
      <4>1. k = 2 /\ (first + 1) + 1 = first + 2 /\ first + 1 \in Nat /\ first + 1 < Len(input)
        BY <1>0, <2>2, <2>3, <3>3
      <4>2. f[first + 1] = "line2"
        BY <3>1, <3>3 DEF AfterChar
      <4>3. f[(first + 1) + 1] = AfterChar("line2", first + 1)
        BY <4>1, <4>2, NextOf
      <4>4. f[first + 2] = "line"
        BY <4>1, <4>3 DEF AfterChar
      <4>5. \A p \in first..(first + k - 1) : p = first \/ p = first + 1
        BY <2>2, <4>1
      <4> QED
        BY <3>1, <2>2, <3>3, <4>1, <4>2, <4>4, <4>5 DEF Neither, CommentAt, TextAt
    <3>4. CASE Opens(first) = "block"
      <4>1. k = 2 /\ (first + 1) + 1 = first + 2 /\ first + 1 \in Nat /\ first + 1 < Len(input)
        BY <1>0, <2>2, <2>3, <3>4
      <4>2. f[first + 1] = "block2"
        BY <3>1, <3>4 DEF AfterChar
      <4>3. f[(first + 1) + 1] = AfterChar("block2", first + 1)
        BY <4>1, <4>2, NextOf
      <4>4. f[first + 2] = "block"
        BY <4>1, <4>3 DEF AfterChar
      <4>5. \A p \in first..(first + k - 1) : p = first \/ p = first + 1
        BY <2>2, <4>1
      <4> QED
        BY <3>1, <2>2, <3>4, <4>1, <4>2, <4>4, <4>5 DEF Neither, CommentAt, TextAt
    <3> QED
      BY <2>3, <3>2, <3>3, <3>4
  <2>7. Telling(f, e, upto, 0) /\ upto.pos = first /\ upto.start = lx.start
    <3>1. lx.start <= first /\ first <= Len(input)
      BY <1>0, <2>2
    <3> QED
      BY <1>1, <2>2, <3>1, MoveTelling
  <2> HIDE DEF upto, k
  <2>8. Telling(f, e, text, 1) /\ text.start = first /\ text.pos = first
    <3>1. ASSUME upto.start # upto.pos PROVE Holds(f, ItemOf(upto, "Text"))
      <4>1. /\ upto.start \in Nat /\ upto.pos \in Nat /\ upto.start < upto.pos /\ ~TextAt(f, upto.pos)
            /\ \A p \in upto.start..(upto.pos - 1) : f[p] = "text" /\ Opens(p) = "none"
            /\ upto.start > 0 => ~TextAt(f, upto.start - 1)
        BY <1>0, <1>s, <2>2, <2>5, <2>7, <3>1 DEF TextAt
      <4> QED
        BY <4>1, TextHolds
    <3>2. "Text" # "EOF" /\ upto.pos # Len(input)
      BY <1>0, <2>2, <2>7
    <3>3. Telling(f, e, text, 1) /\ text.start = upto.pos /\ text.pos = upto.pos
      BY <1>2, <2>7, <3>1, <3>2, FirstTelling
    <3> HIDE DEF text
    <3> QED
      BY <2>7, <3>3
  <2> HIDE DEF text
  <2>9. Telling(f, e, over, 1) /\ over.pos = first + k /\ over.start = first
    BY <2>3, <2>8, ForwardTelling
  <2> HIDE DEF over
  <2>10. Between(f, e, sep) /\ sep.start = first + k /\ sep.pos = first + k
    <3>1. first \in Nat /\ k \in Nat /\ over.start = first /\ over.pos = first + k
      BY <2>2, <2>3, <2>9
    <3>2. over.start..(over.pos - 1) = first..(first + k - 1)
      BY <3>1
    <3>3. Telling(f, e, over, 1) /\ \A p \in over.start..(over.pos - 1) : Neither(f, p)
      BY <2>6, <2>9, <3>2
    <3>4. Between(f, e, sep) /\ sep.start = over.pos /\ sep.pos = over.pos
      BY <3>3, SepTelling
    <3> HIDE DEF sep
    <3> QED
      BY <3>1, <3>4
  <2> HIDE DEF sep
  <2>11. sep \in Lexers
    BY <2>10 DEF Between
  <2>12. s \in Lexers
    BY <2>11 DEF Lexers
  <2>13. /\ s.pos = sep.pos /\ s.state = sep.state /\ s.fate = sep.fate /\ s.items = sep.items
         /\ s.closed = sep.closed
    BY <2>11 DEF Lexers
  <2>14. s.start = sep.start
    BY <2>10, <2>11 DEF Lexers
  <2> HIDE DEF s
  <2>15. Between(f, e, s)
    BY <2>10, <2>12, <2>13, <2>14 DEF Between
  <2> DEFINE state == Opens(first)
  <2>16. state \in {"string", "line", "block"} /\ f[first + k] = state
    BY <2>3, <2>6
  <2> HIDE DEF state
  <2>17. PlaceOf(f, s, state)
    <3>1. s.start = first + k /\ s.pos = first + k /\ s.pos <= Len(input) /\ f[s.pos] = state /\ s.start > 0
      BY <2>2, <2>3, <2>10, <2>13, <2>14, <2>16
    <3>2. state \in {"line", "block"} => k = 2
      BY <2>3 DEF state
    <3>3. k = 2 => ~CommentAt(f, s.start - 1)
      <4>1. s.start - 1 = first + k - 1
        BY <2>2, <2>3, <3>1
      <4> QED
        BY <2>6, <4>1, Zenon
    <3> QED
      BY <2>16, <3>1, <3>2, <3>3 DEF PlaceOf
  <2>18. Placed(f, e, Then(s, state))
    BY <2>15, <2>16, <2>17, ThenPlaced
  <2> QED
    BY <2>1, <2>18 DEF state
<1> QED
  BY <1>0, <1>3, <1>4, <1>5

(* What the delimiters are.                                                 *)
LEMMA AtFacts ==
  ASSUME input \in Seq(Chars), NEW i \in Nat
  PROVE  /\ At(i, strBegin) <=> i < Len(input) /\ input[i + 1] = "'"
         /\ At(i, <<"'", "'">>) <=> i + 1 < Len(input) /\ input[i + 1] = "'" /\ input[i + 2] = "'"
         /\ At(i, lcEnd) <=> i < Len(input) /\ input[i + 1] = "newline"
<1>0. Len(input) \in Nat
  OBVIOUS
<1>1. At(i, strBegin) <=> i < Len(input) /\ input[i + 1] = "'"
  <2>1. Len(strBegin) = 1 /\ strBegin[1] = "'"
    BY DEF strBegin
  <2>2. \A k : k \in 1..1 <=> k = 1
    OBVIOUS
  <2> QED
    BY <1>0, <2>1, <2>2 DEF At
<1>2. At(i, lcEnd) <=> i < Len(input) /\ input[i + 1] = "newline"
  <2>1. Len(lcEnd) = 1 /\ lcEnd[1] = "newline"
    BY DEF lcEnd
  <2>2. \A k : k \in 1..1 <=> k = 1
    OBVIOUS
  <2> QED
    BY <1>0, <2>1, <2>2 DEF At
<1>3. At(i, <<"'", "'">>) <=> i + 1 < Len(input) /\ input[i + 1] = "'" /\ input[i + 2] = "'"
  <2> DEFINE quotes == <<"'", "'">>
  <2>1. Len(quotes) = 2 /\ quotes[1] = "'" /\ quotes[2] = "'"
    OBVIOUS
  <2>2. \A k : k \in 1..2 <=> k = 1 \/ k = 2
    OBVIOUS
  <2> HIDE DEF quotes
  <2>3. At(i, quotes) <=> i + 1 < Len(input) /\ input[i + 1] = "'" /\ input[i + 2] = "'"
    BY <1>0, <2>1, <2>2 DEF At
  <2> QED
    BY <2>3 DEF quotes
<1> QED
  BY <1>1, <1>2, <1>3

(* The first delimiter from a position on, and none.                        *)
LEMMA FirstIndex ==
  ASSUME input \in Seq(Chars), NEW pos \in Nat, NEW needle, Len(needle) \in Nat, Index(needle, pos) # {}
  PROVE  LET i == Min(Index(needle, pos)) IN
         /\ i \in Nat /\ pos <= i /\ i + Len(needle) <= Len(input) /\ At(i, needle)
         /\ \A p \in pos..(i - 1) : ~At(p, needle)
<1> DEFINE I == Index(needle, pos)
           i == Min(I)
<1>0. Len(input) \in Nat
  OBVIOUS
<1>1. \A p : p \in I <=> p \in pos..(Len(input) - Len(needle)) /\ At(p, needle)
  BY DEF Index
<1>2. I \in SUBSET Nat
  BY <1>0, <1>1
<1>3. i \in I /\ \A p \in I : i <= p
  <2> HIDE DEF I
  <2> QED
    BY <1>2, MinFacts DEF I
<1> HIDE DEF I, i
<1>4. i \in Nat /\ pos <= i /\ i + Len(needle) <= Len(input) /\ At(i, needle)
  BY <1>0, <1>1, <1>3
<1>5. ASSUME NEW p \in pos..(i - 1) PROVE ~At(p, needle)
  <2>1. p \in pos..(Len(input) - Len(needle)) /\ ~(i <= p)
    BY <1>0, <1>4
  <2> QED
    BY <1>1, <1>3, <2>1
<1> QED
  BY <1>4, <1>5 DEF I, i

LEMMA NoIndex ==
  ASSUME input \in Seq(Chars), NEW pos \in Nat, NEW needle, Len(needle) \in Nat, Index(needle, pos) = {}
  PROVE  \A p \in pos..Len(input) : ~At(p, needle)
<1> SUFFICES ASSUME NEW p \in pos..Len(input), At(p, needle) PROVE FALSE
  OBVIOUS
<1>1. p + Len(needle) <= Len(input) /\ Len(input) \in Nat
  BY DEF At
<1>2. p \in pos..(Len(input) - Len(needle))
  BY <1>1
<1> QED
  BY <1>2 DEF Index

(* Up to the first quote the text is the string's.                          *)
LEMMA StringStays ==
  ASSUME NEW f, IsRun(f), input \in Seq(Chars), NEW q \in Nat, NEW r \in Nat, q <= r, r <= Len(input),
         f[q] = "string", \A p \in q..(r - 1) : ~At(p, strBegin)
  PROVE  \A p \in q..r : f[p] = "string"
<1> DEFINE state == "string"
<1>1. ASSUME NEW p \in q..(r - 1) PROVE AfterChar(state, p) = state
  <2>1. p \in Nat
    OBVIOUS
  <2>2. ~At(p, strBegin) /\ ~At(p, <<"'", "'">>)
    BY <2>1, AtFacts
  <2> QED
    BY <2>2 DEF AfterChar
<1>2. f[q] = state
  OBVIOUS
<1> HIDE DEF state
<1>3. \A p \in q..r : f[p] = state
  BY <1>1, <1>2, Stays
<1> QED
  BY <1>3 DEF state

(* In a tractable text a string ends at the first quote.                    *)
LEMMA StringEnds ==
  ASSUME NEW f, IsRun(f), Copes(f), input \in Seq(Chars), NEW lx, lx.pos \in Nat, lx.pos <= Len(input),
         f[lx.pos] = "string"
  PROVE  LET end == StringEnd(lx) IN
         /\ end \in Nat /\ lx.pos <= end /\ end < Len(input)
         /\ \A p \in lx.pos..end : f[p] = "string"
         /\ f[end + 1] = "text"
<1> DEFINE I == Index(strBegin, lx.pos)
           end == Min(I)
<1>0. Len(input) \in Nat /\ Len(strBegin) = 1 /\ Len(strBegin) \in Nat
  BY DEF strBegin
<1>1. I # {}
  <2> SUFFICES ASSUME I = {} PROVE FALSE
    OBVIOUS
  <2>1. \A p \in lx.pos..Len(input) : ~At(p, strBegin)
    BY <1>0, NoIndex
  <2>2. \A p \in lx.pos..(Len(input) - 1) : p \in lx.pos..Len(input)
    BY <1>0
  <2>3. \A p \in lx.pos..(Len(input) - 1) : ~At(p, strBegin)
    BY <2>1, <2>2
  <2>4. Len(input) <= Len(input) /\ Len(input) \in lx.pos..Len(input)
    BY <1>0
  <2>5. \A p \in lx.pos..Len(input) : f[p] = "string"
    BY <1>0, <2>3, <2>4, StringStays
  <2> QED
    BY <2>4, <2>5 DEF Copes
<1>2. /\ end \in Nat /\ lx.pos <= end /\ end + 1 <= Len(input) /\ At(end, strBegin)
      /\ \A p \in lx.pos..(end - 1) : ~At(p, strBegin)
  <2>1. /\ end \in Nat /\ lx.pos <= end /\ end + Len(strBegin) <= Len(input) /\ At(end, strBegin)
        /\ \A p \in lx.pos..(end - 1) : ~At(p, strBegin)
    BY <1>0, <1>1, FirstIndex
  <2> QED
    BY <1>0, <2>1
<1>3. StringEnd(lx) = RunEnd(end)
  BY <1>1 DEF StringEnd
<1> HIDE DEF I, end
<1>4. end \in Nat /\ lx.pos <= end /\ end < Len(input)
  BY <1>0, <1>2
<1>5. \A p \in lx.pos..end : f[p] = "string"
  <2>1. end <= Len(input)
    BY <1>0, <1>4
  <2> QED
    BY <1>2, <1>4, <2>1, StringStays
<1>6. f[end] = "string"
  <2>1. end \in lx.pos..end
    BY <1>4
  <2> QED
    BY <1>5, <2>1
<1>7. f[end + 1] = AfterChar("string", end)
  BY <1>4, <1>6, NextOf
<1>8. ~At(end, <<"'", "'">>)
  <2> SUFFICES ASSUME At(end, <<"'", "'">>) PROVE FALSE
    OBVIOUS
  <2>1. f[end + 1] = "escape2"
    BY <1>7 DEF AfterChar
  <2>2. end + 1 \in DOMAIN f
    BY <1>0, <1>2 DEF IsRun
  <2> QED
    BY <2>1, <2>2 DEF Copes
<1>9. f[end + 1] = "text"
  BY <1>2, <1>7, <1>8 DEF AfterChar
<1>10. RunEnd(end) = end
  <2> DEFINE J == {j \in end..(Len(input) - 1) : ~At(j + 1, strBegin)}
             first == Min(J)
  <2>1. ~At(end + 1, strBegin)
    <3>1. input[end + 1] = "'"
      BY <1>2, <1>4, AtFacts
    <3>2. ~(end + 1 < Len(input) /\ input[end + 2] = "'")
      BY <1>4, <1>8, <3>1, AtFacts
    <3>3. end + 1 \in Nat /\ (end + 1) + 1 = end + 2
      BY <1>4
    <3>4. At(end + 1, strBegin) <=> end + 1 < Len(input) /\ input[(end + 1) + 1] = "'"
      BY <3>3, AtFacts
    <3> QED
      BY <3>2, <3>3, <3>4
  <2>2. end \in J /\ J \in SUBSET Nat /\ \A j \in J : end <= j
    BY <1>0, <1>4, <2>1
  <2>3. RunEnd(end) = first
    BY DEF RunEnd
  <2>4. first \in J /\ first <= end
    <3> HIDE DEF J
    <3> QED
      BY <2>2, MinFacts
  <2> HIDE DEF J, first
  <2>5. first \in Nat /\ end <= first
    BY <2>2, <2>4
  <2> QED
    BY <1>4, <2>3, <2>4, <2>5
<1> QED
  BY <1>3, <1>4, <1>5, <1>9, <1>10

LEMMA StringPlaced ==
  ASSUME NEW f, IsRun(f), Copes(f), NEW e \in Seq(Item), NEW lx, Ready(e, lx), Placed(f, e, lx), ~lx.closed,
         lx.state = "string", input \in Seq(Chars)
  PROVE  Placed(f, e, lexString(lx))
<1> DEFINE end == StringEnd(lx)
           upto == [lx EXCEPT !.pos = end]
           string == emit(upto, "String")
           over == Forward(string, 1)
           sep == emit(over, "Sep")
<1>0. /\ lx.start = lx.pos /\ lx.pos \in Nat /\ Len(input) \in Nat
      /\ lx.pos <= Len(input) /\ f[lx.pos] = "string"
  BY ReadyFacts DEF Placed, PlaceOf
<1>1. Telling(f, e, lx, 0)
  BY <1>0, ReadyTelling
<1>2. lexString(lx) = Then(sep, "text")
  BY DEF lexString
<1>3. /\ end \in Nat /\ lx.pos <= end /\ end < Len(input)
      /\ \A p \in lx.pos..end : f[p] = "string"
      /\ f[end + 1] = "text"
  BY <1>0, StringEnds
<1> HIDE DEF end
<1>4. Telling(f, e, upto, 0) /\ upto.pos = end /\ upto.start = lx.pos
  <2>1. lx.start <= end /\ end <= Len(input)
    BY <1>0, <1>3
  <2> QED
    BY <1>0, <1>1, <1>3, <2>1, MoveTelling
<1> HIDE DEF upto
<1>5. Telling(f, e, string, 1) /\ string.start = end /\ string.pos = end
  <2> DEFINE t == "String"
  <2>1. \A p \in upto.start..(upto.pos - 1) : f[p] = "string"
    <3>1. \A p \in lx.pos..(end - 1) : p \in lx.pos..end
      BY <1>0, <1>3
    <3> QED
      BY <1>3, <1>4, <3>1
  <2>2. Holds(f, ItemOf(upto, t))
    BY <2>1 DEF Holds, HasType, ItemOf, Inside
  <2>3. upto.pos # Len(input)
    BY <1>0, <1>3, <1>4
  <2>4. t \in Types /\ t # "EOF"
    BY DEF Types
  <2> HIDE DEF t
  <2>5. LET s == emit(upto, t) IN Telling(f, e, s, 1) /\ s.start = upto.pos /\ s.pos = upto.pos
    BY <1>4, <2>2, <2>3, <2>4, FirstTelling
  <2> QED
    BY <1>4, <2>5 DEF t
<1> HIDE DEF string
<1>6. Telling(f, e, over, 1) /\ over.pos = end + 1 /\ over.start = end
  <2>1. string.pos + 1 <= Len(input)
    BY <1>0, <1>3, <1>5
  <2> QED
    BY <1>5, <2>1, ForwardTelling
<1> HIDE DEF over
<1>7. Between(f, e, sep) /\ sep.start = end + 1 /\ sep.pos = end + 1
  <2>1. \A p \in over.start..(over.pos - 1) : Neither(f, p)
    <3>1. \A p \in end..((end + 1) - 1) : p = end /\ p \in lx.pos..end
      BY <1>0, <1>3
    <3> QED
      BY <1>3, <1>6, <3>1 DEF Neither, CommentAt, TextAt
  <2>2. Between(f, e, sep) /\ sep.start = over.pos /\ sep.pos = over.pos
    BY <1>6, <2>1, SepTelling
  <2> HIDE DEF sep
  <2> QED
    BY <1>6, <2>2
<1> HIDE DEF sep
<1>8. PlaceOf(f, sep, "text")
  <2>1. sep.start <= sep.pos /\ sep.pos <= Len(input) /\ \A p \in sep.start..sep.pos : p = end + 1
        /\ sep.start - 1 = end /\ end \in lx.pos..end
    BY <1>0, <1>3, <1>7
  <2> QED
    BY <1>3, <1>7, <2>1 DEF PlaceOf
<1> QED
  BY <1>2, <1>7, <1>8, ThenPlaced

(* A comment: up to where it ends, and at the end of the input.             *)
LEMMA CommentTelling ==
  ASSUME NEW f, NEW e \in Seq(Item), NEW lx, Telling(f, e, lx, 0), input \in Seq(Chars), lx.pos < Len(input),
         \A p \in lx.start..(lx.pos - 1) : CommentAt(f, p),
         lx.start > 0 => ~CommentAt(f, lx.start - 1), ~CommentAt(f, lx.pos)
  PROVE  LET s == emit(lx, "Comment") IN
         Telling(f, e, s, 1) /\ s.start = lx.pos /\ s.pos = lx.pos
<1> DEFINE t == "Comment"
<1>0. lx.start \in Nat /\ lx.pos \in Nat /\ lx.start <= lx.pos /\ Len(input) \in Nat
  BY DEF Telling, Lexers
<1>1. ASSUME lx.start # lx.pos PROVE Holds(f, ItemOf(lx, t))
  <2>1. lx.start < lx.pos
    BY <1>0, <1>1
  <2> QED
    BY <1>0, <2>1, CommentHolds
<1>2. lx.pos # Len(input) /\ t \in Types /\ t # "EOF"
  BY <1>0 DEF Types
<1> HIDE DEF t
<1>3. LET s == emit(lx, t) IN Telling(f, e, s, 1) /\ s.start = lx.pos /\ s.pos = lx.pos
  BY <1>1, <1>2, FirstTelling
<1> QED
  BY <1>3 DEF t

LEMMA EofPlaced ==
  ASSUME NEW f, NEW e \in Seq(Item), NEW lx, Telling(f, e, lx, 0), lx.start = lx.pos, input \in Seq(Chars),
         lx.pos = Len(input)
  PROVE  Placed(f, e, Then(emit(lx, "EOF"), "nil"))
<1> DEFINE t == "EOF"
           s == emit(lx, t)
<1>0. Len(input) \in Nat
  OBVIOUS
<1>2. t \in Types /\ t = "EOF"
  BY DEF Types
<1> HIDE DEF t
<1>3. Ended(f, e, s)
  BY <1>2, Fewer, EmitTelling
<1> HIDE DEF s
<1>4. Between(f, e, s) /\ PlaceOf(f, s, "nil")
  BY <1>0, <1>3, SentBetween, EndedPlace
<1> QED
  BY <1>4, ThenPlaced DEF s, t

LEMMA LineStays ==
  ASSUME NEW f, IsRun(f), input \in Seq(Chars), NEW q \in Nat, NEW r \in Nat, q <= r, r <= Len(input),
         f[q] = "line", \A p \in q..(r - 1) : ~At(p, lcEnd)
  PROVE  \A p \in q..r : f[p] = "line"
<1> DEFINE state == "line"
<1>1. f[q] = state /\ \A p \in q..(r - 1) : AfterChar(state, p) = state
  BY DEF AfterChar
<1> HIDE DEF state
<1>2. \A p \in q..r : f[p] = state
  BY <1>1, Stays
<1> QED
  BY <1>2 DEF state

LEMMA BlockStays ==
  ASSUME NEW f, IsRun(f), input \in Seq(Chars), NEW q \in Nat, NEW r \in Nat, q <= r, r <= Len(input),
         f[q] = "block", \A p \in q..(r - 1) : ~At(p, bcEnd)
  PROVE  \A p \in q..r : f[p] = "block"
<1> DEFINE state == "block"
<1>1. f[q] = state /\ \A p \in q..(r - 1) : AfterChar(state, p) = state
  BY DEF AfterChar
<1> HIDE DEF state
<1>2. \A p \in q..r : f[p] = state
  BY <1>1, Stays
<1> QED
  BY <1>2 DEF state

(* Lex ends the input with a line end.                                      *)
LEMMA LinePlaced ==
  ASSUME NEW f, IsRun(f), Copes(f), NEW e \in Seq(Item), NEW lx, Ready(e, lx), Placed(f, e, lx), ~lx.closed,
         lx.state = "line", input \in Seq(Chars), LineEnded
  PROVE  Placed(f, e, lexLineComment(lx))
<1>0. /\ lx.start = lx.pos /\ lx.pos \in Nat /\ Len(input) \in Nat
      /\ lx.pos <= Len(input) /\ f[lx.pos] = "line" /\ ~CommentAt(f, lx.start - 1)
  BY ReadyFacts DEF Placed, PlaceOf
<1>1. Telling(f, e, lx, 0)
  BY <1>0, ReadyTelling
<1>2. CASE lx.pos >= Len(input)
  <2>1. lexLineComment(lx) = Then(emit(lx, "EOF"), "nil") /\ lx.pos = Len(input)
    BY <1>0, <1>2 DEF lexLineComment
  <2> QED
    BY <1>0, <1>1, <2>1, EofPlaced
<1>3. CASE lx.pos < Len(input)
  <2> DEFINE I == Index(lcEnd, lx.pos)
             end == Min(I)
             upto == [lx EXCEPT !.pos = end]
             comment == emit(upto, "Comment")
             over == Forward(comment, 1)
             s == SkipLineEnd(comment)
  <2>1. I # {}
    <3> DEFINE last == Len(input) - 1
    <3>1. last \in Nat /\ last < Len(input) /\ last + 1 = Len(input)
      BY <1>0, <1>3
    <3> HIDE DEF last
    <3>2. At(last, lcEnd)
      BY <3>1, AtFacts DEF LineEnded
    <3>3. Len(lcEnd) = 1 /\ last \in lx.pos..(Len(input) - 1)
      BY <1>0, <1>3, <3>1 DEF lcEnd
    <3> QED
      BY <3>2, <3>3 DEF Index
  <2>2. /\ end \in Nat /\ lx.pos <= end /\ end + 1 <= Len(input) /\ At(end, lcEnd)
        /\ \A p \in lx.pos..(end - 1) : ~At(p, lcEnd)
    <3>1. Len(lcEnd) \in Nat /\ Len(lcEnd) = 1
      BY DEF lcEnd
    <3>2. /\ end \in Nat /\ lx.pos <= end /\ end + Len(lcEnd) <= Len(input) /\ At(end, lcEnd)
          /\ \A p \in lx.pos..(end - 1) : ~At(p, lcEnd)
      BY <1>0, <2>1, <3>1, FirstIndex
    <3> QED
      BY <3>1, <3>2
  <2>3. lexLineComment(lx) = Then(CheckStart(s), "text")
    <3>1. ~(lx.pos >= Len(input))
      BY <1>0, <1>3
    <3> QED
      BY <2>1, <3>1 DEF lexLineComment
  <2> HIDE DEF I, end
  <2>4. end < Len(input) /\ end <= Len(input)
    BY <1>0, <2>2
  <2>5. \A p \in lx.pos..end : f[p] = "line"
    BY <1>0, <2>2, <2>4, LineStays
  <2>6. f[end + 1] = "text"
    <3>1. end \in lx.pos..end
      BY <1>0, <2>2
    <3>2. f[end + 1] = AfterChar("line", end)
      BY <2>2, <2>4, <2>5, <3>1, NextOf
    <3> QED
      BY <2>2, <3>2 DEF AfterChar
  <2>u. Telling(f, e, upto, 0) /\ upto.pos = end /\ upto.start = lx.start
    <3>1. lx.start <= end
      BY <1>0, <2>2
    <3> QED
      BY <1>1, <2>2, <2>4, <3>1, MoveTelling
  <2> HIDE DEF upto
  <2>7. Telling(f, e, comment, 1) /\ comment.start = end /\ comment.pos = end
    <3>1. ASSUME NEW p \in lx.pos..(end - 1) PROVE CommentAt(f, p)
      <4>1. p \in lx.pos..end
        BY <1>0, <2>2
      <4> QED
        BY <2>2, <2>5, <4>1 DEF CommentAt
    <3>2. ~CommentAt(f, end)
      <4>1. end \in lx.pos..end
        BY <1>0, <2>2
      <4> QED
        BY <2>2, <2>5, <4>1 DEF CommentAt
    <3>3. upto.start = lx.pos /\ upto.pos < Len(input) /\ ~CommentAt(f, upto.start - 1) /\ ~CommentAt(f, upto.pos)
          /\ \A p \in upto.start..(upto.pos - 1) : CommentAt(f, p)
      BY <1>0, <2>4, <2>u, <3>1, <3>2
    <3> QED
      BY <2>u, <3>3, CommentTelling
  <2>8. s = [over EXCEPT !.start = over.start + 1]
    BY DEF SkipLineEnd
  <2> HIDE DEF comment, s
  <2>9. Telling(f, e, over, 1) /\ over.pos = end + 1 /\ over.start = end
    BY <2>2, <2>7, ForwardTelling
  <2> HIDE DEF over
  <2>10. over \in Lexers /\ over.start + 1 \in Nat
    BY <2>2, <2>9 DEF Telling
  <2>11. s \in Lexers
    BY <2>8, <2>10 DEF Lexers
  <2>12. s.state = over.state /\ s.pos = over.pos /\ s.items = over.items /\ s.fate = over.fate
         /\ s.closed = over.closed
    BY <2>8, <2>10 DEF Lexers
  <2>13. s.start = end + 1
    BY <2>8, <2>9, <2>10 DEF Lexers
  <2>14. Told(f, e \o s.items, end + 1)
    <3>1. Told(f, e \o s.items, end)
      BY <2>9, <2>12 DEF Telling
    <3>2. Neither(f, end)
      <4>1. end \in lx.pos..end
        BY <1>0, <2>2
      <4> QED
        BY <2>2, <2>5, <4>1 DEF Neither, CommentAt, TextAt
    <3>3. \A p \in end..((end + 1) - 1) : p = end
      BY <2>2
    <3>4. end + 1 \in Nat
      BY <2>2
    <3> QED
      BY <2>2, <3>1, <3>2, <3>3, <3>4, ToldMore
  <2>15. Between(f, e, s)
    BY <2>9, <2>11, <2>12, <2>13, <2>14 DEF Telling, Between
  <2>16. CheckStart(s) = s
    BY <2>2, <2>9, <2>12, <2>13 DEF CheckStart
  <2>17. PlaceOf(f, s, "text")
    <3>1. s.start <= s.pos /\ s.pos <= Len(input) /\ (\A p \in s.start..s.pos : p = end + 1)
          /\ s.start - 1 = end /\ s.start = s.pos
      BY <1>0, <2>2, <2>9, <2>12, <2>13
    <3>2. f[end] = "line"
      <4>1. end \in lx.pos..end
        BY <1>0, <2>2
      <4> QED
        BY <2>5, <4>1
    <3> QED
      BY <2>6, <3>1, <3>2 DEF PlaceOf
  <2> QED
    BY <2>3, <2>15, <2>16, <2>17, ThenPlaced
<1> QED
  BY <1>0, <1>2, <1>3

LEMMA BlockPlaced ==
  ASSUME NEW f, IsRun(f), Copes(f), NEW e \in Seq(Item), NEW lx, Ready(e, lx), Placed(f, e, lx), ~lx.closed,
         lx.state = "block", input \in Seq(Chars)
  PROVE  Placed(f, e, lexBlockComment(lx))
<1>0. /\ lx.start = lx.pos /\ lx.pos \in Nat /\ Len(input) \in Nat
      /\ lx.pos <= Len(input) /\ f[lx.pos] = "block" /\ Len(bcEnd) = 2 /\ Len(bcEnd) \in Nat
      /\ ~CommentAt(f, lx.start - 1)
  BY ReadyFacts DEF Placed, PlaceOf, bcEnd
<1>1. Telling(f, e, lx, 0)
  BY <1>0, ReadyTelling
<1>2. CASE lx.pos >= Len(input)
  <2>1. lexBlockComment(lx) = Then(emit(lx, "EOF"), "nil") /\ lx.pos = Len(input)
    BY <1>0, <1>2 DEF lexBlockComment
  <2> QED
    BY <1>0, <1>1, <2>1, EofPlaced
<1>3. CASE lx.pos < Len(input) /\ Index(bcEnd, lx.pos) = {}
  <2> DEFINE t == "Error"
             s == emit(lx, t)
  <2>1. lexBlockComment(lx) = Then(s, "nil")
    <3>1. ~(lx.pos >= Len(input))
      BY <1>0, <1>3
    <3> QED
      BY <1>3, <3>1 DEF lexBlockComment
  <2>2. \A p \in lx.pos..Len(input) : f[p] = "block"
    <3>1. \A p \in lx.pos..Len(input) : ~At(p, bcEnd)
      BY <1>0, <1>3, NoIndex
    <3>2. \A p \in lx.pos..(Len(input) - 1) : p \in lx.pos..Len(input)
      BY <1>0
    <3>3. \A p \in lx.pos..(Len(input) - 1) : ~At(p, bcEnd)
      BY <3>1, <3>2
    <3>4. Len(input) <= Len(input) /\ Len(input) \in lx.pos..Len(input)
      BY <1>0
    <3> QED
      BY <1>0, <3>3, <3>4, BlockStays
  <2>3. lx.start = lx.pos
    BY <1>0
  <2>4. t \in Types /\ t # "EOF" /\ lx.pos # Len(input)
    BY <1>0, <1>3 DEF Types
  <2> HIDE DEF t
  <2>5. Telling(f, e, s, 1) /\ s.start = lx.pos
    BY <1>1, <2>3, <2>4, FirstTelling
  <2> HIDE DEF s
  <2>6. \A p \in s.start..(Len(input) - 1) : Neither(f, p)
    <3> SUFFICES ASSUME NEW p \in lx.pos..(Len(input) - 1) PROVE Neither(f, p)
      BY <2>5
    <3>1. p \in lx.pos..Len(input) /\ \A q \in p..Len(input) : q \in lx.pos..Len(input)
      BY <1>0
    <3>2. f[p] = "block" /\ \A q \in p..Len(input) : f[q] = "block"
      BY <2>2, <3>1
    <3> QED
      BY <3>2 DEF Neither, CommentAt, TextAt
  <2>7. Between(f, e, s) /\ PlaceOf(f, s, "nil")
    BY <2>5, <2>6, SentBetween DEF PlaceOf
  <2> QED
    BY <2>1, <2>7, ThenPlaced
<1>4. CASE lx.pos < Len(input) /\ Index(bcEnd, lx.pos) # {}
  <2> DEFINE end == Min(Index(bcEnd, lx.pos))
             upto == [lx EXCEPT !.pos = end]
             comment == emit(upto, "Comment")
             closing == Forward(comment, 2)
             sep == emit(closing, "Sep")
             s == Forward(sep, 2)
  <2>1. lexBlockComment(lx) = Then(CheckStart(s), "text")
    <3>1. ~(lx.pos >= Len(input))
      BY <1>0, <1>4
    <3> QED
      BY <1>4, <3>1 DEF lexBlockComment
  <2>2. /\ end \in Nat /\ lx.pos <= end /\ end + 2 <= Len(input) /\ At(end, bcEnd)
        /\ \A p \in lx.pos..(end - 1) : ~At(p, bcEnd)
    <3>0. lx.pos \in Nat /\ Len(bcEnd) \in Nat /\ Index(bcEnd, lx.pos) # {}
      BY <1>0, <1>4
    <3>1. /\ end \in Nat /\ lx.pos <= end /\ end + Len(bcEnd) <= Len(input) /\ At(end, bcEnd)
          /\ \A p \in lx.pos..(end - 1) : ~At(p, bcEnd)
      BY <3>0, FirstIndex
    <3> QED
      BY <1>0, <3>1
  <2> HIDE DEF end
  <2>3. end < Len(input) /\ end <= Len(input) /\ end + 1 \in Nat /\ end + 1 < Len(input)
        /\ (end + 1) + 1 = end + 2 /\ end \in lx.pos..end /\ end + 1 \in 0..Len(input)
    BY <1>0, <2>2
  <2>4. \A p \in lx.pos..end : f[p] = "block"
    BY <1>0, <2>2, <2>3, BlockStays
  <2>5. f[end + 1] = "close2"
    <3>1. f[end + 1] = AfterChar("block", end)
      BY <2>2, <2>3, <2>4, NextOf
    <3> QED
      BY <2>2, <3>1 DEF AfterChar
  <2>6. f[end + 2] = "text"
    <3>1. f[(end + 1) + 1] = AfterChar("close2", end + 1)
      BY <2>3, <2>5, NextOf
    <3> QED
      BY <2>3, <3>1 DEF AfterChar
  <2>7. end + 4 <= Len(input) /\ Opens(end + 2) = "none" /\ Opens(end + 3) = "none"
    <3>1. end + 1 \in DOMAIN f
      BY <2>3 DEF IsRun
    <3>2. (end + 1) + 3 <= Len(input) /\ Opens((end + 1) + 1) = "none" /\ Opens((end + 1) + 2) = "none"
      BY <2>5, <3>1 DEF Copes
    <3>3. (end + 1) + 3 = end + 4 /\ (end + 1) + 1 = end + 2 /\ (end + 1) + 2 = end + 3
      BY <2>2
    <3> QED
      BY <3>2, <3>3
  <2>8. \A p \in (end + 2)..(end + 4) : f[p] = "text"
    <3> DEFINE q == end + 2
               r == end + 4
    <3>1. q \in Nat /\ r \in Nat /\ q <= r /\ r <= Len(input) /\ f[q] = "text"
      BY <2>2, <2>6, <2>7
    <3>2. \A p \in q..(r - 1) : p = end + 2 \/ p = end + 3
      BY <2>2
    <3>3. \A p \in q..(r - 1) : Opens(p) = "none"
      BY <2>7, <3>2
    <3> HIDE DEF q, r
    <3>4. \A p \in q..r : f[p] = "text"
      BY <3>1, <3>3, TextStays
    <3> QED
      BY <3>4 DEF q, r
  <2>u. Telling(f, e, upto, 0) /\ upto.pos = end /\ upto.start = lx.start
    <3>1. lx.start <= end
      BY <1>0, <2>2
    <3> QED
      BY <1>1, <2>2, <2>3, <3>1, MoveTelling
  <2> HIDE DEF upto
  <2>9. Telling(f, e, comment, 1) /\ comment.start = end /\ comment.pos = end
    <3>1. ASSUME NEW p \in lx.pos..(end - 1) PROVE CommentAt(f, p)
      <4>1. p \in lx.pos..end /\ end + 1 \in p..Len(input)
        BY <1>0, <2>2, <2>3
      <4> QED
        BY <2>2, <2>4, <2>5, <4>1 DEF CommentAt
    <3>2. ~CommentAt(f, end)
      BY <2>2, <2>3, <2>4 DEF CommentAt
    <3>3. upto.start = lx.pos /\ upto.pos < Len(input) /\ ~CommentAt(f, upto.start - 1) /\ ~CommentAt(f, upto.pos)
          /\ \A p \in upto.start..(upto.pos - 1) : CommentAt(f, p)
      BY <1>0, <2>3, <2>u, <3>1, <3>2
    <3> QED
      BY <2>u, <3>3, CommentTelling
  <2> HIDE DEF comment
  <2>10. Telling(f, e, closing, 1) /\ closing.pos = end + 2 /\ closing.start = end
    <3>1. comment.pos + 2 <= Len(input)
      BY <2>2, <2>9
    <3> QED
      BY <2>9, <3>1, ForwardTelling
  <2> HIDE DEF closing
  <2>11. Telling(f, e, sep, 2) /\ sep.start = end + 2 /\ sep.pos = end + 2
    <3>1. \A p \in closing.start..(closing.pos - 1) : Neither(f, p)
      <4>1. \A p \in end..((end + 2) - 1) : p = end \/ p = end + 1
        BY <2>2
      <4>2. Neither(f, end) /\ Neither(f, end + 1)
        BY <2>2, <2>3, <2>4, <2>5 DEF Neither, CommentAt, TextAt
      <4> QED
        BY <2>10, <4>1, <4>2
    <3>2. closing.pos # Len(input)
      BY <1>0, <2>2, <2>7, <2>10
    <3>3. Telling(f, e, sep, 2) /\ sep.start = closing.pos /\ sep.pos = closing.pos
      BY <2>10, <3>1, <3>2, SepTelling
    <3> HIDE DEF sep
    <3> QED
      BY <2>10, <3>3
  <2> HIDE DEF sep
  <2>12. Telling(f, e, s, 2) /\ s.pos = end + 4 /\ s.start = end + 2
    <3>1. sep.pos + 2 <= Len(input) /\ sep.pos + 2 = end + 4
      BY <2>2, <2>7, <2>11
    <3>2. Telling(f, e, s, 2) /\ s.pos = sep.pos + 2 /\ s.start = sep.start
      BY <2>11, <3>1, ForwardTelling
    <3> HIDE DEF s
    <3> QED
      BY <2>11, <3>1, <3>2
  <2> HIDE DEF s
  <2>13. CheckStart(s) = s
    BY <2>2, <2>12 DEF CheckStart
  <2>14. PlaceOf(f, s, "text")
    <3>1. s.start <= s.pos /\ s.pos <= Len(input) /\ s.start - 1 = end + 1 /\ s.start > 0
          /\ s.pos = s.start + 2 /\ s.start + 1 = end + 3
      BY <1>0, <2>2, <2>7, <2>12
    <3>2. Skipped(f, s)
      BY <2>5, <2>7, <2>12, <3>1 DEF Skipped
    <3> QED
      BY <2>5, <2>8, <2>12, <3>1, <3>2 DEF PlaceOf
  <2>15. Between(f, e, s)
    BY <2>12, SentBetween
  <2> QED
    BY <2>1, <2>13, <2>14, <2>15, ThenPlaced
<1> QED
  BY <1>0, <1>2, <1>3, <1>4

-----------------------------------------------------------------------------
(* The invariant under the rules: wherever the lexer is in a tractable text *)
(* it is there with what it emitted told.                                  *)
Tells(f, e, lx) ==
  \/ Placed(f, e, lx)
  \/ /\ lx.fate = "ok" /\ lx.state = "returned" /\ Told(f, e \o lx.items, Len(input))
     /\ \E i \in DOMAIN e : e[i].typ = "EOF" /\ \A j \in DOMAIN e : j <= i

SyntaxInv == \A f : IsRun(f) /\ Copes(f) => Tells(f, out, l)

SInv == IInv /\ SyntaxInv

LEMMA InitSyntax == DocsInit => SyntaxInv
<1> SUFFICES ASSUME DocsInit PROVE SyntaxInv
  OBVIOUS
<1>0. IInv /\ input \in Seq(Chars) /\ Len(input) \in Nat
  BY InitInv DEF IInv, LexerTypeOK
<1>2. SyntaxInv
  <2> SUFFICES ASSUME NEW f, IsRun(f) PROVE Placed(f, out, l)
    BY DEF SyntaxInv, Tells
  <2>1. /\ l = [state |-> "text", start |-> 0, pos |-> 0, items |-> <<>>, closed |-> FALSE, fate |-> "ok"]
        /\ out = <<>>
    BY DEF DocsInit, Init
  <2>2. l.start = 0 /\ l.pos = 0 /\ l.items = <<>> /\ l.fate = "ok" /\ l.state = "text" /\ ~l.closed
    BY <2>1
  <2>3. l \in Lexers
    BY <1>0 DEF IInv, LexerTypeOK
  <2>4. Told(f, out \o l.items, 0)
    <3>1. out \o l.items = <<>>
      BY <2>1, <2>2
    <3> QED
      BY <3>1 DEF Told
  <2>5. Between(f, out, l)
    <3>1. DOMAIN l.items = {}
      BY <2>2
    <3> QED
      BY <2>2, <2>3, <2>4, <3>1 DEF Between
  <2>6. PlaceOf(f, l, "text")
    <3>1. f[0] = "text" /\ \A p \in 0..0 : p = 0
      BY DEF IsRun
    <3>2. l.start <= l.pos /\ l.pos <= Len(input) /\ l.start = l.pos /\ ~(l.start > 0)
      BY <1>0, <2>2
    <3> QED
      BY <2>2, <3>1, <3>2 DEF PlaceOf
  <2> QED
    BY <2>2, <2>5, <2>6 DEF Placed
<1> QED
  BY <1>2

(* The rules are of the input, which stays.                                 *)
LEMMA RulesStay ==
  ASSUME NEW f, input' = input
  PROVE  (IsRun(f)' <=> IsRun(f)) /\ (Copes(f)' <=> Copes(f))
<1>1. IsRun(f)' <=> IsRun(f)
  BY DEF IsRun, AfterChar, Opens, At, strBegin, lcBegin, bcBegin, lcEnd, bcEnd
<1>2. Copes(f)' <=> Copes(f)
  BY DEF Copes, Opens, At, strBegin, lcBegin, bcBegin
<1> QED
  BY <1>1, <1>2

LEMMA TellsStay ==
  ASSUME NEW f, input' = input, Tells(f, out', l')
  PROVE  Tells(f, out, l)'
<1>1. \A p : (CommentAt(f, p)' <=> CommentAt(f, p)) /\ (TextAt(f, p)' <=> TextAt(f, p)) /\ Opens(p)' = Opens(p)
  BY DEF CommentAt, TextAt, Opens, At, strBegin, lcBegin, bcBegin, lcEnd, bcEnd
<1>2. \A p : Neither(f, p)' <=> Neither(f, p)
  BY <1>1 DEF Neither
<1>3. \A x : Holds(f, x)' <=> Holds(f, x)
  BY <1>1, <1>2 DEF Holds, HasType, CommentEnds, TextEnds, EndsIn, Inside
<1>4. \A e, n : Told(f, e, n)' <=> Told(f, e, n)
  BY <1>2, <1>3 DEF Told, Inside
<1> QED
  BY <1>1, <1>2, <1>4 DEF Tells, Placed, Between, PlaceOf, Skipped

LEMMA LexSyntax ==
  ASSUME SInv, Lex, NEW f, IsRun(f), Copes(f)
  PROVE  Tells(f, out', l')
<1>1. /\ Running /\ l.items = <<>> /\ ~l.closed /\ l.state \in {"text", "string", "line", "block"}
      /\ out' = out
      /\ \/ l.state = "text" /\ l' = lexText(l)
         \/ l.state = "string" /\ l' = lexString(l)
         \/ l.state = "line" /\ l' = lexLineComment(l)
         \/ l.state = "block" /\ l' = lexBlockComment(l)
  BY DEF Lex, Step
<1>2. Ready(out, l) /\ out \in Seq(Item) /\ input \in Seq(Chars) /\ LineEnded
  BY <1>1, InvReady DEF SInv
<1>3. Placed(f, out, l)
  BY <1>1 DEF SInv, SyntaxInv, Tells
<1>4. Placed(f, out, l')
  <2>1. CASE l.state = "text" /\ l' = lexText(l)
    BY <1>1, <1>2, <1>3, <2>1, TextPlaced
  <2>2. CASE l.state = "string" /\ l' = lexString(l)
    BY <1>1, <1>2, <1>3, <2>2, StringPlaced
  <2>3. CASE l.state = "line" /\ l' = lexLineComment(l)
    BY <1>1, <1>2, <1>3, <2>3, LinePlaced
  <2>4. CASE l.state = "block" /\ l' = lexBlockComment(l)
    BY <1>1, <1>2, <1>3, <2>4, BlockPlaced
  <2> QED
    BY <1>1, <2>1, <2>2, <2>3, <2>4
<1> QED
  BY <1>1, <1>4 DEF Tells

LEMMA LastOf ==
  ASSUME NEW s \in Seq(Item), NEW x
  PROVE  \E i \in DOMAIN Append(s, x) : Append(s, x)[i] = x /\ \A j \in DOMAIN Append(s, x) : j <= i
<1>1. PICK n \in Nat : n = Len(s)
  OBVIOUS
<1>2. DOMAIN Append(s, x) = 1..(n+1) /\ Append(s, x)[n+1] = x
  BY <1>1
<1>3. n + 1 \in 1..(n+1) /\ \A j \in 1..(n+1) : j <= n + 1
  BY <1>1
<1> QED
  BY <1>2, <1>3

LEMMA ReceiveSyntax ==
  ASSUME SInv, NEW goesOn, Receive(goesOn), NEW f, IsRun(f), Copes(f)
  PROVE  Tells(f, out', l')
<1> DEFINE item == Head(l.items)
           state == AfterItem(item, goesOn)
           rest == [l EXCEPT !.items = Tail(l.items), !.state = state]
           o == Append(out, item)
<1>0. /\ input \in Seq(Chars) /\ l \in Lexers /\ out \in Seq(Item) /\ l.items \in Seq(Item) /\ l.items # <<>>
      /\ l.fate = "ok" /\ l.state # "returned"
  BY DEF SInv, IInv, LexerTypeOK, Lexers, Receive, Running
<1>1. input' = input /\ out' = o /\ l' = rest
  BY DEF Receive
<1>2. Between(f, out, l) /\ PlaceOf(f, l, l.state)
  BY <1>0 DEF SInv, SyntaxInv, Tells, Placed
<1>3. Tail(l.items) \in Seq(Item) /\ o \o Tail(l.items) = out \o l.items
  BY <1>0, HeadOut
<1>4. state \in {"text", "string", "line", "block", "nil", "returned", "stopped"}
      /\ (item.typ = "EOF" <=> state = "returned") /\ (state = l.state \/ state \in {"returned", "stopped"})
  BY <1>0 DEF AfterItem, Lexers
<1>5. (\E i \in DOMAIN l.items : l.items[i] = item)
      /\ (\A i \in DOMAIN Tail(l.items) : \E j \in DOMAIN l.items : Tail(l.items)[i] = l.items[j])
  <2>1. PICK n \in Nat : n = Len(l.items)
    BY <1>0
  <2>2. n > 0 /\ Len(Tail(l.items)) = n - 1 /\ DOMAIN l.items = 1..n /\ DOMAIN Tail(l.items) = 1..(n-1)
        /\ item = l.items[1]
    BY <1>0, <2>1
  <2>3. \A i \in 1..(n-1) : Tail(l.items)[i] = l.items[i+1] /\ i + 1 \in 1..n
    BY <1>0, <2>1, <2>2
  <2>4. 1 \in 1..n
    BY <2>2
  <2> QED
    BY <2>2, <2>3, <2>4
<1> HIDE DEF state, item
<1>6. rest \in Lexers
  BY <1>0, <1>3, <1>4 DEF Lexers
<1>7. rest.start = l.start /\ rest.pos = l.pos /\ rest.fate = l.fate /\ rest.closed = l.closed
  BY <1>0 DEF Lexers
<1>8. rest.items = Tail(l.items) /\ rest.state = state
  BY <1>0, <1>3, <1>4 DEF Lexers
<1> HIDE DEF rest, o
<1>9. CASE item.typ = "EOF"
  <2>1. l.start = Len(input)
    BY <1>2, <1>5, <1>9 DEF Between
  <2>2. Told(f, o \o rest.items, Len(input))
    BY <1>2, <1>3, <1>8, <2>1 DEF Between
  <2>3. \E i \in DOMAIN o : o[i] = item /\ \A j \in DOMAIN o : j <= i
    BY <1>0, LastOf DEF o
  <2> QED
    BY <1>0, <1>1, <1>4, <1>7, <1>8, <1>9, <2>2, <2>3 DEF Tells
<1>10. CASE item.typ # "EOF"
  <2>1. Told(f, o \o rest.items, rest.start)
    BY <1>2, <1>3, <1>7, <1>8 DEF Between
  <2>2. \A i \in DOMAIN rest.items : rest.items[i].typ = "EOF" => rest.start = Len(input)
    BY <1>2, <1>5, <1>7, <1>8 DEF Between
  <2>3. Between(f, o, rest)
    BY <1>0, <1>2, <1>6, <1>7, <2>1, <2>2 DEF Between
  <2>4. PlaceOf(f, rest, state) /\ state # "returned"
    BY <1>2, <1>4, <1>7, <1>10 DEF PlaceOf, Skipped
  <2>5. Placed(f, o, rest)
    BY <1>8, <2>3, <2>4 DEF Placed
  <2> QED
    BY <1>1, <2>5 DEF Tells
<1> QED
  BY <1>9, <1>10

LEMMA FinishSyntax ==
  ASSUME SInv, Finish, NEW f, IsRun(f), Copes(f)
  PROVE  Tells(f, out', l')
<1> DEFINE over == [l EXCEPT !.state = "returned"]
           eof == EOFItem
<1>0. /\ input \in Seq(Chars) /\ l \in Lexers /\ out \in Seq(Item) /\ l.items = <<>>
      /\ l.fate = "ok" /\ l.state # "returned" /\ (l.closed \/ l.state = "nil")
      /\ l.start \in Nat /\ Len(input) \in Nat
  BY DEF SInv, IInv, LexerTypeOK, Lexers, Finish, Running
<1>1. input' = input /\ out' = Append(out, eof) /\ l' = over
  BY DEF Finish
<1>2. Between(f, out, l) /\ PlaceOf(f, l, l.state)
  BY <1>0 DEF SInv, SyntaxInv, Tells, Placed
<1>3. over.fate = "ok" /\ over.items = <<>> /\ over.state = "returned"
  BY <1>0 DEF Lexers
<1> HIDE DEF over
<1>4. Told(f, out, l.start)
  <2>1. out \o <<>> = out
    BY <1>0
  <2> QED
    BY <1>0, <1>2, <2>1 DEF Between
<1>5. Told(f, out, Len(input))
  <2>1. CASE l.start = Len(input)
    BY <1>4, <2>1
  <2>2. CASE \A p \in l.start..(Len(input) - 1) : Neither(f, p)
    BY <1>0, <1>4, <2>2, ToldMore
  <2> QED
    BY <1>0, <1>2, <2>1, <2>2 DEF Between, PlaceOf
<1>6. eof \in Item /\ eof.typ = "EOF" /\ eof.from = Len(input) /\ eof.to = Len(input) /\ Inside(eof) = {}
  BY <1>0 DEF EOFItem, Item, Inside
<1> HIDE DEF eof
<1>7. Told(f, Append(out, eof), Len(input))
  <2>1. Holds(f, eof)
    BY <1>6 DEF Holds
  <2>2. Told(f, Append(out, eof), eof.to)
    BY <1>0, <1>5, <1>6, <2>1, ToldAppend
  <2> QED
    BY <1>6, <2>2
<1>8. Append(out, eof) \o <<>> = Append(out, eof)
  BY <1>0, <1>6
<1>9. \E i \in DOMAIN Append(out, eof) :
        Append(out, eof)[i].typ = "EOF" /\ \A j \in DOMAIN Append(out, eof) : j <= i
  BY <1>0, <1>6, LastOf
<1> QED
  BY <1>1, <1>3, <1>7, <1>8, <1>9 DEF Tells

LEMMA NextSyntax == SInv /\ [Next]_allVars => SyntaxInv'
<1> SUFFICES ASSUME SInv, [Next]_allVars PROVE SyntaxInv'
  OBVIOUS
<1>1. input' = input
  BY DEF Next, TakeItem, Receive, Lex, Step, Finish, Terminated, vars, allVars
<1>3. ASSUME NEW f, IsRun(f)', Copes(f)' PROVE Tells(f, out, l)'
  <2>1. IsRun(f) /\ Copes(f)
    BY <1>1, <1>3, RulesStay
  <2>2. Tells(f, out', l')
    <3>1. CASE TakeItem
      <4>1. PICK goesOn : Receive(goesOn)
        BY <3>1 DEF TakeItem
      <4> QED
        BY <2>1, <4>1, ReceiveSyntax
    <3>2. CASE Lex
      BY <2>1, <3>2, LexSyntax
    <3>3. CASE Finish
      BY <2>1, <3>3, FinishSyntax
    <3>4. CASE out' = out /\ l' = l
      BY <2>1, <3>4 DEF SInv, SyntaxInv
    <3> QED
      BY <3>1, <3>2, <3>3, <3>4 DEF Next, Terminated, vars, allVars
  <2> QED
    BY <1>1, <2>2, TellsStay
<1>4. SyntaxInv'
  BY <1>3 DEF SyntaxInv
<1> QED
  BY <1>4

LEMMA SyntaxInvariant == Spec => []SInv
<1>1. DocsInit => SInv
  BY InitInv, InitSyntax DEF SInv
<1>2. SInv /\ [Next]_allVars => SInv'
  BY NextInv, NextSyntax DEF SInv
<1> QED
  BY <1>1, <1>2, PTL DEF Spec

(* What the invariant says of Syntax.                                       *)
LEMMA SyntaxTells == SInv /\ Tractable => Tells(Syntax, out, l)
<1> SUFFICES ASSUME SInv, Tractable PROVE Tells(Syntax, out, l)
  OBVIOUS
<1> DEFINE f == Syntax
<1>1. IsRun(f) /\ Copes(f)
  BY SyntaxRuns DEF SInv, IInv, LexerTypeOK
<1> HIDE DEF f
<1>2. Tells(f, out, l)
  BY <1>1 DEF SInv, SyntaxInv
<1> QED
  BY <1>2 DEF f

(* In a text without the constructs the lexer cannot cope with, an item     *)
(* holds what its type says under the rules of the language and nothing     *)
(* else, no comment is missed but one that is never closed, and no state    *)
(* function panics: for texts of any length and any interleaving of the     *)
(* consumer with the state functions.                                      *)
THEOREM TellsTheSyntaxHolds == Spec => []TellsTheSyntax
<1>1. SInv => TellsTheSyntax
  <2> SUFFICES ASSUME SInv, Tractable PROVE
        LET syntax == Syntax IN
        /\ \A i \in DOMAIN Emitted : \A p \in Inside(Emitted[i]) :
             /\ Emitted[i].typ = "Comment" => syntax[p] \in {"line", "block"}
             /\ Emitted[i].typ = "String" => syntax[p] = "string"
             /\ Emitted[i].typ \in {"Text", "EOF"} => syntax[p] = "text"
        /\ l.state = "returned" =>
             \A p \in 0..(Len(input) - 1) :
               syntax[p] \in {"line", "block"} =>
                 \/ \E i \in DOMAIN Emitted : Emitted[i].typ = "Comment" /\ p \in Inside(Emitted[i])
                 \/ At(p, lcEnd) \/ At(p, bcEnd)
                 \/ syntax[Len(input)] = "block"
        /\ l.fate # "panic"
    BY DEF TellsTheSyntax
  <2> DEFINE f == Syntax
  <2>2. Tells(f, out, l)
    BY SyntaxTells
  <2> HIDE DEF f
  <2>3. \A i \in DOMAIN Emitted : Holds(f, Emitted[i])
    BY <2>2 DEF Tells, Placed, Between, Told, Emitted
  <2>4. l.state = "returned" => Told(f, Emitted, Len(input))
    BY <2>2 DEF Tells, Placed, Emitted
  <2>5. l.fate # "panic"
    BY <2>2 DEF Tells, Placed, Between
  <2>6. \A i \in DOMAIN Emitted : \A p \in Inside(Emitted[i]) :
          /\ Emitted[i].typ = "Comment" => f[p] \in {"line", "block"}
          /\ Emitted[i].typ = "String" => f[p] = "string"
          /\ Emitted[i].typ \in {"Text", "EOF"} => f[p] = "text"
    BY <2>3 DEF Holds, HasType, CommentAt, TextAt
  <2>7. l.state = "returned" =>
          \A p \in 0..(Len(input) - 1) :
            f[p] \in {"line", "block"} =>
              \/ \E i \in DOMAIN Emitted : Emitted[i].typ = "Comment" /\ p \in Inside(Emitted[i])
              \/ At(p, lcEnd) \/ At(p, bcEnd)
              \/ f[Len(input)] = "block"
    <3> SUFFICES ASSUME l.state = "returned", NEW p \in 0..(Len(input) - 1), f[p] \in {"line", "block"},
                        ~At(p, lcEnd), ~At(p, bcEnd), f[Len(input)] # "block"
                 PROVE  \E i \in DOMAIN Emitted : Emitted[i].typ = "Comment" /\ p \in Inside(Emitted[i])
      OBVIOUS
    <3>0. out \in Seq(Item) /\ l.items \in Seq(Item) /\ Len(input) \in Nat
      BY DEF SInv, IInv, LexerTypeOK, Lexers
    <3>1. Emitted \in Seq(Item)
      BY <3>0 DEF Emitted
    <3>2. ~Neither(f, p)
      <4>1. Len(input) \in p..Len(input)
        BY <3>0
      <4> QED
        BY <4>1 DEF Neither, CommentAt
    <3>3. PICK i \in DOMAIN Emitted : p \in Inside(Emitted[i])
      BY <2>4, <3>2 DEF Told
    <3>4. Emitted[i].typ \in Types
      <4>1. Emitted[i] \in Item
        BY <3>1
      <4> QED
        BY <4>1 DEF Item, Types
    <3>5. HasType(f, Emitted[i].typ, p)
      BY <2>3, <3>3 DEF Holds
    <3>6. f[p] # "string" /\ ~TextAt(f, p) /\ f[p] # "text"
      BY DEF TextAt
    <3>7. Emitted[i].typ = "Comment"
      BY <3>2, <3>4, <3>5, <3>6 DEF HasType, Types
    <3> QED
      BY <3>3, <3>7
  <2> QED
    BY <2>5, <2>6, <2>7 DEF f
<1> QED
  BY <1>1, SyntaxInvariant, PTL

-----------------------------------------------------------------------------
(* Ascending sequences.                                                     *)
Ascending(s) == \A i, j \in DOMAIN s : i < j => s[i] < s[j]

Before(s, b) == \A i \in DOMAIN s, j \in DOMAIN b : s[i] < b[j]

(* There is one of a set.                                                   *)
LEMMA AscendingOne ==
  ASSUME NEW s \in Seq(Nat), NEW u \in Seq(Nat), Ascending(s), Ascending(u), Range(s) = Range(u)
  PROVE  s = u
<1>1. PICK n \in Nat, m \in Nat : n = Len(s) /\ m = Len(u)
  OBVIOUS
<1>2. DOMAIN s = 1..n /\ DOMAIN u = 1..m
  BY <1>1
<1>3. (\A i \in 1..n : s[i] \in Nat) /\ (\A i \in 1..m : u[i] \in Nat)
  BY <1>2
<1>4. (\A i \in 1..n : \E j \in 1..m : s[i] = u[j]) /\ (\A i \in 1..m : \E j \in 1..n : u[i] = s[j])
  BY <1>2 DEF Range
<1>5. (\A i, j \in 1..n : i < j => s[i] < s[j]) /\ (\A i, j \in 1..m : i < j => u[i] < u[j])
  BY <1>2 DEF Ascending
<1> DEFINE D == {i \in (1..n) \cap (1..m) : s[i] # u[i]}
<1>6. D = {}
  <2> SUFFICES ASSUME D # {} PROVE FALSE
    OBVIOUS
  <2> DEFINE k == Min(D)
  <2>1. k \in D /\ \A i \in D : k <= i
    <3>1. D \in SUBSET Nat
      OBVIOUS
    <3> HIDE DEF D
    <3> QED
      BY <3>1, MinFacts
  <2> HIDE DEF k
  <2>2. k \in 1..n /\ k \in 1..m /\ s[k] # u[k] /\ k \in Nat /\ s[k] \in Nat /\ u[k] \in Nat
    BY <1>3, <2>1
  <2>3. \A i \in (1..n) \cap (1..m) : i < k => s[i] = u[i]
    <3> SUFFICES ASSUME NEW i \in (1..n) \cap (1..m), i < k, s[i] # u[i] PROVE FALSE
      OBVIOUS
    <3>1. i \in D /\ i \in Nat
      OBVIOUS
    <3> HIDE DEF D
    <3> QED
      BY <2>1, <2>2, <3>1
  <2>4. CASE s[k] < u[k]
    <3>1. PICK j \in 1..m : s[k] = u[j]
      BY <1>4, <2>2
    <3>2. ~(k <= j)
      <4>1. k # j
        BY <2>2, <3>1
      <4>2. k < j => u[k] < u[j]
        BY <1>5, <2>2, <3>1
      <4>3. ~(u[k] < u[j])
        BY <2>2, <2>4, <3>1
      <4> QED
        BY <2>2, <3>1, <4>1, <4>2, <4>3
    <3>3. j \in (1..n) \cap (1..m) /\ j < k
      BY <1>1, <2>2, <3>2
    <3>4. s[j] = s[k]
      BY <2>3, <3>1, <3>3
    <3>5. s[j] < s[k]
      BY <1>5, <2>2, <3>3
    <3> QED
      BY <2>2, <3>4, <3>5
  <2>5. CASE u[k] < s[k]
    <3>1. PICK j \in 1..n : u[k] = s[j]
      BY <1>4, <2>2
    <3>2. ~(k <= j)
      <4>1. k # j
        BY <2>2, <3>1
      <4>2. k < j => s[k] < s[j]
        BY <1>5, <2>2, <3>1
      <4>3. ~(s[k] < s[j])
        BY <2>2, <2>5, <3>1
      <4> QED
        BY <2>2, <3>1, <4>1, <4>2, <4>3
    <3>3. j \in (1..n) \cap (1..m) /\ j < k
      BY <1>1, <2>2, <3>2
    <3>4. u[j] = u[k]
      BY <2>3, <3>1, <3>3
    <3>5. u[j] < u[k]
      BY <1>5, <2>2, <3>3
    <3> QED
      BY <2>2, <3>4, <3>5
  <2> QED
    BY <2>2, <2>4, <2>5
<1>7. \A i \in (1..n) \cap (1..m) : s[i] = u[i]
  BY <1>6
<1>8. ~(n < m)
  <2> SUFFICES ASSUME n < m PROVE FALSE
    OBVIOUS
  <2>1. m \in 1..m
    BY <1>1
  <2>2. PICK j \in 1..n : u[m] = s[j]
    BY <1>4, <2>1
  <2>3. j \in (1..n) \cap (1..m) /\ j < m
    BY <1>1, <2>2
  <2>4. u[j] = u[m]
    BY <1>7, <2>2, <2>3
  <2>5. u[j] < u[m]
    BY <1>5, <2>1, <2>3
  <2> QED
    BY <1>3, <2>1, <2>4, <2>5
<1>9. ~(m < n)
  <2> SUFFICES ASSUME m < n PROVE FALSE
    OBVIOUS
  <2>1. n \in 1..n
    BY <1>1
  <2>2. PICK j \in 1..m : s[n] = u[j]
    BY <1>4, <2>1
  <2>3. j \in (1..n) \cap (1..m) /\ j < n
    BY <1>1, <2>2
  <2>4. s[j] = s[n]
    BY <1>7, <2>2, <2>3
  <2>5. s[j] < s[n]
    BY <1>5, <2>1, <2>3
  <2> QED
    BY <1>3, <2>1, <2>4, <2>5
<1>10. n = m
  BY <1>1, <1>8, <1>9
<1> QED
  BY <1>1, <1>2, <1>7, <1>10

LEMMA EmptyRange == Range(<<>>) = {}
BY DEF Range

LEMMA ConcatRange ==
  ASSUME NEW s \in Seq(Nat), NEW u \in Seq(Nat)
  PROVE  Range(s \o u) = Range(s) \cup Range(u)
<1> DEFINE g == s \o u
<1>1. PICK k \in Nat, n \in Nat : k = Len(s) /\ n = Len(u)
  OBVIOUS
<1>3. /\ DOMAIN s = 1..k /\ DOMAIN u = 1..n /\ DOMAIN g = 1..(k+n)
      /\ \A i \in 1..k : g[i] = s[i]
      /\ \A i \in (k+1)..(k+n) : g[i] = u[i-k]
  BY <1>1
<1> HIDE DEF g
<1>5. Range(g) \subseteq Range(s) \cup Range(u)
  <2> SUFFICES ASSUME NEW i \in 1..(k+n) PROVE g[i] \in Range(s) \cup Range(u)
    BY <1>3 DEF Range
  <2>1. i \in 1..k \/ (i \in (k+1)..(k+n) /\ i - k \in 1..n)
    BY <1>1
  <2> QED
    BY <1>3, <2>1 DEF Range
<1>6. Range(s) \cup Range(u) \subseteq Range(g)
  <2>1. \A i \in 1..k : i \in 1..(k+n) /\ g[i] = s[i]
    BY <1>1, <1>3
  <2>2. ASSUME NEW i \in 1..n PROVE i + k \in 1..(k+n) /\ g[i+k] = u[i]
    <3>1. i + k \in (k+1)..(k+n) /\ (i + k) - k = i
      BY <1>1
    <3> QED
      BY <1>3, <3>1
  <2>3. Range(s) = {s[i] : i \in 1..k} /\ Range(u) = {u[i] : i \in 1..n} /\ Range(g) = {g[i] : i \in 1..(k+n)}
    BY <1>3 DEF Range
  <2> QED
    BY <2>1, <2>2, <2>3
<1> QED
  BY <1>5, <1>6 DEF g

(* Two sequences, one behind the other.                                     *)
LEMMA ConcatAscends ==
  ASSUME NEW s \in Seq(Nat), NEW u \in Seq(Nat), Ascending(s), Ascending(u), Before(s, u)
  PROVE  s \o u \in Seq(Nat) /\ Ascending(s \o u) /\ Range(s \o u) = Range(s) \cup Range(u)
<1> DEFINE g == s \o u
<1>1. PICK k \in Nat, n \in Nat : k = Len(s) /\ n = Len(u)
  OBVIOUS
<1>2. g \in Seq(Nat)
  OBVIOUS
<1>3. /\ DOMAIN s = 1..k /\ DOMAIN u = 1..n /\ DOMAIN g = 1..(k+n)
      /\ \A i \in 1..k : g[i] = s[i]
      /\ \A i \in (k+1)..(k+n) : g[i] = u[i-k]
  BY <1>1
<1> HIDE DEF g
<1>4. ASSUME NEW i \in 1..(k+n), NEW j \in 1..(k+n), i < j PROVE g[i] < g[j]
  <2>1. CASE j <= k
    <3>1. i \in 1..k /\ j \in 1..k
      BY <1>4, <2>1
    <3> QED
      BY <1>3, <1>4, <3>1 DEF Ascending
  <2>2. CASE i <= k /\ k < j
    <3>1. i \in 1..k /\ j \in (k+1)..(k+n) /\ j - k \in 1..n
      BY <1>4, <2>2
    <3> QED
      BY <1>3, <3>1 DEF Before
  <2>3. CASE k < i
    <3>1. i \in (k+1)..(k+n) /\ j \in (k+1)..(k+n) /\ i - k \in 1..n /\ j - k \in 1..n /\ i - k < j - k
      BY <1>4, <2>3
    <3> QED
      BY <1>3, <3>1 DEF Ascending
  <2> QED
    BY <1>1, <1>4, <2>1, <2>2, <2>3
<1>5. Range(g) = Range(s) \cup Range(u)
  BY ConcatRange DEF g
<1>7. Ascending(g)
  BY <1>3, <1>4 DEF Ascending
<1> QED
  BY <1>2, <1>5, <1>7 DEF g

(* What Sorted's function is up to i.                                       *)
SortedRun(S, f, k) ==
  \A i \in 0..k : f[i] = IF i = 0 THEN <<>>
                         ELSE IF i - 1 \in S THEN Append(f[i-1], i - 1) ELSE f[i-1]

LEMMA SortedRunsExist ==
  ASSUME NEW S, NEW k \in Nat
  PROVE  \E f : DOMAIN f = 0..k /\ SortedRun(S, f, k)
<1> DEFINE Run(n, f) == DOMAIN f = 0..n /\ SortedRun(S, f, n)
           T == {n \in Nat : \E f : Run(n, f)}
<1>1. 0 \in T
  <2>1. Run(0, [i \in 0..0 |-> <<>>])
    BY DEF SortedRun
  <2> HIDE DEF Run
  <2> QED
    BY <2>1
<1>2. ASSUME NEW n \in Nat, n \in T PROVE n + 1 \in T
  <2>1. PICK f : Run(n, f)
    BY <1>2
  <2> DEFINE g == [i \in 0..(n+1) |-> IF i = n + 1 THEN IF n \in S THEN Append(f[n], n) ELSE f[n] ELSE f[i]]
  <2>2. ASSUME NEW i \in 0..(n+1)
        PROVE  g[i] = IF i = 0 THEN <<>> ELSE IF i - 1 \in S THEN Append(g[i-1], i - 1) ELSE g[i-1]
    <3>1. CASE i = n + 1
      <4>1. n \in 0..(n+1) /\ n # n + 1 /\ i - 1 = n /\ i # 0
        BY <3>1
      <4>2. g[n] = f[n]
        BY <4>1
      <4>3. g[i] = IF n \in S THEN Append(f[n], n) ELSE f[n]
        BY <3>1
      <4> HIDE DEF g
      <4> QED
        BY <4>1, <4>2, <4>3
    <3>2. CASE i # n + 1
      <4>1. i \in 0..n /\ (i # 0 => i - 1 \in 0..(n+1) /\ i - 1 # n + 1)
        BY <3>2
      <4>2. g[i] = f[i] /\ (i # 0 => g[i-1] = f[i-1])
        BY <3>2, <4>1
      <4> HIDE DEF g
      <4> QED
        BY <2>1, <4>1, <4>2 DEF SortedRun
    <3> QED
      BY <3>1, <3>2
  <2>3. Run(n + 1, g)
    <3>1. DOMAIN g = 0..(n+1)
      OBVIOUS
    <3> HIDE DEF g
    <3> QED
      BY <2>2, <3>1 DEF SortedRun
  <2> HIDE DEF Run
  <2> QED
    BY <2>3
<1>3. \A n \in Nat : n \in T
  <2> HIDE DEF T
  <2> QED
    BY <1>1, <1>2, SetInduction
<1> QED
  BY <1>3

(* Sorted is the ascending sequence of a set of positions of the input.     *)
LEMMA SortedFacts ==
  ASSUME Len(input) \in Nat, NEW S \in SUBSET (0..(Len(input) - 1))
  PROVE  Sorted(S) \in Seq(Nat) /\ Ascending(Sorted(S)) /\ Range(Sorted(S)) = S
<1> DEFINE Whole(f) == f = [i \in 0..Len(input) |-> IF i = 0 THEN <<>>
                                 ELSE IF i - 1 \in S THEN Append(f[i-1], i - 1) ELSE f[i-1]]
           w == CHOOSE f : Whole(f)
<1>1. PICK g : DOMAIN g = 0..Len(input) /\ SortedRun(S, g, Len(input))
  BY SortedRunsExist
<1> DEFINE h == [i \in 0..Len(input) |-> g[i]]
<1>2. Whole(h)
  <2>1. \A i \in 0..Len(input) : i # 0 => i - 1 \in 0..Len(input)
    OBVIOUS
  <2>2. \A i \in 0..Len(input) :
          h[i] = IF i = 0 THEN <<>> ELSE IF i - 1 \in S THEN Append(h[i-1], i - 1) ELSE h[i-1]
    BY <1>1, <2>1 DEF SortedRun
  <2>3. h = [i \in 0..Len(input) |-> h[i]]
    OBVIOUS
  <2> HIDE DEF h
  <2> QED
    BY <2>2, <2>3
<1>3. Whole(w)
  <2> HIDE DEF Whole, h
  <2> QED
    BY <1>2, Zenon
<1>4. Sorted(S) = w[Len(input)]
  BY DEF Sorted
<1>5. SortedRun(S, w, Len(input))
  <2> HIDE DEF w
  <2> QED
    BY <1>3 DEF SortedRun
<1> HIDE DEF w, Whole
<1> DEFINE Part(i) == /\ w[i] \in Seq(Nat) /\ Ascending(w[i])
                      /\ Range(w[i]) = S \cap (0..(i-1))
           T == {n \in Nat : n <= Len(input) => Part(n)}
<1>6. 0 \in T
  <2>1. w[0] = <<>>
    BY <1>5 DEF SortedRun
  <2>2. Part(0)
    BY <2>1 DEF Ascending, Range
  <2> HIDE DEF Part
  <2> QED
    BY <2>2
<1>7. ASSUME NEW n \in Nat, n \in T PROVE n + 1 \in T
  <2> SUFFICES ASSUME n + 1 <= Len(input) PROVE Part(n + 1)
    OBVIOUS
  <2>1. Part(n)
    BY <1>7
  <2>2. w[n+1] = IF n \in S THEN Append(w[n], n) ELSE w[n]
    <3>1. n + 1 \in 0..Len(input) /\ n + 1 # 0 /\ (n + 1) - 1 = n
      OBVIOUS
    <3>2. w[n+1] = IF n + 1 = 0 THEN <<>> ELSE IF (n + 1) - 1 \in S THEN Append(w[(n+1)-1], (n + 1) - 1) ELSE w[(n+1)-1]
      BY <1>5, <3>1 DEF SortedRun
    <3> QED
      BY <3>1, <3>2
  <2>3. 0..((n+1)-1) = (0..(n-1)) \cup {n}
    OBVIOUS
  <2>4. CASE n \notin S
    <3>1. S \cap (0..((n+1)-1)) = S \cap (0..(n-1))
      BY <2>3, <2>4
    <3> QED
      BY <2>1, <2>2, <2>4, <3>1
  <2>5. CASE n \in S
    <3>1. PICK s \in Seq(Nat) : s = w[n]
      BY <2>1
    <3>2. Append(s, n) = s \o <<n>> /\ <<n>> \in Seq(Nat)
      OBVIOUS
    <3>3. Ascending(<<n>>) /\ Range(<<n>>) = {n}
      BY DEF Ascending, Range
    <3>4. Before(s, <<n>>)
      <4>1. \A i \in DOMAIN s : s[i] \in 0..(n-1)
        BY <2>1, <3>1 DEF Range
      <4>2. \A i \in DOMAIN s : s[i] < n
        BY <4>1
      <4> QED
        BY <4>2 DEF Before
    <3>5. Append(s, n) \in Seq(Nat) /\ Ascending(Append(s, n)) /\ Range(Append(s, n)) = Range(s) \cup {n}
      BY <2>1, <3>1, <3>2, <3>3, <3>4, ConcatAscends
    <3>6. S \cap (0..((n+1)-1)) = (S \cap (0..(n-1))) \cup {n}
      BY <2>3, <2>5
    <3> QED
      BY <2>1, <2>2, <2>5, <3>1, <3>5, <3>6
  <2> QED
    BY <2>4, <2>5
<1>8. Part(Len(input))
  <2>1. \A n \in Nat : n \in T
    <3> HIDE DEF T
    <3> QED
      BY <1>6, <1>7, SetInduction
  <2> HIDE DEF Part
  <2> QED
    BY <2>1
<1>9. S \cap (0..(Len(input) - 1)) = S
  OBVIOUS
<1> QED
  BY <1>4, <1>8, <1>9

LEMMA SortedIs ==
  ASSUME Len(input) \in Nat, NEW s \in Seq(Nat), Ascending(s), Range(s) \subseteq 0..(Len(input) - 1)
  PROVE  Sorted(Range(s)) = s
<1>1. /\ Sorted(Range(s)) \in Seq(Nat) /\ Ascending(Sorted(Range(s)))
      /\ Range(Sorted(Range(s))) = Range(s)
  BY SortedFacts
<1> QED
  BY <1>1, AscendingOne

LEMMA UnionMore ==
  ASSUME NEW X, NEW r
  PROVE  UNION (X \cup {r}) = (UNION X) \cup r
OBVIOUS

(* Sequences one behind the other.                                          *)
LEMMA FlattenAscends ==
  ASSUME NEW s \in Seq(Seq(Nat)), \A i \in DOMAIN s : Ascending(s[i]),
         \A i, j \in DOMAIN s : i < j => Before(s[i], s[j])
  PROVE  /\ FlattenSeq(s) \in Seq(Nat) /\ Ascending(FlattenSeq(s))
         /\ Range(FlattenSeq(s)) = UNION {Range(s[i]) : i \in DOMAIN s}
<1>1. PICK m \in Nat : m = Len(s)
  OBVIOUS
<1>2. DOMAIN s = 1..m /\ \A i \in 1..m : s[i] \in Seq(Nat)
  BY <1>1
<1>3. CASE m = 0
  <2>1. s = <<>>
    BY <1>1, <1>3, EmptySeq
  <2>2. FlattenSeq(s) = s
    BY <1>1, <1>3 DEF FlattenSeq
  <2>3. DOMAIN s = {}
    BY <1>2, <1>3
  <2>4. Range(s) = {} /\ Ascending(s)
    BY <2>3 DEF Ascending, Range
  <2>5. s \in Seq(Nat)
    BY <2>1
  <2>6. UNION {Range(s[i]) : i \in DOMAIN s} = {}
    BY <2>3
  <2> QED
    BY <2>2, <2>4, <2>5, <2>6
<1>4. CASE m # 0
  <2> DEFINE Whole(f) == f = [i \in 1..m |-> IF i = 1 THEN s[i] ELSE f[i-1] \o s[i]]
             w == CHOOSE f : Whole(f)
             Run(f, n) == /\ DOMAIN f = 1..n
                          /\ \A i \in 1..n : f[i] = IF i = 1 THEN s[i] ELSE f[i-1] \o s[i]
             T == {n \in Nat : \E f : Run(f, n)}
  <2>1. 0 \in T
    <3>1. Run([i \in 1..0 |-> <<>>], 0)
      OBVIOUS
    <3> HIDE DEF Run
    <3> QED
      BY <3>1
  <2>2. ASSUME NEW n \in Nat, n \in T PROVE n + 1 \in T
    <3>1. PICK f : Run(f, n)
      BY <2>2
    <3> DEFINE g == [i \in 1..(n+1) |-> IF i = n + 1 THEN IF i = 1 THEN s[i] ELSE f[n] \o s[i] ELSE f[i]]
    <3>2. ASSUME NEW i \in 1..(n+1) PROVE g[i] = IF i = 1 THEN s[i] ELSE g[i-1] \o s[i]
      <4>1. CASE i = n + 1
        <5>1. g[i] = IF i = 1 THEN s[i] ELSE f[n] \o s[i]
          BY <4>1
        <5>2. i # 1 => i - 1 = n /\ n \in 1..(n+1) /\ n # n + 1
          BY <4>1
        <5>3. i # 1 => g[i-1] = f[n]
          BY <5>2
        <5> HIDE DEF g
        <5> QED
          BY <5>1, <5>3
      <4>2. CASE i # n + 1
        <5>1. i \in 1..n /\ (i # 1 => i - 1 \in 1..(n+1) /\ i - 1 # n + 1)
          BY <4>2
        <5>2. g[i] = f[i] /\ (i # 1 => g[i-1] = f[i-1])
          BY <4>2, <5>1
        <5> HIDE DEF g
        <5> QED
          BY <3>1, <5>1, <5>2
      <4> QED
        BY <4>1, <4>2
    <3>3. Run(g, n + 1)
      <4>1. DOMAIN g = 1..(n+1)
        OBVIOUS
      <4> HIDE DEF g
      <4> QED
        BY <3>2, <4>1
    <3> HIDE DEF Run
    <3> QED
      BY <3>3
  <2>3. \A n \in Nat : n \in T
    <3> HIDE DEF T
    <3> QED
      BY <2>1, <2>2, SetInduction
  <2>4. PICK g : Run(g, m)
    BY <2>3
  <2> DEFINE h == [i \in 1..m |-> g[i]]
  <2>5. Whole(h)
    <3>1. \A i \in 1..m : i # 1 => i - 1 \in 1..m
      BY <1>1
    <3>2. \A i \in 1..m : h[i] = IF i = 1 THEN s[i] ELSE h[i-1] \o s[i]
      BY <2>4, <3>1
    <3>3. h = [i \in 1..m |-> h[i]]
      OBVIOUS
    <3> HIDE DEF h
    <3> QED
      BY <3>2, <3>3
  <2>6. Whole(w)
    <3> HIDE DEF Whole, h
    <3> QED
      BY <2>5, Zenon
  <2>7. FlattenSeq(s) = w[m]
    BY <1>1, <1>4 DEF FlattenSeq
  <2>8. \A i \in 1..m : w[i] = IF i = 1 THEN s[i] ELSE w[i-1] \o s[i]
    <3> HIDE DEF w
    <3> QED
      BY <2>6
  <2> HIDE DEF w, Whole, T, Run
  <2> DEFINE Part(i) == /\ w[i] \in Seq(Nat) /\ Ascending(w[i])
                        /\ Range(w[i]) = UNION {Range(s[j]) : j \in 1..i}
             U == {n \in Nat : n + 1 <= m => Part(n + 1)}
  <2>9. 0 \in U
    <3>1. 1 \in 1..m /\ w[1] = s[1]
      BY <1>1, <1>4, <2>8
    <3>2. UNION {Range(s[j]) : j \in 1..1} = Range(s[1])
      <4>1. \A j : j \in 1..1 <=> j = 1
        OBVIOUS
      <4> QED
        BY <4>1
    <3>3. Part(1)
      BY <1>2, <3>1, <3>2
    <3>4. 0 + 1 = 1
      OBVIOUS
    <3> HIDE DEF Part
    <3> QED
      BY <3>3, <3>4
  <2>10. ASSUME NEW n \in Nat, n \in U PROVE n + 1 \in U
    <3> SUFFICES ASSUME (n + 1) + 1 <= m PROVE Part((n + 1) + 1)
      OBVIOUS
    <3>1. PICK i \in 1..m : i = n + 1 /\ i + 1 \in 1..m /\ (i + 1) - 1 = i /\ i + 1 # 1
      BY <1>1
    <3>2. Part(i)
      BY <2>10, <3>1
    <3>3. w[i+1] = w[i] \o s[i+1]
      <4>1. w[i+1] = IF i + 1 = 1 THEN s[i+1] ELSE w[(i+1)-1] \o s[i+1]
        BY <2>8, <3>1
      <4> QED
        BY <3>1, <4>1
    <3>4. Before(w[i], s[i+1])
      <4> SUFFICES ASSUME NEW a \in DOMAIN w[i], NEW b \in DOMAIN s[i+1] PROVE w[i][a] < s[i+1][b]
        BY DEF Before
      <4>1. w[i][a] \in Range(w[i])
        BY DEF Range
      <4>2. PICK j \in 1..i : w[i][a] \in Range(s[j])
        BY <3>2, <4>1
      <4>3. PICK c \in DOMAIN s[j] : w[i][a] = s[j][c]
        BY <4>2 DEF Range
      <4>4. j \in 1..m /\ j < i + 1
        BY <3>1
      <4>5. Before(s[j], s[i+1])
        BY <1>2, <3>1, <4>4
      <4> QED
        BY <4>3, <4>5 DEF Before
    <3>5. w[i+1] \in Seq(Nat) /\ Ascending(w[i+1]) /\ Range(w[i+1]) = Range(w[i]) \cup Range(s[i+1])
      BY <1>2, <3>1, <3>2, <3>3, <3>4, ConcatAscends
    <3>6. UNION {Range(s[j]) : j \in 1..(i+1)} = (UNION {Range(s[j]) : j \in 1..i}) \cup Range(s[i+1])
      <4>1. 1..(i+1) = (1..i) \cup {i + 1}
        BY <3>1
      <4> DEFINE X == {Range(s[j]) : j \in 1..i}
                 Y == {Range(s[j]) : j \in 1..(i+1)}
      <4>2. Y = X \cup {Range(s[i+1])}
        BY <4>1
      <4> HIDE DEF X, Y
      <4>3. UNION Y = (UNION X) \cup Range(s[i+1])
        BY <4>2, UnionMore
      <4> QED
        BY <4>3 DEF X, Y
    <3>7. Part(i + 1)
      <4>1. Range(w[i]) = UNION {Range(s[j]) : j \in 1..i}
        BY <3>2
      <4> DEFINE X == UNION {Range(s[j]) : j \in 1..i}
                 Y == UNION {Range(s[j]) : j \in 1..(i+1)}
      <4> HIDE DEF X, Y
      <4>2. Range(w[i]) = X
        BY <4>1 DEF X
      <4>3. Y = X \cup Range(s[i+1])
        BY <3>6 DEF X, Y
      <4>4. Range(w[i+1]) = Y
        BY <3>5, <4>2, <4>3
      <4>5. Range(w[i+1]) = UNION {Range(s[j]) : j \in 1..(i+1)}
        BY <4>4 DEF Y
      <4> QED
        BY <3>5, <4>5
    <3> HIDE DEF Part
    <3> QED
      BY <3>1, <3>7
  <2>11. \A n \in Nat : n \in U
    <3> HIDE DEF U
    <3> QED
      BY <2>9, <2>10, SetInduction
  <2>12. Part(m)
    <3>1. m - 1 \in Nat /\ (m - 1) + 1 = m /\ m <= m
      BY <1>1, <1>4
    <3>2. m - 1 \in U
      BY <2>11, <3>1
    <3> HIDE DEF Part
    <3> QED
      BY <3>1, <3>2
  <2> QED
    BY <1>2, <2>7, <2>12
<1> QED
  BY <1>3, <1>4

-----------------------------------------------------------------------------
(* What the documentation is made of.                                       *)
(* Positions in the comments that were yielded, annotations left out.       *)
OfComments(s, o) ==
  \A i \in DOMAIN s : \E k \in DOMAIN o :
    o[k].typ = "Comment" /\ ~Begins(o[k], Annotates) /\ s[i] \in Inside(o[k])

Apart(s, b) == \A i \in DOMAIN s, j \in DOMAIN b : s[i] # b[j]

DocsTell(d, o) ==
  \A n \in DOMAIN d :
    /\ OfComments(d[n], o) /\ Ascending(d[n])
    /\ \A m \in DOMAIN d : m # n => Apart(d[m], d[n])

BufTells(b, d, o) == OfComments(b, o) /\ Ascending(b) /\ \A n \in DOMAIN d : Before(d[n], b)

AnnotationsTell(a, o) ==
  /\ Ascending(a)
  /\ \A i \in DOMAIN a : \E k \in DOMAIN o :
       Begins(o[k], Annotates) /\ o[k].from < o[k].to /\ a[i] = o[k].from

DocsInv == BufTells(buf, docs, out) /\ DocsTell(docs, out) /\ AnnotationsTell(annotations, out)

LEMMA OfMore ==
  ASSUME NEW o \in Seq(Item), NEW x \in Item
  PROVE  /\ \A s : OfComments(s, o) => OfComments(s, Append(o, x))
         /\ \A a : AnnotationsTell(a, o) => AnnotationsTell(a, Append(o, x))
<1>1. PICK n \in Nat : n = Len(o)
  OBVIOUS
<1>2. PICK oo : oo = Append(o, x)
  OBVIOUS
<1>3. \A k \in DOMAIN o : k \in DOMAIN oo /\ oo[k] = o[k]
  <2>1. DOMAIN o = 1..n /\ DOMAIN oo = 1..(n+1) /\ \A k \in 1..n : oo[k] = o[k]
    BY <1>1, <1>2
  <2> QED
    BY <1>1, <2>1
<1>4. ASSUME NEW s, OfComments(s, o) PROVE OfComments(s, oo)
  BY <1>3, <1>4 DEF OfComments
<1>5. ASSUME NEW a, AnnotationsTell(a, o) PROVE AnnotationsTell(a, oo)
  BY <1>3, <1>5 DEF AnnotationsTell
<1> QED
  BY <1>2, <1>4, <1>5

(* Comments that were yielded are in front of an item that is yielded.      *)
LEMMA AllBefore ==
  ASSUME NEW o \in Seq(Item), NEW x \in Item, \A k \in DOMAIN o : o[k].to <= x.from, NEW s \in Seq(Nat),
         OfComments(s, o)
  PROVE  \A i \in DOMAIN s : s[i] < x.from
<1> SUFFICES ASSUME NEW i \in DOMAIN s PROVE s[i] < x.from
  OBVIOUS
<1>1. PICK k \in DOMAIN o : s[i] \in Inside(o[k])
  BY DEF OfComments
<1>2. o[k] \in Item
  OBVIOUS
<1>3. o[k].from \in Nat /\ o[k].to \in Nat /\ x.from \in Nat
  BY <1>2 DEF Item
<1>4. s[i] \in Nat /\ s[i] <= o[k].to - 1
  BY <1>1, <1>3 DEF Inside
<1>5. o[k].to <= x.from
  OBVIOUS
<1> QED
  BY <1>3, <1>4, <1>5

LEMMA ConcatTells ==
  ASSUME NEW s \in Seq(Nat), NEW u \in Seq(Nat), NEW o, OfComments(s, o), OfComments(u, o),
         Ascending(s), Ascending(u), Before(s, u)
  PROVE  /\ OfComments(s \o u, o) /\ Ascending(s \o u)
         /\ \A i \in DOMAIN (s \o u) : \/ \E j \in DOMAIN s : (s \o u)[i] = s[j]
                                      \/ \E j \in DOMAIN u : (s \o u)[i] = u[j]
<1>1. PICK g : g = s \o u
  OBVIOUS
<1>2. Ascending(g) /\ Range(g) = Range(s) \cup Range(u)
  BY <1>1, ConcatAscends
<1>3. \A i \in DOMAIN g : (\E j \in DOMAIN s : g[i] = s[j]) \/ (\E j \in DOMAIN u : g[i] = u[j])
  BY <1>2 DEF Range
<1>4. OfComments(g, o)
  BY <1>3 DEF OfComments
<1> QED
  BY <1>1, <1>2, <1>3, <1>4

LEMMA PositionsTell ==
  ASSUME NEW item \in Item
  PROVE  /\ Ascending(Positions(item))
         /\ \A i \in DOMAIN Positions(item) : /\ Positions(item)[i] \in Inside(item)
                                              /\ Positions(item)[i] >= item.from
<1>1. PICK m \in Nat, n \in Nat : m = item.from /\ n = item.to
  BY DEF Item
<1>2. PICK g : g = Positions(item)
  OBVIOUS
<1>3. DOMAIN g = 1..(n - m) /\ \A i \in 1..(n - m) : g[i] = m + i - 1
  BY <1>1, <1>2 DEF Positions
<1>4. Inside(item) = m..(n-1)
  BY <1>1 DEF Inside
<1>5. \A i \in 1..(n - m) : m + i - 1 \in m..(n-1) /\ m + i - 1 >= m
  OBVIOUS
<1>6. \A i, j \in 1..(n - m) : i < j => m + i - 1 < m + j - 1
  OBVIOUS
<1> QED
  BY <1>1, <1>2, <1>3, <1>4, <1>5, <1>6 DEF Ascending

(* What is put down as the documentation of a name, in place of what may be *)
(* there, is in no other one.                                              *)
LEMMA PutTells ==
  ASSUME NEW o, DocsTell(docs, o), NEW name, NEW s, OfComments(s, o), Ascending(s),
         \A m \in DOMAIN docs : m # name => Apart(docs[m], s)
  PROVE  DocsTell(Put(name, s), o)
<1> DEFINE d == Put(name, s)
<1>1. /\ DOMAIN d = DOMAIN docs \cup {name}
      /\ d[name] = s
      /\ \A n \in DOMAIN d : n # name => n \in DOMAIN docs /\ d[n] = docs[n]
  BY DEF Put
<1> HIDE DEF d
<1>2. ASSUME NEW n \in DOMAIN d PROVE OfComments(d[n], o) /\ Ascending(d[n])
  <2>1. CASE n = name
    BY <1>1, <2>1
  <2>2. CASE n # name
    BY <1>1, <2>2 DEF DocsTell
  <2> QED
    BY <2>1, <2>2
<1>3. ASSUME NEW n \in DOMAIN d, NEW m \in DOMAIN d, m # n PROVE Apart(d[m], d[n])
  <2>1. CASE n = name
    <3>1. m \in DOMAIN docs /\ d[m] = docs[m] /\ d[n] = s /\ m # name
      BY <1>1, <1>3, <2>1
    <3> QED
      BY <3>1
  <2>2. CASE m = name
    <3>1. n \in DOMAIN docs /\ d[n] = docs[n] /\ d[m] = s /\ n # name
      BY <1>1, <1>3, <2>2
    <3>2. Apart(docs[n], s)
      BY <3>1
    <3> QED
      BY <3>1, <3>2 DEF Apart
  <2>3. CASE n # name /\ m # name
    <3>1. n \in DOMAIN docs /\ m \in DOMAIN docs /\ d[n] = docs[n] /\ d[m] = docs[m]
      BY <1>1, <2>3
    <3> QED
      BY <1>3, <3>1 DEF DocsTell
  <2> QED
    BY <2>1, <2>2, <2>3
<1>4. DocsTell(d, o)
  BY <1>2, <1>3 DEF DocsTell
<1> QED
  BY <1>4 DEF d

LEMMA BeforeApart ==
  ASSUME NEW s \in Seq(Nat), NEW b \in Seq(Nat), Before(s, b)
  PROVE  Apart(s, b)
<1> SUFFICES ASSUME NEW i \in DOMAIN s, NEW j \in DOMAIN b PROVE s[i] # b[j]
  BY DEF Apart
<1>1. s[i] \in Nat /\ b[j] \in Nat /\ s[i] < b[j]
  BY DEF Before
<1> QED
  BY <1>1

(* The steps of the consumer: an item behind all that were yielded.         *)
LEMMA TextTells ==
  ASSUME IInv, DocsInv, NEW item, TakeText(item), buf' = Reset(item)
  PROVE  BufTells(buf', docs', out) /\ DocsTell(docs', out) /\ AnnotationsTell(annotations', out)
<1> DEFINE text == CharsAt(Positions(item))
<1>0. /\ buf \in Seq(Nat) /\ \A n \in DOMAIN docs : docs[n] \in Seq(Nat)
  BY DEF IInv, DocsType
<1>1. /\ annotations' = annotations /\ buf' = <<>>
      /\ docs' = IF Declares(text) # {} THEN Put(DeclaredIn(text), buf)
                 ELSE IF IsHeading(CharsAt(buf)) /\ DOMAIN docs \subseteq {Package}
                 THEN Put(Package, OfPackage) ELSE docs
  BY DEF TakeText, Reset
<1> HIDE DEF text
<1>2. BufTells(buf, docs, out) /\ DocsTell(docs, out) /\ AnnotationsTell(annotations, out)
  BY DEF DocsInv
<1>3. \A m \in DOMAIN docs : Before(docs[m], buf) /\ Apart(docs[m], buf)
  BY <1>0, <1>2, BeforeApart DEF BufTells
<1>4. OfComments(buf, out) /\ Ascending(buf)
  BY <1>2 DEF BufTells
<1>5. \A n : DocsTell(Put(n, buf), out)
  BY <1>2, <1>3, <1>4, PutTells
<1>6. ASSUME DOMAIN docs \subseteq {Package} PROVE DocsTell(Put(Package, OfPackage), out)
  <2> DEFINE s == OfPackage
  <2>1. OfComments(s, out) /\ Ascending(s)
    <3>1. CASE Package \in DOMAIN docs
      <4>1. s = docs[Package] \o buf
        BY <3>1 DEF OfPackage
      <4>2. OfComments(docs[Package], out) /\ Ascending(docs[Package]) /\ docs[Package] \in Seq(Nat)
        BY <1>0, <1>2, <3>1 DEF DocsTell
      <4> QED
        BY <1>0, <1>3, <1>4, <3>1, <4>1, <4>2, ConcatTells
    <3>2. CASE Package \notin DOMAIN docs
      BY <1>4, <3>2 DEF OfPackage
    <3> QED
      BY <3>1, <3>2
  <2> HIDE DEF s
  <2>2. \A m \in DOMAIN docs : m # Package => Apart(docs[m], s)
    BY <1>6
  <2>3. DocsTell(Put(Package, s), out)
    BY <1>2, <2>1, <2>2, PutTells
  <2> QED
    BY <2>3 DEF s
<1>7. DocsTell(docs', out)
  BY <1>1, <1>2, <1>5, <1>6
<1>8. BufTells(<<>>, docs', out)
  BY DEF BufTells, OfComments, Ascending, Before
<1> QED
  BY <1>1, <1>2, <1>7, <1>8

LEMMA AppendTells ==
  ASSUME NEW a \in Seq(Nat), NEW o \in Seq(Item), NEW x \in Item, AnnotationsTell(a, o),
         \A k \in DOMAIN o : o[k].to <= x.from, Begins(x, Annotates), x.from < x.to
  PROVE  AnnotationsTell(Append(a, x.from), Append(o, x))
<1>1. PICK n \in Nat, m \in Nat : n = Len(a) /\ m = Len(o)
  OBVIOUS
<1>2. PICK b, oo : b = Append(a, x.from) /\ oo = Append(o, x)
  OBVIOUS
<1>3. x.from \in Nat
  BY DEF Item
<1>4. /\ DOMAIN a = 1..n /\ DOMAIN b = 1..(n+1) /\ b[n+1] = x.from /\ \A i \in 1..n : b[i] = a[i]
      /\ DOMAIN oo = 1..(m+1) /\ oo[m+1] = x
  BY <1>1, <1>2, <1>3
<1>5. AnnotationsTell(a, oo)
  BY <1>2, OfMore
<1>6. ASSUME NEW i \in 1..n PROVE a[i] \in Nat /\ a[i] < x.from
  <2>1. PICK k \in DOMAIN o : o[k].from < o[k].to /\ a[i] = o[k].from
    BY <1>4 DEF AnnotationsTell
  <2>2. o[k] \in Item
    OBVIOUS
  <2>3. o[k].from \in Nat /\ o[k].to \in Nat /\ o[k].to <= x.from
    BY <2>2 DEF Item
  <2> QED
    BY <1>3, <2>1, <2>3
<1>7. ASSUME NEW i \in 1..(n+1), NEW j \in 1..(n+1), i < j PROVE b[i] < b[j]
  <2>1. i \in 1..n /\ b[i] = a[i]
    BY <1>1, <1>4, <1>7
  <2>2. CASE j = n + 1
    BY <1>4, <1>6, <2>1, <2>2
  <2>3. CASE j # n + 1
    <3>1. j \in 1..n /\ b[j] = a[j]
      BY <1>1, <1>4, <2>3
    <3> QED
      BY <1>4, <1>7, <2>1, <3>1 DEF AnnotationsTell, Ascending
  <2> QED
    BY <2>2, <2>3
<1>8. Ascending(b)
  BY <1>4, <1>7 DEF Ascending
<1>9. ASSUME NEW i \in 1..(n+1)
      PROVE \E k \in DOMAIN oo : Begins(oo[k], Annotates) /\ oo[k].from < oo[k].to /\ b[i] = oo[k].from
  <2>1. CASE i = n + 1
    <3>1. m + 1 \in DOMAIN oo
      BY <1>1, <1>4
    <3> QED
      BY <1>4, <2>1, <3>1
  <2>2. CASE i # n + 1
    <3>1. i \in DOMAIN a /\ b[i] = a[i]
      BY <1>1, <1>4, <2>2
    <3> QED
      BY <1>5, <3>1 DEF AnnotationsTell
  <2> QED
    BY <2>1, <2>2
<1>10. AnnotationsTell(b, oo)
  BY <1>4, <1>8, <1>9 DEF AnnotationsTell
<1> QED
  BY <1>2, <1>10

LEMMA CommentTells ==
  ASSUME IInv, DocsInv, NEW item \in Item, item.typ = "Comment", TakeComment(item),
         \A k \in DOMAIN out : out[k].to <= item.from, item.from < item.to
  PROVE  LET o == Append(out, item) IN
         BufTells(buf', docs', o) /\ DocsTell(docs', o) /\ AnnotationsTell(annotations', o)
<1> DEFINE o == Append(out, item)
<1>0. /\ buf \in Seq(Nat) /\ annotations \in Seq(Nat) /\ \A n \in DOMAIN docs : docs[n] \in Seq(Nat)
      /\ out \in Seq(Item) /\ Positions(item) \in Seq(Nat)
  BY PositionsType DEF IInv, DocsType, LexerTypeOK
<1>1. /\ docs' = docs
      /\ \/ /\ Begins(item, Annotates)
            /\ annotations' = Append(annotations, item.from) /\ buf' = buf
         \/ /\ annotations' = annotations /\ buf' = buf
         \/ /\ ~Begins(item, Annotates)
            /\ annotations' = annotations /\ buf' = buf \o Positions(item)
  BY DEF TakeComment
<1>2. BufTells(buf, docs, out) /\ DocsTell(docs, out) /\ AnnotationsTell(annotations, out)
  BY DEF DocsInv
<1>3. /\ BufTells(buf, docs, o) /\ DocsTell(docs, o) /\ AnnotationsTell(annotations, o)
  BY <1>0, <1>2, OfMore DEF BufTells, DocsTell
<1>4. CASE Begins(item, Annotates) /\ annotations' = Append(annotations, item.from) /\ buf' = buf
  <2>1. AnnotationsTell(Append(annotations, item.from), o)
    BY <1>0, <1>2, <1>4, AppendTells
  <2> HIDE DEF o
  <2> QED
    BY <1>1, <1>3, <1>4, <2>1 DEF o
<1>5. CASE annotations' = annotations /\ buf' = buf
  BY <1>1, <1>3, <1>5
<1>6. CASE ~Begins(item, Annotates) /\ annotations' = annotations /\ buf' = buf \o Positions(item)
  <2> DEFINE p == Positions(item)
  <2>1. OfComments(p, o)
    <3>1. PICK n \in Nat : n = Len(out)
      BY <1>0
    <3>2. n + 1 \in DOMAIN o /\ o[n+1] = item
      BY <1>0, <3>1
    <3>3. \A i \in DOMAIN p : p[i] \in Inside(item)
      BY PositionsTell
    <3> HIDE DEF o, p
    <3> QED
      BY <1>6, <3>2, <3>3 DEF OfComments
  <2>2. Ascending(p) /\ \A i \in DOMAIN p : p[i] >= item.from
    BY PositionsTell
  <2>3. p \in Seq(Nat) /\ item.from \in Nat
    BY <1>0 DEF Item
  <2> HIDE DEF p
  <2>4. ASSUME NEW s \in Seq(Nat), OfComments(s, out) PROVE Before(s, p)
    <3> SUFFICES ASSUME NEW i \in DOMAIN s, NEW j \in DOMAIN p PROVE s[i] < p[j]
      BY DEF Before
    <3>1. s[i] < item.from
      BY <1>0, <2>4, AllBefore
    <3>2. s[i] \in Nat /\ p[j] \in Nat /\ p[j] >= item.from
      BY <2>2, <2>3
    <3> QED
      BY <2>3, <3>1, <3>2
  <2>5. OfComments(buf, out) /\ OfComments(buf, o) /\ Ascending(buf)
    BY <1>2, <1>3 DEF BufTells
  <2>6. Before(buf, p)
    BY <1>0, <2>4, <2>5
  <2> DEFINE b == buf \o p
  <2>7. /\ OfComments(b, o) /\ Ascending(b)
        /\ \A i \in DOMAIN b : (\E j \in DOMAIN buf : b[i] = buf[j]) \/ (\E j \in DOMAIN p : b[i] = p[j])
    <3> HIDE DEF o
    <3> QED
      BY <1>0, <2>1, <2>2, <2>3, <2>5, <2>6, ConcatTells
  <2> HIDE DEF b
  <2>8. ASSUME NEW n \in DOMAIN docs PROVE Before(docs[n], b)
    <3>1. Before(docs[n], buf)
      BY <1>2 DEF BufTells
    <3>2. Before(docs[n], p)
      BY <1>0, <1>2, <2>4 DEF DocsTell
    <3> QED
      BY <2>7, <3>1, <3>2 DEF Before
  <2>9. BufTells(b, docs, o)
    BY <2>7, <2>8 DEF BufTells
  <2> HIDE DEF o
  <2> QED
    BY <1>1, <1>3, <1>6, <2>9 DEF b, p, o
<1> QED
  BY <1>1, <1>4, <1>5, <1>6

(* The item that is received is behind those that were.                     *)
LEMMA HeadBehind ==
  ASSUME IInv, l.items # <<>>, l.state # "returned"
  PROVE  LET item == Head(l.items) IN
         item \in Item /\ Fits(item) /\ \A k \in DOMAIN out : out[k].to <= item.from
<1> DEFINE item == Head(l.items)
           e == out \o l.items
<1>1. /\ out \in Seq(Item) /\ l.items \in Seq(Item) /\ InOrder(e) /\ UpTo(e, l.start)
  BY DEF IInv, LexerTypeOK, Lexers, ItemsInv, Emitted
<1>2. PICK n \in Nat, m \in Nat : n = Len(out) /\ m = Len(l.items)
  BY <1>1
<1>3. m > 0 /\ item \in Item /\ item = l.items[1]
  BY <1>1, <1>2
<1>4. DOMAIN out = 1..n /\ DOMAIN e = 1..(n+m) /\ e[n+1] = item /\ \A k \in 1..n : e[k] = out[k]
  BY <1>1, <1>2, <1>3
<1> HIDE DEF item, e
<1>5. n + 1 \in DOMAIN e /\ \A k \in 1..n : k \in DOMAIN e /\ k < n + 1
  BY <1>2, <1>3, <1>4
<1>6. Fits(item)
  BY <1>1, <1>4, <1>5 DEF UpTo
<1>7. \A k \in DOMAIN out : out[k].to <= item.from
  BY <1>1, <1>4, <1>5 DEF InOrder
<1> QED
  BY <1>3, <1>6, <1>7 DEF item

LEMMA DocsStay ==
  ASSUME input' = input, BufTells(buf', docs', out'), DocsTell(docs', out'), AnnotationsTell(annotations', out')
  PROVE  DocsInv'
BY DEF DocsInv, BufTells, DocsTell, AnnotationsTell, OfComments, Ascending, Before, Apart, Begins, Inside

LEMMA InitDocs == DocsInit => DocsInv
BY DEF DocsInit, Init, NoDocs, DocsInv, BufTells, DocsTell, AnnotationsTell, OfComments, Ascending

LEMMA NextDocs == IInv /\ DocsInv /\ [Next]_allVars => DocsInv'
<1> SUFFICES ASSUME IInv, DocsInv, [Next]_allVars PROVE DocsInv'
  OBVIOUS
<1>0. /\ input' = input /\ out \in Seq(Item) /\ input \in Seq(Chars)
      /\ BufTells(buf, docs, out) /\ DocsTell(docs, out) /\ AnnotationsTell(annotations, out)
  BY DEF IInv, LexerTypeOK, DocsInv, Next, TakeItem, Receive, Lex, Step, Finish, Terminated, vars, allVars
<1>1. ASSUME NEW x \in Item, out' = Append(out, x), UNCHANGED docVars PROVE DocsInv'
  <2>1. /\ BufTells(buf, docs, Append(out, x)) /\ DocsTell(docs, Append(out, x))
        /\ AnnotationsTell(annotations, Append(out, x))
    BY <1>0, OfMore DEF BufTells, DocsTell
  <2>2. buf' = buf /\ docs' = docs /\ annotations' = annotations
    BY <1>1 DEF docVars
  <2>3. BufTells(buf', docs', out') /\ DocsTell(docs', out') /\ AnnotationsTell(annotations', out')
    BY <1>1, <2>1, <2>2
  <2> QED
    BY <1>0, <2>3, DocsStay
<1>2. CASE TakeItem
  <2> DEFINE item == Head(l.items)
             o == Append(out, item)
  <2>1. /\ out' = o
        /\ \/ item.typ = "Text" /\ TakeText(item) /\ buf' = Reset(item)
           \/ item.typ = "Comment" /\ TakeComment(item)
           \/ UNCHANGED docVars
        /\ l.items # <<>> /\ l.state # "returned"
    BY <1>2 DEF TakeItem, Receive, Running
  <2>2. item \in Item /\ Fits(item) /\ \A k \in DOMAIN out : out[k].to <= item.from
    BY <2>1, HeadBehind
  <2> HIDE DEF item
  <2>3. CASE TakeText(item) /\ buf' = Reset(item)
    <3>1. BufTells(buf', docs', out) /\ DocsTell(docs', out) /\ AnnotationsTell(annotations', out)
      BY <2>3, TextTells
    <3>2. BufTells(buf', docs', o) /\ DocsTell(docs', o) /\ AnnotationsTell(annotations', o)
      BY <1>0, <2>2, <3>1, OfMore DEF BufTells, DocsTell
    <3> HIDE DEF o
    <3> QED
      BY <1>0, <2>1, <3>2, DocsStay
  <2>4. CASE item.typ = "Comment" /\ TakeComment(item)
    <3>1. item.from < item.to
      BY <2>2, <2>4 DEF Fits
    <3>2. BufTells(buf', docs', o) /\ DocsTell(docs', o) /\ AnnotationsTell(annotations', o)
      BY <2>2, <2>4, <3>1, CommentTells
    <3> HIDE DEF o
    <3> QED
      BY <1>0, <2>1, <3>2, DocsStay
  <2>5. CASE UNCHANGED docVars
    BY <1>1, <2>1, <2>2, <2>5
  <2> QED
    BY <2>1, <2>3, <2>4, <2>5
<1>3. CASE Finish /\ UNCHANGED docVars
  <2>1. EOFItem \in Item
    BY <1>0 DEF EOFItem, Item
  <2> QED
    BY <1>1, <1>3, <2>1 DEF Finish
<1>4. CASE out' = out /\ UNCHANGED docVars
  <2>1. buf' = buf /\ docs' = docs /\ annotations' = annotations
    BY <1>4 DEF docVars
  <2>2. BufTells(buf', docs', out') /\ DocsTell(docs', out') /\ AnnotationsTell(annotations', out')
    BY <1>0, <1>4, <2>1
  <2> QED
    BY <1>0, <2>2, DocsStay
<1> QED
  BY <1>2, <1>3, <1>4 DEF Next, Lex, Step, Terminated, vars, docVars, allVars

(* A comment of the text is told at most once: the documentation of each    *)
(* name, and the annotations, are in the order of the text; no character is *)
(* in two documentations, and none of an annotation is in one; and in a     *)
(* text the lexer can cope with each of these characters is in a comment    *)
(* under the rules of the language.                                        *)
CommentsToldOnce ==
  /\ \A n \in DOMAIN docs :
       /\ Ascending(docs[n])
       /\ \A m \in DOMAIN docs : m # n => Apart(docs[m], docs[n])
       /\ \A i \in DOMAIN docs[n], k \in DOMAIN out :
            Begins(out[k], Annotates) => docs[n][i] \notin Inside(out[k])
  /\ Ascending(annotations)
  /\ \A i \in DOMAIN annotations : input[annotations[i] + 1] = Annotates
  /\ Tractable =>
       LET syntax == Syntax IN
       /\ \A n \in DOMAIN docs : \A i \in DOMAIN docs[n] : syntax[docs[n][i]] \in {"line", "block"}
       /\ \A i \in DOMAIN annotations : syntax[annotations[i]] \in {"line", "block"}

LEMMA OutHolds ==
  ASSUME NEW f, SInv, Tells(f, out, l)
  PROVE  \A k \in DOMAIN out : \A p \in Inside(out[k]) : out[k].typ = "Comment" => f[p] \in {"line", "block"}
<1> SUFFICES ASSUME NEW k \in DOMAIN out, NEW p \in Inside(out[k]), out[k].typ = "Comment"
             PROVE  f[p] \in {"line", "block"}
  OBVIOUS
<1>1. out \in Seq(Item) /\ l.items \in Seq(Item)
  BY DEF SInv, IInv, LexerTypeOK, Lexers
<1>2. \A i \in DOMAIN Emitted : Holds(f, Emitted[i])
  BY DEF Tells, Placed, Between, Told, Emitted
<1>3. k \in DOMAIN Emitted /\ Emitted[k] = out[k]
  <2>1. PICK n \in Nat, m \in Nat : n = Len(out) /\ m = Len(l.items)
    BY <1>1
  <2>2. k \in 1..n /\ DOMAIN Emitted = 1..(n+m) /\ \A i \in 1..n : Emitted[i] = out[i]
    BY <1>1, <2>1 DEF Emitted
  <2> QED
    BY <2>1, <2>2
<1>4. HasType(f, "Comment", p)
  BY <1>2, <1>3 DEF Holds
<1> QED
  BY <1>4 DEF HasType, CommentAt

(* So it is for every text and any names: documentation is comments, each   *)
(* told once and in their order, however the parser and the lexer take      *)
(* their turns (parse.go:57-117).                                          *)
THEOREM CommentsToldOnceHolds == Spec => []CommentsToldOnce
<1>1. ASSUME SInv, DocsInv PROVE CommentsToldOnce
  <2>0. /\ out \in Seq(Item) /\ InOrder(Emitted) /\ l.items \in Seq(Item)
    BY <1>1 DEF SInv, IInv, LexerTypeOK, ItemsInv, Lexers
  <2>1. DocsTell(docs, out) /\ AnnotationsTell(annotations, out)
    BY <1>1 DEF DocsInv
  <2>2. \A i, j \in DOMAIN out : i < j => out[i].to <= out[j].from
    <3>1. PICK n \in Nat, m \in Nat : n = Len(out) /\ m = Len(l.items)
      BY <2>0
    <3>2. DOMAIN out = 1..n /\ DOMAIN Emitted = 1..(n+m) /\ \A i \in 1..n : Emitted[i] = out[i]
      BY <2>0, <3>1 DEF Emitted
    <3>3. \A i \in 1..n : i \in 1..(n+m)
      BY <3>1
    <3> QED
      BY <2>0, <3>2, <3>3 DEF InOrder
  <2>3. ASSUME NEW i \in DOMAIN out, NEW j \in DOMAIN out, NEW p \in Inside(out[i]), p \in Inside(out[j])
        PROVE  i = j
    <3>1. out[i] \in Item /\ out[j] \in Item /\ i \in Nat /\ j \in Nat
      BY <2>0
    <3>2. out[i].from \in Nat /\ out[i].to \in Nat /\ out[j].from \in Nat /\ out[j].to \in Nat
      BY <3>1 DEF Item
    <3>3. p >= out[i].from /\ p < out[i].to /\ p >= out[j].from /\ p < out[j].to /\ p \in Nat
      BY <2>3, <3>2 DEF Inside
    <3>4. ~(i < j) /\ ~(j < i)
      BY <2>2, <3>2, <3>3
    <3> QED
      BY <3>1, <3>4
  <2>4. ASSUME NEW n \in DOMAIN docs, NEW i \in DOMAIN docs[n], NEW k \in DOMAIN out,
               Begins(out[k], Annotates), docs[n][i] \in Inside(out[k])
        PROVE  FALSE
    <3>1. PICK j \in DOMAIN out : ~Begins(out[j], Annotates) /\ docs[n][i] \in Inside(out[j])
      BY <2>1 DEF DocsTell, OfComments
    <3>2. j = k
      BY <2>3, <2>4, <3>1
    <3> QED
      BY <2>4, <3>1, <3>2
  <2>5. ASSUME NEW i \in DOMAIN annotations PROVE input[annotations[i] + 1] = Annotates
    BY <2>1 DEF AnnotationsTell, Begins
  <2>6. ASSUME Tractable
        PROVE  LET syntax == Syntax IN
               /\ \A n \in DOMAIN docs : \A i \in DOMAIN docs[n] : syntax[docs[n][i]] \in {"line", "block"}
               /\ \A i \in DOMAIN annotations : syntax[annotations[i]] \in {"line", "block"}
    <3> DEFINE f == Syntax
    <3>1. Tells(f, out, l)
      BY <1>1, <2>6, SyntaxTells
    <3> HIDE DEF f
    <3>2. \A k \in DOMAIN out : \A p \in Inside(out[k]) : out[k].typ = "Comment" => f[p] \in {"line", "block"}
      BY <1>1, <3>1, OutHolds
    <3>3. ASSUME NEW n \in DOMAIN docs, NEW i \in DOMAIN docs[n] PROVE f[docs[n][i]] \in {"line", "block"}
      BY <2>1, <3>2 DEF DocsTell, OfComments
    <3>4. ASSUME NEW i \in DOMAIN annotations PROVE f[annotations[i]] \in {"line", "block"}
      <4>1. PICK k \in DOMAIN out : out[k].typ = "Comment" /\ out[k].from < out[k].to /\ annotations[i] = out[k].from
        BY <2>1 DEF AnnotationsTell, Begins
      <4>2. out[k].from \in Inside(out[k])
        <5>1. out[k] \in Item
          BY <2>0
        <5>2. out[k].from \in Nat /\ out[k].to \in Nat
          BY <5>1 DEF Item
        <5> QED
          BY <4>1, <5>2 DEF Inside
      <4> QED
        BY <3>2, <4>1, <4>2
    <3> QED
      BY <3>3, <3>4 DEF f
  <2> QED
    BY <2>1, <2>4, <2>5, <2>6 DEF CommentsToldOnce, DocsTell, AnnotationsTell
<1>2. SInv /\ DocsInv => CommentsToldOnce
  BY <1>1
<1>3. Spec => []DocsInv
  <2>1. DocsInit => IInv /\ DocsInv
    BY InitInv, InitDocs
  <2>2. (IInv /\ DocsInv) /\ [Next]_allVars => (IInv /\ DocsInv)'
    BY NextInv, NextDocs
  <2> QED
    BY <2>1, <2>2, PTL DEF Spec
<1> QED
  BY <1>2, <1>3, SyntaxInvariant, PTL

-----------------------------------------------------------------------------
(* The stretches of a set of positions and the items that hold them.        *)

LEMMA MaxIs ==
  ASSUME NEW S \in SUBSET Nat, NEW m \in S, \A y \in S : y <= m
  PROVE  Max(S) = m
<1>1. \E x \in S : \A y \in S : x >= y
  <2>1. \A y \in S : m >= y
    OBVIOUS
  <2> QED
    BY <2>1
<1>2. Max(S) \in S /\ \A y \in S : Max(S) >= y
  BY <1>1 DEF Max
<1>3. Max(S) >= m /\ Max(S) <= m /\ Max(S) \in Nat /\ m \in Nat
  BY <1>2
<1> QED
  BY <1>3

(* The items of type t are the stretches of S.                              *)
Made(S, o, t) ==
  /\ S \in SUBSET Nat
  /\ \A k \in DOMAIN o : o[k].typ = t =>
       o[k].from < o[k].to /\ Inside(o[k]) \subseteq S /\ (o[k].from > 0 => o[k].from - 1 \notin S)
  /\ \A p \in S : \E k \in DOMAIN o : o[k].typ = t /\ p \in Inside(o[k])

OfType(o, t) == {k \in DOMAIN o : o[k].typ = t}

LEMMA ItemRange ==
  ASSUME NEW o \in Seq(Item), NEW k \in DOMAIN o
  PROVE  /\ o[k].from \in Nat /\ o[k].to \in Nat /\ Inside(o[k]) = o[k].from..(o[k].to - 1)
         /\ \A p : p \in Inside(o[k]) <=> p \in Nat /\ o[k].from <= p /\ p < o[k].to
<1>1. o[k] \in Item
  OBVIOUS
<1>2. o[k].from \in Nat /\ o[k].to \in Nat
  BY <1>1 DEF Item
<1> QED
  BY <1>2 DEF Inside

LEMMA Stretches ==
  ASSUME NEW o \in Seq(Item), InOrder(o), NEW t, NEW S, Made(S, o, t)
  PROVE  /\ Starts(S) = {o[k].from : k \in OfType(o, t)}
         /\ \A k \in OfType(o, t) : \A p \in Inside(o[k]) : StartOf(S, p) = o[k].from
         /\ \A k \in OfType(o, t) : Stretch(S, o[k].from) = Inside(o[k])
<1> DEFINE T == OfType(o, t)
<1>0. /\ \A k \in DOMAIN o : k \in Nat /\ o[k].from \in Nat /\ o[k].to \in Nat
      /\ \A k \in DOMAIN o : \A p : p \in Inside(o[k]) <=> p \in Nat /\ o[k].from <= p /\ p < o[k].to
  BY ItemRange
<1>1. /\ \A k \in T : k \in DOMAIN o /\ o[k].from < o[k].to /\ Inside(o[k]) \subseteq S
                      /\ (o[k].from > 0 => o[k].from - 1 \notin S)
      /\ \A p \in S : \E k \in T : p \in Inside(o[k])
      /\ S \in SUBSET Nat
  BY DEF Made, OfType
<1> HIDE DEF T
<1>2. ASSUME NEW p \in Starts(S) PROVE \E k \in T : p = o[k].from
  <2>1. p \in S /\ p - 1 \notin S
    BY DEF Starts
  <2>2. PICK k \in T : p \in Inside(o[k])
    BY <1>1, <2>1
  <2>3. p \in Nat /\ o[k].from <= p /\ p < o[k].to /\ o[k].from \in Nat /\ o[k].to \in Nat
    BY <1>0, <1>1, <2>2
  <2>4. CASE o[k].from < p
    <3>1. p - 1 \in Nat /\ o[k].from <= p - 1 /\ p - 1 < o[k].to
      BY <2>3, <2>4
    <3>2. p - 1 \in Inside(o[k])
      BY <1>0, <1>1, <2>2, <3>1
    <3> QED
      BY <1>1, <2>1, <2>2, <3>2
  <2> QED
    BY <2>2, <2>3, <2>4
<1>3. ASSUME NEW k \in T PROVE o[k].from \in Starts(S)
  <2>1. o[k].from \in Nat /\ o[k].to \in Nat /\ o[k].from < o[k].to
    BY <1>0, <1>1
  <2>2. o[k].from \in Inside(o[k])
    BY <1>0, <1>1, <2>1
  <2>3. o[k].from \in S
    BY <1>1, <2>2
  <2>4. o[k].from - 1 \notin S
    <3>1. CASE o[k].from > 0
      BY <1>1, <3>1
    <3>2. CASE o[k].from = 0
      <4>1. o[k].from - 1 \notin Nat
        BY <3>2
      <4> QED
        BY <1>1, <4>1
    <3> QED
      BY <2>1, <3>1, <3>2
  <2> QED
    BY <2>3, <2>4 DEF Starts
<1>4. ASSUME NEW k \in T, NEW p \in Inside(o[k]) PROVE StartOf(S, p) = o[k].from
  <2> DEFINE Q == {q \in Starts(S) : q <= p}
  <2>1. k \in DOMAIN o /\ p \in Nat /\ o[k].from <= p /\ p < o[k].to /\ o[k].from \in Nat /\ o[k].to \in Nat
    BY <1>0, <1>1
  <2>2. o[k].from \in Q
    BY <1>3, <2>1
  <2>3. ASSUME NEW q \in Q PROVE q \in Nat /\ q <= o[k].from
    <3>1. PICK j \in T : q = o[j].from
      BY <1>2
    <3>2. j \in DOMAIN o /\ j \in Nat /\ k \in Nat /\ o[j].from \in Nat /\ o[j].to \in Nat /\ o[j].from < o[j].to
      BY <1>0, <1>1, <2>1
    <3>3. j < k => o[j].to <= o[k].from
      BY <2>1, <3>2 DEF InOrder
    <3>4. k < j => o[k].to <= o[j].from
      BY <2>1, <3>2 DEF InOrder
    <3>5. q <= p
      OBVIOUS
    <3> QED
      BY <2>1, <3>1, <3>2, <3>3, <3>4, <3>5
  <2>4. Q \in SUBSET Nat
    BY <2>3
  <2> HIDE DEF Q
  <2>5. Max(Q) = o[k].from
    BY <2>2, <2>3, <2>4, MaxIs
  <2> QED
    BY <2>5 DEF StartOf, Q
<1>5. ASSUME NEW k \in T PROVE Stretch(S, o[k].from) = Inside(o[k])
  <2>1. \A p \in Inside(o[k]) : p \in Stretch(S, o[k].from)
    BY <1>1, <1>4 DEF Stretch
  <2>2. ASSUME NEW p \in Stretch(S, o[k].from) PROVE p \in Inside(o[k])
    <3>1. p \in S /\ StartOf(S, p) = o[k].from
      BY DEF Stretch
    <3>2. PICK j \in T : p \in Inside(o[j])
      BY <1>1, <3>1
    <3>3. o[j].from = o[k].from
      BY <1>4, <3>1, <3>2
    <3>4. /\ j \in DOMAIN o /\ j \in Nat /\ k \in DOMAIN o /\ k \in Nat
          /\ o[j].from \in Nat /\ o[j].to \in Nat /\ o[j].from < o[j].to
          /\ o[k].from \in Nat /\ o[k].to \in Nat /\ o[k].from < o[k].to
      BY <1>0, <1>1
    <3>5. (j < k => o[j].to <= o[k].from) /\ (k < j => o[k].to <= o[j].from)
      BY <3>4 DEF InOrder
    <3>6. j = k
      BY <3>3, <3>4, <3>5
    <3> QED
      BY <3>2, <3>6
  <2> QED
    BY <2>1, <2>2
<1> QED
  BY <1>2, <1>3, <1>4, <1>5 DEF T

-----------------------------------------------------------------------------
(* What the documentation tells of the items that were yielded.             *)

Kept(x) == x.typ = "Comment" /\ ~Begins(x, Annotates)

(* The comments in front of the item k, and behind the text before it.      *)
FrontOf(o, k) ==
  {p \in Nat : \E c \in DOMAIN o :
     /\ c < k /\ Kept(o[c]) /\ p \in Inside(o[c])
     /\ \A t \in OfType(o, "Text") : t < k => t < c}

TextOf(x) == CharsAt(Positions(x))

Declaring(o) == {k \in OfType(o, "Text") : Declares(TextOf(o[k])) # {}}

DeclaringOf(o, n) == {k \in Declaring(o) : DeclaredIn(TextOf(o[k])) = n}

Heads(o) ==
  {k \in OfType(o, "Text") : /\ IsHeading(CharsAt(Sorted(FrontOf(o, k))))
                             /\ \A d \in Declaring(o) : k < d}

Notes(o) == {k \in DOMAIN o : Begins(o[k], Annotates)}

(* The last of a set of items.                                              *)
IsLast(k, S) == k \in S /\ \A j \in S : j <= k

NamesTold(o, d) ==
  \A n \in Names :
    /\ n \in DOMAIN d => \E k : IsLast(k, DeclaringOf(o, n)) /\ Range(d[n]) = FrontOf(o, k)
    /\ DeclaringOf(o, n) # {} => n \in DOMAIN d

HeadsTold(o, d) ==
  /\ Package \in DOMAIN d <=> Heads(o) # {}
  /\ Package \in DOMAIN d => Range(d[Package]) = UNION {FrontOf(o, k) : k \in Heads(o)}

NotesTold(o, a) == Range(a) = {o[k].from : k \in Notes(o)}

Whole(o, b, d, a) ==
  /\ \A k \in DOMAIN o : o[k].to <= Len(input)
  /\ Range(b) = FrontOf(o, Len(o) + 1)
  /\ NamesTold(o, d) /\ HeadsTold(o, d) /\ NotesTold(o, a)

(* It is so until an annotation stops it all.                               *)
WholeInv == l.state # "stopped" => Whole(out, buf, docs, annotations)

LEMMA WholeStays ==
  ASSUME input' = input, Whole(out', buf', docs', annotations')
  PROVE  WholeInv'
<1>1. \A x : Begins(x, Annotates)' <=> Begins(x, Annotates)
  BY DEF Begins
<1>2. \A x : TextOf(x)' = TextOf(x)
  BY DEF TextOf, CharsAt, Positions
<1>3. \A S : Sorted(S)' = Sorted(S)
  BY DEF Sorted
<1>4. \A s : CharsAt(s)' = CharsAt(s)
  BY DEF CharsAt
<1>5. \A o, k : FrontOf(o, k)' = FrontOf(o, k)
  BY <1>1 DEF FrontOf, Kept, Inside, OfType
<1>6. \A o : Declaring(o)' = Declaring(o)
  BY <1>2 DEF Declaring, Declares, OfType
<1>7. \A o, n : DeclaringOf(o, n)' = DeclaringOf(o, n)
  BY <1>2, <1>6 DEF DeclaringOf, DeclaredIn, Declares
<1>8. \A o : Heads(o)' = Heads(o)
  <2>1. \A s : IsHeading(s)' <=> IsHeading(s)
    BY DEF IsHeading
  <2>2. \A o, k : IsHeading(CharsAt(Sorted(FrontOf(o, k))))' <=> IsHeading(CharsAt(Sorted(FrontOf(o, k))))
    BY <1>3, <1>4, <1>5, <2>1
  <2> QED
    BY <1>6, <2>2 DEF Heads, OfType
<1>9. \A o : Notes(o)' = Notes(o)
  BY <1>1 DEF Notes
<1>10. \A o, d : NamesTold(o, d)' <=> NamesTold(o, d)
  BY <1>5, <1>7 DEF NamesTold, IsLast, Range
<1>11. \A o, d : HeadsTold(o, d)' <=> HeadsTold(o, d)
  BY <1>5, <1>8 DEF HeadsTold, Range
<1>12. \A o, a : NotesTold(o, a)' <=> NotesTold(o, a)
  BY <1>9 DEF NotesTold, Range
<1> QED
  BY <1>5, <1>10, <1>11, <1>12 DEF WholeInv, Whole, Range

(* Another item leaves what was said of those before.                       *)
OneMore(o, x, n, oo) ==
  /\ DOMAIN o = 1..n /\ DOMAIN oo = 1..(n+1) /\ Len(oo) = n + 1
  /\ oo[n+1] = x /\ \A k \in 1..n : oo[k] = o[k] /\ k < n + 1 /\ k \in 1..(n+1)
  /\ \A k \in 1..(n+1) : FrontOf(oo, k) = FrontOf(o, k)
  /\ x.typ = "Text" => FrontOf(oo, n + 2) = {}
  /\ x.typ # "Text" /\ ~Kept(x) => FrontOf(oo, n + 2) = FrontOf(o, n + 1)
  /\ Kept(x) => FrontOf(oo, n + 2) = FrontOf(o, n + 1) \cup Inside(x)

LEMMA FrontMore ==
  ASSUME NEW o \in Seq(Item), NEW x \in Item, NEW n \in Nat, n = Len(o), NEW oo, oo = Append(o, x)
  PROVE  OneMore(o, x, n, oo)
<1>1. /\ DOMAIN o = 1..n /\ DOMAIN oo = 1..(n+1) /\ Len(oo) = n + 1
      /\ oo[n+1] = x /\ \A k \in 1..n : oo[k] = o[k] /\ k < n + 1 /\ k \in 1..(n+1)
  OBVIOUS
<1>2. ASSUME NEW k \in 1..(n+1) PROVE FrontOf(oo, k) = FrontOf(o, k)
  <2>1. \A c \in 1..(n+1) : c < k => c \in 1..n
    OBVIOUS
  <2>2. \A t : t \in OfType(oo, "Text") /\ t < k <=> t \in OfType(o, "Text") /\ t < k
    BY <1>1, <2>1 DEF OfType
  <2>3. \A c : c \in DOMAIN oo /\ c < k <=> c \in DOMAIN o /\ c < k
    BY <1>1, <2>1
  <2>4. \A c \in DOMAIN o : oo[c] = o[c]
    BY <1>1
  <2> QED
    BY <2>2, <2>3, <2>4 DEF FrontOf
<1>3. ASSUME x.typ = "Text" PROVE FrontOf(oo, n + 2) = {}
  <2>1. n + 1 \in OfType(oo, "Text") /\ n + 1 < n + 2
    BY <1>1, <1>3 DEF OfType
  <2>2. \A c \in DOMAIN oo : ~(n + 1 < c)
    BY <1>1
  <2> QED
    BY <2>1, <2>2 DEF FrontOf
<1>4. ASSUME x.typ # "Text"
      PROVE  FrontOf(oo, n + 2) = FrontOf(o, n + 1) \cup {p \in Nat : Kept(x) /\ p \in Inside(x)}
  <2>1. OfType(oo, "Text") = OfType(o, "Text") /\ \A t \in OfType(o, "Text") : t \in 1..n
    BY <1>1, <1>4 DEF OfType
  <2>2. \A t \in 1..n : t < n + 2 /\ t < n + 1
    OBVIOUS
  <2>3. ASSUME NEW p \in FrontOf(oo, n + 2)
        PROVE  p \in FrontOf(o, n + 1) \cup {q \in Nat : Kept(x) /\ q \in Inside(x)}
    <3>1. PICK c \in 1..(n+1) : /\ Kept(oo[c]) /\ p \in Inside(oo[c]) /\ p \in Nat
                                /\ \A t \in OfType(oo, "Text") : t < n + 2 => t < c
      BY <1>1 DEF FrontOf
    <3>2. CASE c = n + 1
      BY <1>1, <3>1, <3>2
    <3>3. CASE c # n + 1
      <4>1. c \in DOMAIN o /\ c < n + 1 /\ oo[c] = o[c]
        BY <1>1, <3>3
      <4>2. \A t \in OfType(o, "Text") : t < c
        BY <2>1, <2>2, <3>1
      <4> QED
        BY <3>1, <4>1, <4>2 DEF FrontOf
    <3> QED
      BY <3>2, <3>3
  <2>4. ASSUME NEW p \in FrontOf(o, n + 1) PROVE p \in FrontOf(oo, n + 2)
    <3>1. PICK c \in 1..n : /\ Kept(o[c]) /\ p \in Inside(o[c]) /\ p \in Nat
                            /\ \A t \in OfType(o, "Text") : t < n + 1 => t < c
      BY <1>1 DEF FrontOf
    <3>2. c \in DOMAIN oo /\ c < n + 2 /\ oo[c] = o[c]
      BY <1>1, <2>2
    <3>3. \A t \in OfType(oo, "Text") : t < c
      BY <2>1, <2>2, <3>1
    <3> QED
      BY <3>1, <3>2, <3>3 DEF FrontOf
  <2>5. ASSUME NEW p \in Nat, Kept(x), p \in Inside(x) PROVE p \in FrontOf(oo, n + 2)
    <3>1. n + 1 \in DOMAIN oo /\ n + 1 < n + 2
      BY <1>1
    <3>2. \A t \in OfType(oo, "Text") : t < n + 1
      BY <2>1, <2>2
    <3> QED
      BY <1>1, <2>5, <3>1, <3>2 DEF FrontOf
  <2> QED
    BY <2>3, <2>4, <2>5
<1>5. Inside(x) \subseteq Nat
  BY DEF Item, Inside
<1>6. Kept(x) => x.typ # "Text"
  BY DEF Kept
<1> QED
  BY <1>1, <1>2, <1>3, <1>4, <1>5, <1>6 DEF OneMore

SetsMore(o, x, n, oo) ==
  /\ \A t : OfType(oo, t) = OfType(o, t) \cup {k \in {n + 1} : x.typ = t}
  /\ Declaring(oo) = Declaring(o) \cup {k \in {n + 1} : x.typ = "Text" /\ Declares(TextOf(x)) # {}}
  /\ \A m : DeclaringOf(oo, m) = DeclaringOf(o, m) \cup
        {k \in {n + 1} : /\ x.typ = "Text" /\ Declares(TextOf(x)) # {}
                         /\ DeclaredIn(TextOf(x)) = m}
  /\ Heads(oo) = Heads(o) \cup
        {k \in {n + 1} : /\ x.typ = "Text" /\ Declares(TextOf(x)) = {} /\ Declaring(o) = {}
                         /\ IsHeading(CharsAt(Sorted(FrontOf(o, n + 1))))}
  /\ Notes(oo) = Notes(o) \cup {k \in {n + 1} : Begins(x, Annotates)}

LEMMA ItemsMore ==
  ASSUME NEW o \in Seq(Item), NEW x \in Item, NEW n \in Nat, n = Len(o), NEW oo, oo = Append(o, x)
  PROVE  SetsMore(o, x, n, oo)
<1>1. /\ DOMAIN o = 1..n /\ DOMAIN oo = 1..(n+1)
      /\ oo[n+1] = x /\ \A k \in 1..n : oo[k] = o[k] /\ k < n + 1 /\ k \in 1..(n+1)
      /\ \A k \in 1..(n+1) : FrontOf(oo, k) = FrontOf(o, k)
  <2>1. OneMore(o, x, n, oo)
    BY FrontMore
  <2> QED
    BY <2>1 DEF OneMore
<1>2. \A k : k \in 1..(n+1) <=> k \in 1..n \/ k = n + 1
  OBVIOUS
<1>3. ASSUME NEW t PROVE OfType(oo, t) = OfType(o, t) \cup {k \in {n + 1} : x.typ = t}
  BY <1>1, <1>2 DEF OfType
<1>4. Declaring(oo) = Declaring(o) \cup {k \in {n + 1} : x.typ = "Text" /\ Declares(TextOf(x)) # {}}
  BY <1>1, <1>2 DEF Declaring, OfType
<1>5. ASSUME NEW m
      PROVE  DeclaringOf(oo, m) = DeclaringOf(o, m) \cup
               {k \in {n + 1} : /\ x.typ = "Text" /\ Declares(TextOf(x)) # {}
                                /\ DeclaredIn(TextOf(x)) = m}
  <2>1. \A k \in Declaring(o) : k \in 1..n
    BY <1>1 DEF Declaring, OfType
  <2> QED
    BY <1>1, <1>4, <2>1 DEF DeclaringOf
<1>6. Heads(oo) = Heads(o) \cup
               {k \in {n + 1} : /\ x.typ = "Text" /\ Declares(TextOf(x)) = {} /\ Declaring(o) = {}
                                /\ IsHeading(CharsAt(Sorted(FrontOf(o, n + 1))))}
  <2> DEFINE Titled(S) == IsHeading(CharsAt(Sorted(S)))
  <2>1. /\ Heads(oo) = {k \in OfType(oo, "Text") : Titled(FrontOf(oo, k)) /\ \A d \in Declaring(oo) : k < d}
        /\ Heads(o) = {k \in OfType(o, "Text") : Titled(FrontOf(o, k)) /\ \A d \in Declaring(o) : k < d}
    BY DEF Heads
  <2> HIDE DEF Titled
  <2>2. \A k \in OfType(o, "Text") : k \in 1..n
    BY <1>1 DEF OfType
  <2>3. \A d \in Declaring(o) : d \in 1..n /\ ~(n + 1 < d)
    BY <1>1 DEF Declaring, OfType
  <2>4. \A k \in OfType(oo, "Text") : FrontOf(oo, k) = FrontOf(o, k)
    BY <1>1 DEF OfType
  <2>5. ASSUME NEW k \in 1..n
        PROVE  (\A d \in Declaring(oo) : k < d) <=> (\A d \in Declaring(o) : k < d)
    BY <1>1, <1>4
  <2>6. \A k \in 1..n : k \in Heads(oo) <=> k \in Heads(o)
    <3>1. \A k \in 1..n : k \in OfType(oo, "Text") <=> k \in OfType(o, "Text")
      BY <1>1 DEF OfType
    <3> QED
      BY <2>1, <2>4, <2>5, <3>1
  <2>7. n + 1 \in Heads(oo) <=> /\ x.typ = "Text" /\ Declares(TextOf(x)) = {} /\ Declaring(o) = {}
                                /\ Titled(FrontOf(o, n + 1))
    <3>1. n + 1 \in OfType(oo, "Text") <=> x.typ = "Text"
      BY <1>1, <1>2 DEF OfType
    <3>2. (\A d \in Declaring(oo) : n + 1 < d) <=> Declaring(oo) = {}
      <4>1. ~(n + 1 < n + 1)
        OBVIOUS
      <4> QED
        BY <1>4, <2>3, <4>1
    <3>3. x.typ = "Text" => (Declaring(oo) = {} <=> Declares(TextOf(x)) = {} /\ Declaring(o) = {})
      BY <1>4
    <3> QED
      BY <2>1, <2>4, <3>1, <3>2, <3>3
  <2>8. Heads(oo) \subseteq 1..(n+1) /\ Heads(o) \subseteq 1..n
    BY <1>1, <2>1 DEF OfType
  <2> QED
    BY <1>2, <2>6, <2>7, <2>8 DEF Titled
<1>7. Notes(oo) = Notes(o) \cup {k \in {n + 1} : Begins(x, Annotates)}
  BY <1>1, <1>2 DEF Notes
<1> QED
  BY <1>3, <1>4, <1>5, <1>6, <1>7 DEF SetsMore

LEMMA SetsRange ==
  ASSUME NEW o \in Seq(Item), NEW n \in Nat, n = Len(o)
  PROVE  /\ \A m : DeclaringOf(o, m) \subseteq Declaring(o)
         /\ Declaring(o) \subseteq 1..n /\ Heads(o) \subseteq 1..n /\ Notes(o) \subseteq 1..n
BY DEF Declaring, DeclaringOf, Heads, Notes, OfType

LEMMA PositionsRange ==
  ASSUME NEW x \in Item
  PROVE  Range(Positions(x)) = Inside(x)
<1>1. PICK m \in Nat, n \in Nat : m = x.from /\ n = x.to
  BY DEF Item
<1>2. PICK g : g = Positions(x)
  OBVIOUS
<1>3. DOMAIN g = 1..(n - m) /\ \A i \in 1..(n - m) : g[i] = m + i - 1
  BY <1>1, <1>2 DEF Positions
<1>4. Inside(x) = m..(n-1)
  BY <1>1 DEF Inside
<1>5. \A i \in 1..(n - m) : m + i - 1 \in m..(n-1)
  OBVIOUS
<1>6. \A p \in m..(n-1) : p - m + 1 \in 1..(n - m) /\ m + (p - m + 1) - 1 = p
  OBVIOUS
<1>7. Range(g) = {g[i] : i \in 1..(n - m)}
  BY <1>3 DEF Range
<1>8. \A i \in 1..(n - m) : g[i] \in m..(n-1)
  BY <1>3, <1>5
<1>9. \A p \in m..(n-1) : \E i \in 1..(n - m) : g[i] = p
  BY <1>3, <1>6
<1> QED
  BY <1>2, <1>4, <1>7, <1>8, <1>9

(* What another item does not change.                                       *)
LEMMA NamesSame ==
  ASSUME NEW o \in Seq(Item), NEW x, NEW n \in Nat, n = Len(o), NEW oo, OneMore(o, x, n, oo), SetsMore(o, x, n, oo),
         ~(x.typ = "Text" /\ Declares(TextOf(x)) # {}), NEW d, NamesTold(o, d)
  PROVE  NamesTold(oo, d)
<1>1. ASSUME NEW m PROVE DeclaringOf(oo, m) = DeclaringOf(o, m)
  <2>1. {k \in {n + 1} : /\ x.typ = "Text" /\ Declares(TextOf(x)) # {}
                         /\ DeclaredIn(TextOf(x)) = m} = {}
    OBVIOUS
  <2>2. DeclaringOf(oo, m) = DeclaringOf(o, m) \cup
          {k \in {n + 1} : /\ x.typ = "Text" /\ Declares(TextOf(x)) # {}
                           /\ DeclaredIn(TextOf(x)) = m}
    BY DEF SetsMore
  <2> QED
    BY <2>1, <2>2
<1>2. \A m : DeclaringOf(o, m) \subseteq 1..n
  BY SetsRange
<1>3. \A k \in 1..n : FrontOf(oo, k) = FrontOf(o, k)
  BY DEF OneMore
<1> QED
  BY <1>1, <1>2, <1>3 DEF NamesTold, IsLast

LEMMA HeadsSame ==
  ASSUME NEW o \in Seq(Item), NEW x, NEW n \in Nat, n = Len(o), NEW oo, OneMore(o, x, n, oo),
         Heads(oo) = Heads(o), NEW d, HeadsTold(o, d)
  PROVE  HeadsTold(oo, d)
<1>1. \A k \in Heads(o) : FrontOf(oo, k) = FrontOf(o, k)
  BY SetsRange DEF OneMore
<1>2. {FrontOf(oo, k) : k \in Heads(oo)} = {FrontOf(o, k) : k \in Heads(o)}
  BY <1>1
<1> QED
  BY <1>2 DEF HeadsTold

LEMMA NotesSame ==
  ASSUME NEW o \in Seq(Item), NEW x, NEW n \in Nat, n = Len(o), NEW oo, OneMore(o, x, n, oo), SetsMore(o, x, n, oo),
         ~Begins(x, Annotates), NEW a, NotesTold(o, a)
  PROVE  NotesTold(oo, a)
<1>1. Notes(oo) = Notes(o) /\ \A k \in Notes(o) : oo[k] = o[k]
  BY SetsRange DEF OneMore, SetsMore
<1> QED
  BY <1>1 DEF NotesTold

LEMMA BoundMore ==
  ASSUME NEW o \in Seq(Item), NEW x, NEW n \in Nat, n = Len(o), NEW oo, OneMore(o, x, n, oo),
         \A k \in DOMAIN o : o[k].to <= Len(input), x.to <= Len(input)
  PROVE  \A k \in DOMAIN oo : oo[k].to <= Len(input)
<1>1. \A k \in 1..(n+1) : k \in 1..n \/ k = n + 1
  OBVIOUS
<1> QED
  BY <1>1 DEF OneMore

(* Neither a text nor a comment.                                            *)
LEMMA OtherTold ==
  ASSUME NEW o \in Seq(Item), NEW x \in Item, x.to <= Len(input), x.typ \notin {"Text", "Comment"},
         NEW b, NEW d, NEW a, Whole(o, b, d, a)
  PROVE  Whole(Append(o, x), b, d, a)
<1>a. PICK n \in Nat : n = Len(o)
  OBVIOUS
<1>b. PICK oo : oo = Append(o, x)
  OBVIOUS
<1>1. n = Len(o) /\ oo = Append(o, x)
  BY <1>a, <1>b
<1>2. OneMore(o, x, n, oo) /\ SetsMore(o, x, n, oo)
  BY <1>1, FrontMore, ItemsMore
<1>3. ~Kept(x) /\ ~Begins(x, Annotates) /\ x.typ # "Text"
  BY DEF Kept, Begins
<1>4. Heads(oo) = Heads(o)
  BY <1>2, <1>3 DEF SetsMore
<1>5. Range(b) = FrontOf(oo, Len(oo) + 1)
  <2>1. Len(oo) + 1 = n + 2 /\ FrontOf(oo, n + 2) = FrontOf(o, n + 1)
    BY <1>2, <1>3 DEF OneMore
  <2> QED
    BY <1>1, <2>1 DEF Whole
<1>6. NamesTold(oo, d)
  BY <1>1, <1>2, <1>3, NamesSame DEF Whole
<1>7. HeadsTold(oo, d)
  BY <1>1, <1>2, <1>4, HeadsSame DEF Whole
<1>8. NotesTold(oo, a)
  BY <1>1, <1>2, <1>3, NotesSame DEF Whole
<1>9. \A k \in DOMAIN oo : oo[k].to <= Len(input)
  BY <1>1, <1>2, BoundMore DEF Whole
<1>10. Whole(oo, b, d, a)
  BY <1>5, <1>6, <1>7, <1>8, <1>9 DEF Whole
<1> QED
  BY <1>1, <1>10

LEMMA CommentTold ==
  ASSUME NEW o \in Seq(Item), NEW x \in Item, x.to <= Len(input), x.typ = "Comment",
         NEW b \in Seq(Nat), NEW d, NEW a \in Seq(Nat), Whole(o, b, d, a)
  PROVE  /\ Begins(x, Annotates) => Whole(Append(o, x), b, d, Append(a, x.from))
         /\ ~Begins(x, Annotates) => Whole(Append(o, x), b \o Positions(x), d, a)
<1>a. PICK n \in Nat : n = Len(o)
  OBVIOUS
<1>b. PICK oo : oo = Append(o, x)
  OBVIOUS
<1>1. n = Len(o) /\ oo = Append(o, x)
  BY <1>a, <1>b
<1>2. OneMore(o, x, n, oo) /\ SetsMore(o, x, n, oo)
  BY <1>1, FrontMore, ItemsMore
<1>3. x.typ # "Text"
  OBVIOUS
<1>4. Heads(oo) = Heads(o)
  BY <1>2, <1>3 DEF SetsMore
<1>6. NamesTold(oo, d)
  BY <1>1, <1>2, <1>3, NamesSame DEF Whole
<1>7. HeadsTold(oo, d)
  BY <1>1, <1>2, <1>4, HeadsSame DEF Whole
<1>9. \A k \in DOMAIN oo : oo[k].to <= Len(input)
  BY <1>1, <1>2, BoundMore DEF Whole
<1>10. Range(b) = FrontOf(o, n + 1)
  BY <1>1 DEF Whole
<1>11. CASE Begins(x, Annotates)
  <2>1. Range(b) = FrontOf(oo, Len(oo) + 1)
    <3>1. Len(oo) + 1 = n + 2 /\ FrontOf(oo, n + 2) = FrontOf(o, n + 1)
      BY <1>2, <1>3, <1>11 DEF OneMore, Kept
    <3> QED
      BY <1>10, <3>1
  <2>2. NotesTold(oo, Append(a, x.from))
    <3>1. Range(Append(a, x.from)) = Range(a) \cup {x.from}
      <4>1. x.from \in Nat
        BY DEF Item
      <4>2. Append(a, x.from) = a \o <<x.from>> /\ <<x.from>> \in Seq(Nat)
        BY <4>1
      <4>3. Range(<<x.from>>) = {x.from}
        BY DEF Range
      <4> QED
        BY <4>2, <4>3, ConcatRange
    <3>2. Notes(oo) = Notes(o) \cup {n + 1}
      BY <1>2, <1>11 DEF SetsMore
    <3>3. oo[n+1] = x /\ \A k \in Notes(o) : oo[k] = o[k]
      BY <1>1, <1>2, SetsRange DEF OneMore
    <3>4. Range(a) = {o[k].from : k \in Notes(o)}
      BY DEF Whole, NotesTold
    <3>5. {oo[k].from : k \in Notes(oo)} = {o[k].from : k \in Notes(o)} \cup {x.from}
      <4>1. {oo[k].from : k \in Notes(oo)} = {oo[k].from : k \in Notes(o)} \cup {oo[n+1].from}
        BY <3>2
      <4>2. {oo[k].from : k \in Notes(o)} = {o[k].from : k \in Notes(o)}
        BY <3>3
      <4> QED
        BY <3>3, <4>1, <4>2
    <3> QED
      BY <3>1, <3>4, <3>5 DEF NotesTold
  <2>3. Whole(oo, b, d, Append(a, x.from))
    BY <1>6, <1>7, <1>9, <2>1, <2>2 DEF Whole
  <2> QED
    BY <1>1, <1>11, <2>3
<1>12. CASE ~Begins(x, Annotates)
  <2>1. Range(b \o Positions(x)) = FrontOf(oo, Len(oo) + 1)
    <3>1. Len(oo) + 1 = n + 2 /\ FrontOf(oo, n + 2) = FrontOf(o, n + 1) \cup Inside(x)
      BY <1>2, <1>12 DEF OneMore, Kept
    <3>2. Positions(x) \in Seq(Nat) /\ Range(Positions(x)) = Inside(x)
      BY PositionsType, PositionsRange
    <3>3. Range(b \o Positions(x)) = Range(b) \cup Range(Positions(x))
      BY <3>2, ConcatRange
    <3> QED
      BY <1>10, <3>1, <3>2, <3>3
  <2>2. NotesTold(oo, a)
    BY <1>1, <1>2, <1>12, NotesSame DEF Whole
  <2>3. Whole(oo, b \o Positions(x), d, a)
    BY <1>6, <1>7, <1>9, <2>1, <2>2 DEF Whole
  <2> QED
    BY <1>1, <1>12, <2>3
<1> QED
  BY <1>11, <1>12

LEMMA DeclaredName ==
  ASSUME NEW x \in Item, Declares(TextOf(x)) # {}
  PROVE  DeclaredIn(TextOf(x)) \in Names
<1> DEFINE text == TextOf(x)
           D == Declares(text)
<1>1. D \in SUBSET Nat
  <2>1. Positions(x) \in Seq(Nat)
    BY PositionsType
  <2> QED
    BY <2>1 DEF Declares, TextOf, CharsAt
<1>2. \A i \in D : text[i] \in Names
  BY DEF Declares
<1> HIDE DEF D, text
<1>3. D # {} => Min(D) \in D
  BY <1>1, MinFacts
<1> QED
  BY <1>2, <1>3 DEF DeclaredIn, D, text

(* Comments are within the input.                                           *)
LEMMA FrontRange ==
  ASSUME NEW o \in Seq(Item), \A k \in DOMAIN o : o[k].to <= Len(input), Len(input) \in Nat, NEW k
  PROVE  FrontOf(o, k) \in SUBSET (0..(Len(input) - 1))
<1> SUFFICES ASSUME NEW p \in FrontOf(o, k) PROVE p \in 0..(Len(input) - 1)
  OBVIOUS
<1>1. PICK c \in DOMAIN o : p \in Inside(o[c])
  BY DEF FrontOf
<1>2. p \in Nat /\ p < o[c].to /\ o[c].to \in Nat /\ o[c].to <= Len(input)
  BY <1>1, ItemRange
<1> QED
  BY <1>2

LEMMA TextTold ==
  ASSUME IInv, DocsInv, Whole(out, buf, docs, annotations), NEW x \in Item, x.typ = "Text", x.to <= Len(input),
         TakeText(x)
  PROVE  Whole(Append(out, x), <<>>, docs', annotations')
<1>0. /\ out \in Seq(Item) /\ buf \in Seq(Nat) /\ Ascending(buf) /\ Len(input) \in Nat
      /\ DOMAIN docs \subseteq Names \cup {Package} /\ \A n \in DOMAIN docs : docs[n] \in Seq(Nat)
      /\ Package \notin Names
  BY SourceAssumption DEF IInv, LexerTypeOK, DocsType, DocsInv, BufTells
<1>a. PICK n \in Nat : n = Len(out)
  BY <1>0
<1>b. PICK oo : oo = Append(out, x)
  OBVIOUS
<1>1. n = Len(out) /\ oo = Append(out, x)
  BY <1>a, <1>b
<1>2. OneMore(out, x, n, oo) /\ SetsMore(out, x, n, oo)
  BY <1>0, <1>1, FrontMore, ItemsMore
<1>3. ~Begins(x, Annotates)
  BY DEF Begins
<1>4. Range(<<>>) = FrontOf(oo, Len(oo) + 1)
  <2>1. Len(oo) + 1 = n + 2 /\ FrontOf(oo, n + 2) = {}
    BY <1>2 DEF OneMore
  <2> QED
    BY <2>1, EmptyRange
<1>5. /\ annotations' = annotations
      /\ docs' = IF Declares(TextOf(x)) # {} THEN Put(DeclaredIn(TextOf(x)), buf)
                 ELSE IF IsHeading(CharsAt(buf)) /\ DOMAIN docs \subseteq {Package}
                 THEN Put(Package, OfPackage) ELSE docs
  BY DEF TakeText, TextOf
<1>6. NotesTold(oo, annotations')
  BY <1>0, <1>1, <1>2, <1>3, <1>5, NotesSame DEF Whole
<1>7. \A k \in DOMAIN oo : oo[k].to <= Len(input)
  BY <1>0, <1>1, <1>2, BoundMore DEF Whole
<1>8. Range(buf) = FrontOf(out, n + 1) /\ FrontOf(oo, n + 1) = FrontOf(out, n + 1)
  BY <1>1, <1>2 DEF Whole, OneMore
<1>9. NamesTold(out, docs) /\ HeadsTold(out, docs)
  BY DEF Whole
<1>11. /\ \A m : DeclaringOf(out, m) \subseteq Declaring(out)
       /\ Declaring(out) \subseteq 1..n /\ Heads(out) \subseteq 1..n
  BY <1>0, <1>1, SetsRange
<1>12. CASE Declares(TextOf(x)) # {}
  <2> DEFINE m == DeclaredIn(TextOf(x))
             e == Put(m, buf)
  <2>1. m \in Names
    BY <1>12, DeclaredName
  <2>2. DeclaringOf(oo, m) = DeclaringOf(out, m) \cup {n + 1}
    BY <1>2, <1>12 DEF SetsMore
  <2>3. \A k : k # m => DeclaringOf(oo, k) = DeclaringOf(out, k)
    <3> SUFFICES ASSUME NEW k, k # m PROVE DeclaringOf(oo, k) = DeclaringOf(out, k)
      OBVIOUS
    <3>1. {i \in {n + 1} : x.typ = "Text" /\ Declares(TextOf(x)) # {} /\ DeclaredIn(TextOf(x)) = k} = {}
      OBVIOUS
    <3>2. DeclaringOf(oo, k) = DeclaringOf(out, k) \cup
            {i \in {n + 1} : x.typ = "Text" /\ Declares(TextOf(x)) # {} /\ DeclaredIn(TextOf(x)) = k}
      BY <1>2 DEF SetsMore
    <3> QED
      BY <3>1, <3>2
  <2>4. Heads(oo) = Heads(out)
    BY <1>2, <1>12 DEF SetsMore
  <2> HIDE DEF m
  <2>5. DOMAIN e = DOMAIN docs \cup {m} /\ e[m] = buf /\ \A k \in DOMAIN e : k # m => e[k] = docs[k]
    BY DEF Put
  <2> HIDE DEF e
  <2>6. NamesTold(oo, e)
    <3> SUFFICES ASSUME NEW k \in Names
                 PROVE  /\ k \in DOMAIN e => \E i : IsLast(i, DeclaringOf(oo, k)) /\ Range(e[k]) = FrontOf(oo, i)
                        /\ DeclaringOf(oo, k) # {} => k \in DOMAIN e
      BY DEF NamesTold
    <3>1. CASE k = m
      <4>1. IsLast(n + 1, DeclaringOf(oo, m))
        <5>1. \A j \in 1..n : j <= n + 1
          OBVIOUS
        <5>2. n + 1 <= n + 1
          OBVIOUS
        <5> QED
          BY <1>11, <2>2, <5>1, <5>2 DEF IsLast
      <4>2. Range(e[m]) = FrontOf(oo, n + 1)
        BY <1>8, <2>5
      <4> QED
        BY <2>5, <3>1, <4>1, <4>2
    <3>2. CASE k # m
      <4>1. DeclaringOf(oo, k) = DeclaringOf(out, k) /\ (k \in DOMAIN e <=> k \in DOMAIN docs)
        BY <2>3, <2>5, <3>2
      <4>2. k \in DOMAIN e => e[k] = docs[k]
        BY <2>5, <3>2
      <4>3. \A i : IsLast(i, DeclaringOf(out, k)) => FrontOf(oo, i) = FrontOf(out, i)
        BY <1>2, <1>11 DEF OneMore, IsLast
      <4> QED
        BY <1>9, <4>1, <4>2, <4>3 DEF NamesTold
    <3> QED
      BY <3>1, <3>2
  <2>7. HeadsTold(out, e)
    <3>1. Package # m
      BY <1>0, <2>1
    <3> QED
      BY <1>9, <2>5, <3>1 DEF HeadsTold
  <2>8. HeadsTold(oo, e)
    BY <1>0, <1>1, <1>2, <2>4, <2>7, HeadsSame
  <2>9. docs' = e
    BY <1>5, <1>12 DEF e, m
  <2>10. Whole(oo, <<>>, docs', annotations')
    BY <1>4, <1>6, <1>7, <2>6, <2>8, <2>9 DEF Whole
  <2> QED
    BY <1>1, <2>10
<1>13. ASSUME Declares(TextOf(x)) = {}
       PROVE  Heads(oo) = Heads(out) \cup {k \in {n + 1} : IsHeading(CharsAt(buf)) /\ DOMAIN docs \subseteq {Package}}
  <2>1. Sorted(FrontOf(out, n + 1)) = buf
    <3>1. FrontOf(out, n + 1) \in SUBSET (0..(Len(input) - 1))
      BY <1>0, FrontRange DEF Whole
    <3> QED
      BY <1>0, <1>8, <3>1, SortedIs
  <2>2. Declaring(out) = {} <=> DOMAIN docs \subseteq {Package}
    <3>1. ASSUME Declaring(out) = {}, NEW k \in DOMAIN docs PROVE k = Package
      <4>1. k \in Names => DeclaringOf(out, k) # {}
        BY <1>9 DEF NamesTold, IsLast
      <4> QED
        BY <1>0, <1>11, <3>1, <4>1
    <3>2. ASSUME DOMAIN docs \subseteq {Package}, NEW k \in Declaring(out) PROVE FALSE
      <4>1. k \in DOMAIN out /\ Declares(TextOf(out[k])) # {}
        BY DEF Declaring, OfType
      <4>2. DeclaredIn(TextOf(out[k])) \in Names
        <5>1. out[k] \in Item
          BY <1>0, <4>1
        <5> QED
          BY <4>1, <5>1, DeclaredName
      <4>3. k \in DeclaringOf(out, DeclaredIn(TextOf(out[k])))
        BY DEF DeclaringOf
      <4>4. DeclaredIn(TextOf(out[k])) \in DOMAIN docs
        BY <1>9, <4>2, <4>3 DEF NamesTold
      <4> QED
        BY <1>0, <3>2, <4>2, <4>4
    <3> QED
      BY <3>1, <3>2
  <2>3. Heads(oo) = Heads(out) \cup
        {k \in {n + 1} : /\ x.typ = "Text" /\ Declares(TextOf(x)) = {} /\ Declaring(out) = {}
                         /\ IsHeading(CharsAt(Sorted(FrontOf(out, n + 1))))}
    BY <1>2 DEF SetsMore
  <2> QED
    BY <1>13, <2>1, <2>2, <2>3
<1>14. CASE Declares(TextOf(x)) = {} /\ IsHeading(CharsAt(buf)) /\ DOMAIN docs \subseteq {Package}
  <2> DEFINE e == Put(Package, OfPackage)
  <2>1. Heads(oo) = Heads(out) \cup {n + 1}
    BY <1>13, <1>14
  <2>2. DOMAIN e = DOMAIN docs \cup {Package} /\ e[Package] = OfPackage
        /\ \A k \in DOMAIN e : k # Package => e[k] = docs[k]
    BY DEF Put
  <2> HIDE DEF e
  <2>3. NamesTold(out, e)
    <3>1. \A k \in Names : (k \in DOMAIN e <=> k \in DOMAIN docs) /\ (k \in DOMAIN e => e[k] = docs[k])
      BY <1>0, <2>2
    <3> QED
      BY <1>9, <3>1 DEF NamesTold
  <2>4. NamesTold(oo, e)
    BY <1>0, <1>1, <1>2, <1>14, <2>3, NamesSame
  <2>5. Range(e[Package]) = UNION {FrontOf(oo, k) : k \in Heads(oo)}
    <3> DEFINE X == {FrontOf(out, k) : k \in Heads(out)}
               Y == {FrontOf(oo, k) : k \in Heads(oo)}
    <3>1. Y = X \cup {FrontOf(oo, n + 1)}
      <4>1. \A k \in Heads(out) : FrontOf(oo, k) = FrontOf(out, k)
        BY <1>2, <1>11 DEF OneMore
      <4> QED
        BY <2>1, <4>1
    <3>2. UNION X = IF Package \in DOMAIN docs THEN Range(docs[Package]) ELSE {}
      BY <1>9 DEF HeadsTold
    <3> HIDE DEF X, Y
    <3>3. UNION Y = (UNION X) \cup Range(buf)
      BY <1>8, <3>1, UnionMore
    <3>4. Range(OfPackage) = (IF Package \in DOMAIN docs THEN Range(docs[Package]) ELSE {}) \cup Range(buf)
      <4>1. CASE Package \in DOMAIN docs
        BY <1>0, <4>1, ConcatRange DEF OfPackage
      <4>2. CASE Package \notin DOMAIN docs
        BY <4>2 DEF OfPackage
      <4> QED
        BY <4>1, <4>2
    <3>5. Range(e[Package]) = UNION Y
      BY <2>2, <3>2, <3>3, <3>4
    <3> QED
      BY <3>5 DEF Y
  <2>6. HeadsTold(oo, e)
    BY <2>1, <2>2, <2>5 DEF HeadsTold
  <2>7. docs' = e
    BY <1>5, <1>14 DEF e
  <2>8. Whole(oo, <<>>, docs', annotations')
    BY <1>4, <1>6, <1>7, <2>4, <2>6, <2>7 DEF Whole
  <2> QED
    BY <1>1, <2>8
<1>15. CASE Declares(TextOf(x)) = {} /\ ~(IsHeading(CharsAt(buf)) /\ DOMAIN docs \subseteq {Package})
  <2>1. Heads(oo) = Heads(out)
    BY <1>13, <1>15
  <2>2. NamesTold(oo, docs)
    BY <1>0, <1>1, <1>2, <1>9, <1>15, NamesSame
  <2>3. HeadsTold(oo, docs)
    BY <1>0, <1>1, <1>2, <1>9, <2>1, HeadsSame
  <2>4. docs' = docs
    BY <1>5, <1>15
  <2>5. Whole(oo, <<>>, docs', annotations')
    BY <1>4, <1>6, <1>7, <2>2, <2>3, <2>4 DEF Whole
  <2> QED
    BY <1>1, <2>5
<1> QED
  BY <1>12, <1>14, <1>15

LEMMA HeadWithin ==
  ASSUME IInv, l.items # <<>>, l.state # "returned"
  PROVE  Head(l.items).to <= Len(input)
<1> DEFINE item == Head(l.items)
           e == out \o l.items
<1>1. /\ out \in Seq(Item) /\ l.items \in Seq(Item) /\ UpTo(e, l.start)
      /\ l.start \in Nat /\ l.start <= Len(input) /\ Len(input) \in Nat
  BY DEF IInv, LexerTypeOK, Lexers, ItemsInv, Emitted
<1>2. PICK n \in Nat, m \in Nat : n = Len(out) /\ m = Len(l.items)
  BY <1>1
<1>3. m > 0 /\ item \in Item /\ item = l.items[1]
  BY <1>1, <1>2
<1>4. DOMAIN e = 1..(n+m) /\ e[n+1] = item
  BY <1>1, <1>2, <1>3
<1>5. n + 1 \in 1..(n+m)
  BY <1>2, <1>3
<1> HIDE DEF item, e
<1>6. item.to <= l.start
  BY <1>1, <1>4, <1>5 DEF UpTo
<1>7. item.to \in Nat
  BY <1>3 DEF Item
<1> QED
  BY <1>1, <1>6, <1>7 DEF item

LEMMA InitWhole == DocsInit => WholeInv
<1> SUFFICES ASSUME DocsInit PROVE Whole(<<>>, <<>>, NoDocs, <<>>)
  BY DEF DocsInit, Init, WholeInv
<1>1. DOMAIN <<>> = {} /\ Range(<<>>) = {} /\ DOMAIN NoDocs = {}
  BY EmptyRange DEF NoDocs
<1>2. /\ \A k : FrontOf(<<>>, k) = {}
      /\ \A m : DeclaringOf(<<>>, m) = {}
      /\ Heads(<<>>) = {} /\ Notes(<<>>) = {}
  BY <1>1 DEF FrontOf, OfType, Declaring, DeclaringOf, Heads, Notes
<1> QED
  BY <1>1, <1>2 DEF Whole, NamesTold, HeadsTold, NotesTold

LEMMA NextWhole == IInv /\ DocsInv /\ WholeInv /\ [Next]_allVars => WholeInv'
<1> SUFFICES ASSUME IInv, DocsInv, WholeInv, [Next]_allVars, l'.state # "stopped" PROVE WholeInv'
  BY DEF WholeInv
<1>0. /\ input' = input /\ out \in Seq(Item) /\ input \in Seq(Chars) /\ buf \in Seq(Nat)
      /\ annotations \in Seq(Nat) /\ Len(input) \in Nat /\ l \in Lexers
  BY DEF IInv, LexerTypeOK, DocsType, Next, TakeItem, Receive, Lex, Step, Finish, Terminated, vars, allVars
<1>1. ASSUME Whole(out', buf', docs', annotations') PROVE WholeInv'
  BY <1>0, <1>1, WholeStays
<1>2. CASE TakeItem
  <2> DEFINE item == Head(l.items)
             o == Append(out, item)
  <2>1. /\ out' = o
        /\ \/ item.typ = "Text" /\ TakeText(item) /\ buf' = Reset(item)
           \/ item.typ = "Comment" /\ TakeComment(item)
           \/ item.typ \notin {"Text", "Comment"} /\ UNCHANGED docVars
        /\ l.items # <<>> /\ l.state # "returned" /\ l.state # "stopped"
        /\ l' = [l EXCEPT !.items = Tail(@), !.state = AfterItem(item, ~Begins(item, Malformed))]
    BY <1>2 DEF TakeItem, Receive, Running
  <2>2. item \in Item /\ item.to <= Len(input)
    BY <2>1, HeadBehind, HeadWithin
  <2>3. Whole(out, buf, docs, annotations)
    BY <2>1 DEF WholeInv
  <2>4. item.typ = "Comment" => ~Begins(item, Malformed)
    <3>1. l'.state = AfterItem(item, ~Begins(item, Malformed))
      <4> HIDE DEF item, o
      <4> QED
        BY <1>0, <2>1 DEF Lexers
    <3> QED
      BY <3>1 DEF AfterItem
  <2> HIDE DEF item
  <2>5. CASE item.typ = "Text" /\ TakeText(item) /\ buf' = Reset(item)
    <3>1. Whole(o, <<>>, docs', annotations')
      BY <2>2, <2>3, <2>5, TextTold
    <3>2. buf' = <<>>
      BY <2>5 DEF Reset
    <3> HIDE DEF o
    <3> QED
      BY <1>1, <2>1, <3>1, <3>2
  <2>6. CASE item.typ = "Comment" /\ TakeComment(item)
    <3>1. /\ Begins(item, Annotates) => Whole(o, buf, docs, Append(annotations, item.from))
          /\ ~Begins(item, Annotates) => Whole(o, buf \o Positions(item), docs, annotations)
      BY <1>0, <2>2, <2>3, <2>6, CommentTold
    <3>2. /\ docs' = docs
          /\ Begins(item, Annotates) => annotations' = Append(annotations, item.from) /\ buf' = buf
          /\ ~Begins(item, Annotates) => annotations' = annotations /\ buf' = buf \o Positions(item)
      BY <2>4, <2>6 DEF TakeComment
    <3> HIDE DEF o
    <3>3. Whole(out', buf', docs', annotations')
      BY <2>1, <3>1, <3>2
    <3> QED
      BY <1>1, <3>3
  <2>7. CASE item.typ \notin {"Text", "Comment"} /\ UNCHANGED docVars
    <3>1. Whole(o, buf, docs, annotations)
      BY <1>0, <2>2, <2>3, <2>7, OtherTold
    <3>2. buf' = buf /\ docs' = docs /\ annotations' = annotations
      BY <2>7 DEF docVars
    <3> HIDE DEF o
    <3> QED
      BY <1>1, <2>1, <3>1, <3>2
  <2> QED
    BY <2>1, <2>5, <2>6, <2>7
<1>3. CASE Finish /\ UNCHANGED docVars
  <2> DEFINE item == EOFItem
             o == Append(out, item)
  <2>1. item \in Item /\ item.to <= Len(input) /\ item.typ = "EOF"
    BY <1>0 DEF EOFItem, Item
  <2>2. out' = o /\ l.state # "stopped" /\ buf' = buf /\ docs' = docs /\ annotations' = annotations
    BY <1>3 DEF Finish, Running, docVars
  <2>3. Whole(out, buf, docs, annotations)
    BY <2>2 DEF WholeInv
  <2> HIDE DEF item
  <2>4. Whole(o, buf, docs, annotations)
    BY <1>0, <2>1, <2>3, OtherTold
  <2> HIDE DEF o
  <2> QED
    BY <1>1, <2>2, <2>4
<1>4. CASE Lex /\ UNCHANGED docVars
  <2>1. out' = out /\ l.state # "stopped" /\ buf' = buf /\ docs' = docs /\ annotations' = annotations
    BY <1>4 DEF Lex, Step, Running, docVars
  <2>2. Whole(out', buf', docs', annotations')
    BY <2>1 DEF WholeInv
  <2> QED
    BY <1>1, <2>2
<1>5. CASE UNCHANGED allVars
  <2>1. out' = out /\ l' = l /\ buf' = buf /\ docs' = docs /\ annotations' = annotations
    BY <1>5 DEF allVars
  <2>2. Whole(out', buf', docs', annotations')
    BY <2>1 DEF WholeInv
  <2> QED
    BY <1>1, <2>2
<1> QED
  BY <1>2, <1>3, <1>4, <1>5 DEF Next, Terminated, vars, docVars, allVars

LEMMA WholeInvariant == Spec => [](IInv /\ DocsInv /\ WholeInv)
<1>1. DocsInit => IInv /\ DocsInv /\ WholeInv
  BY InitInv, InitDocs, InitWhole
<1>2. (IInv /\ DocsInv /\ WholeInv) /\ [Next]_allVars => (IInv /\ DocsInv /\ WholeInv)'
  BY NextInv, NextDocs, NextWhole
<1> QED
  BY <1>1, <1>2, PTL DEF Spec

-----------------------------------------------------------------------------
(* The items of a text that was read to its end are the stretches the rules *)
(* of the language make of it.                                              *)
CommentsOf(f) == Where(LAMBDA p : CommentAt(f, p))

TextsOf(f) == Where(LAMBDA p : TextAt(f, p))

LEMMA WhereIs ==
  ASSUME NEW f
  PROVE  /\ CommentsOf(f) = {p \in 0..(Len(input) - 1) : CommentAt(f, p)}
         /\ TextsOf(f) = {p \in 0..(Len(input) - 1) : TextAt(f, p)}
BY DEF CommentsOf, TextsOf, Where

LEMMA ReadToTheEnd ==
  ASSUME NEW f, SInv, \A k \in DOMAIN out : out[k].to <= Len(input), l.state = "returned",
         Tells(f, out, l), ~EndsIn(f)
  PROVE  InOrder(out) /\ Made(CommentsOf(f), out, "Comment") /\ Made(TextsOf(f), out, "Text")
<1>0. /\ out \in Seq(Item) /\ l.items \in Seq(Item) /\ InOrder(out \o l.items) /\ Len(input) \in Nat
  BY DEF SInv, IInv, LexerTypeOK, ItemsInv, Lexers, Emitted
<1>1. /\ Told(f, out \o l.items, Len(input))
      /\ \E i \in DOMAIN out : out[i].typ = "EOF" /\ \A j \in DOMAIN out : j <= i
  BY DEF Tells, Placed
<1>2. PICK n \in Nat, m \in Nat : n = Len(out) /\ m = Len(l.items)
  BY <1>0
<1> DEFINE e == out \o l.items
<1>3. DOMAIN out = 1..n /\ DOMAIN e = 1..(n+m) /\ \A k \in 1..n : e[k] = out[k] /\ k \in 1..(n+m)
  BY <1>0, <1>2
<1>4. /\ \A i, j \in DOMAIN e : i < j => e[i].to <= e[j].from
      /\ \A i \in DOMAIN e : Holds(f, e[i])
      /\ \A p \in 0..(Len(input) - 1) : Neither(f, p) \/ \E i \in DOMAIN e : p \in Inside(e[i])
  BY <1>0, <1>1 DEF InOrder, Told
<1>5. e \in Seq(Item)
  BY <1>0
<1> HIDE DEF e
<1>6. InOrder(out) /\ \A k \in DOMAIN out : Holds(f, out[k])
  BY <1>3, <1>4 DEF InOrder
<1>7. PICK z \in 1..n : out[z].typ = "EOF" /\ \A j \in 1..n : j <= z
  BY <1>1, <1>3
<1>8. out[z].from = Len(input) /\ out[z].to = Len(input)
  BY <1>3, <1>6, <1>7 DEF Holds
<1>9. ASSUME NEW p \in 0..(Len(input) - 1), ~Neither(f, p)
      PROVE  \E k \in DOMAIN out : p \in Inside(out[k]) /\ out[k].typ # "EOF"
  <2>1. PICK i \in 1..(n+m) : p \in Inside(e[i])
    BY <1>3, <1>4, <1>9
  <2>2. p < e[i].to /\ e[i].from <= p
    BY <1>3, <1>5, <2>1, ItemRange
  <2>3. ~(z < i)
    <3>1. z < i => e[z].to <= e[i].from
      BY <1>3, <1>4
    <3>2. e[z].to = Len(input)
      BY <1>3, <1>8
    <3>3. e[i].from \in Nat
      BY <1>3, <1>5, ItemRange
    <3> QED
      BY <1>0, <2>2, <3>1, <3>2, <3>3
  <2>4. i \in 1..n /\ out[i] = e[i]
    BY <1>2, <1>3, <1>7, <2>3
  <2>5. out[i].typ # "EOF"
    <3>1. CASE out[i].typ = "EOF"
      <4>1. out[i].to = Len(input) /\ out[i].from = out[i].to
        BY <1>3, <1>6, <2>4, <3>1 DEF Holds
      <4> QED
        BY <1>0, <2>2, <2>4, <4>1
    <3> QED
      BY <3>1
  <2> QED
    BY <1>3, <2>1, <2>4, <2>5
<1>10. ASSUME NEW k \in DOMAIN out
       PROVE  /\ out[k].typ \in Types /\ out[k].from \in Nat /\ out[k].to \in Nat
              /\ \A p \in Inside(out[k]) : p \in 0..(Len(input) - 1) /\ HasType(f, out[k].typ, p)
  <2>1. out[k] \in Item
    BY <1>0
  <2>2. out[k].typ \in Types /\ out[k].from \in Nat /\ out[k].to \in Nat
    BY <2>1 DEF Item, Types
  <2>3. out[k].to <= Len(input)
    OBVIOUS
  <2>4. \A p \in Inside(out[k]) : p \in 0..(Len(input) - 1)
    BY <1>0, <2>2, <2>3 DEF Inside
  <2> QED
    BY <1>6, <2>2, <2>4 DEF Holds
<1>11. Made(CommentsOf(f), out, "Comment")
  <2>1. \A p : p \in CommentsOf(f) <=> p \in 0..(Len(input) - 1) /\ CommentAt(f, p)
    BY WhereIs
  <2>2. ASSUME NEW k \in DOMAIN out, out[k].typ = "Comment"
        PROVE  /\ out[k].from < out[k].to /\ Inside(out[k]) \subseteq CommentsOf(f)
               /\ (out[k].from > 0 => out[k].from - 1 \notin CommentsOf(f))
    <3>1. CommentEnds(f, out[k])
      BY <1>6, <2>2 DEF Holds
    <3>2. Inside(out[k]) \subseteq CommentsOf(f)
      BY <1>10, <2>1, <2>2 DEF HasType
    <3> QED
      BY <2>1, <3>1, <3>2 DEF CommentEnds
  <2>3. ASSUME NEW p \in CommentsOf(f)
        PROVE  \E k \in DOMAIN out : out[k].typ = "Comment" /\ p \in Inside(out[k])
    <3>1. p \in 0..(Len(input) - 1) /\ CommentAt(f, p)
      BY <2>1
    <3>2. PICK k \in DOMAIN out : p \in Inside(out[k]) /\ out[k].typ # "EOF"
      BY <1>9, <3>1 DEF Neither
    <3>3. HasType(f, out[k].typ, p) /\ out[k].typ \in Types
      BY <1>10, <3>2
    <3>4. f[p] \in {"line", "block"}
      BY <3>1 DEF CommentAt
    <3>5. ~TextAt(f, p) /\ f[p] # "string"
      BY <3>4 DEF TextAt
    <3> QED
      BY <3>1, <3>2, <3>3, <3>5 DEF HasType, Types, Neither
  <2>4. CommentsOf(f) \in SUBSET Nat
    BY <1>0, <2>1
  <2> QED
    BY <2>2, <2>3, <2>4 DEF Made
<1>12. Made(TextsOf(f), out, "Text")
  <2>1. \A p : p \in TextsOf(f) <=> p \in 0..(Len(input) - 1) /\ TextAt(f, p)
    BY WhereIs
  <2>2. ASSUME NEW k \in DOMAIN out, out[k].typ = "Text"
        PROVE  /\ out[k].from < out[k].to /\ Inside(out[k]) \subseteq TextsOf(f)
               /\ (out[k].from > 0 => out[k].from - 1 \notin TextsOf(f))
    <3>1. TextEnds(f, out[k])
      BY <1>6, <2>2 DEF Holds
    <3>2. Inside(out[k]) \subseteq TextsOf(f)
      BY <1>10, <2>1, <2>2 DEF HasType
    <3> QED
      BY <2>1, <3>1, <3>2 DEF TextEnds
  <2>3. ASSUME NEW p \in TextsOf(f)
        PROVE  \E k \in DOMAIN out : out[k].typ = "Text" /\ p \in Inside(out[k])
    <3>1. p \in 0..(Len(input) - 1) /\ TextAt(f, p)
      BY <2>1
    <3>2. PICK k \in DOMAIN out : p \in Inside(out[k]) /\ out[k].typ # "EOF"
      BY <1>9, <3>1 DEF Neither
    <3>3. HasType(f, out[k].typ, p) /\ out[k].typ \in Types
      BY <1>10, <3>2
    <3>4. f[p] = "text"
      BY <3>1 DEF TextAt
    <3>5. ~CommentAt(f, p) /\ f[p] # "string"
      BY <3>4 DEF CommentAt
    <3> QED
      BY <3>1, <3>2, <3>3, <3>5 DEF HasType, Types, Neither
  <2>4. TextsOf(f) \in SUBSET Nat
    BY <1>0, <2>1
  <2> QED
    BY <2>2, <2>3, <2>4 DEF Made
<1> QED
  BY <1>6, <1>11, <1>12

(* What is in front of a text, in positions and in items.                   *)
NotesOf(C) == {p \in C : input[StartOf(C, p) + 1] = Annotates}

LEMMA TextsOrder ==
  ASSUME NEW o \in Seq(Item), InOrder(o), NEW S, NEW t, Made(S, o, t)
  PROVE  \A i, k \in OfType(o, t) : i < k <=> o[i].from < o[k].from
<1> SUFFICES ASSUME NEW i \in OfType(o, t), NEW k \in OfType(o, t) PROVE i < k <=> o[i].from < o[k].from
  OBVIOUS
<1>1. i \in DOMAIN o /\ k \in DOMAIN o /\ o[i].from < o[i].to /\ o[k].from < o[k].to
  BY DEF OfType, Made
<1>2. i \in Nat /\ k \in Nat /\ o[i].from \in Nat /\ o[i].to \in Nat /\ o[k].from \in Nat /\ o[k].to \in Nat
  BY <1>1, ItemRange
<1>3. (i < k => o[i].to <= o[k].from) /\ (k < i => o[k].to <= o[i].from)
  BY <1>1 DEF InOrder
<1>4. i = k => ~(o[i].from < o[k].from)
  BY <1>2
<1> QED
  BY <1>1, <1>2, <1>3, <1>4

LEMMA FrontIs ==
  ASSUME NEW o \in Seq(Item), InOrder(o), NEW C, Made(C, o, "Comment"), NEW T, Made(T, o, "Text"),
         NEW k \in OfType(o, "Text")
  PROVE  InFront(C \ NotesOf(C), T, o[k].from) = FrontOf(o, k)
<1>0. /\ \A i \in DOMAIN o : i \in Nat /\ o[i].from \in Nat /\ o[i].to \in Nat
      /\ \A i \in DOMAIN o : \A p : p \in Inside(o[i]) <=> p \in Nat /\ o[i].from <= p /\ p < o[i].to
      /\ \A i, j \in DOMAIN o : i < j => o[i].to <= o[j].from
  BY ItemRange DEF InOrder
<1>1. /\ \A c \in OfType(o, "Comment") :
           c \in DOMAIN o /\ o[c].typ = "Comment" /\ o[c].from < o[c].to /\ Inside(o[c]) \subseteq C
      /\ \A c \in OfType(o, "Text") :
           c \in DOMAIN o /\ o[c].typ = "Text" /\ o[c].from < o[c].to /\ Inside(o[c]) \subseteq T
      /\ \A p \in C : \E c \in OfType(o, "Comment") : p \in Inside(o[c])
      /\ \A p \in T : \E c \in OfType(o, "Text") : p \in Inside(o[c])
      /\ C \in SUBSET Nat /\ T \in SUBSET Nat
  BY DEF Made, OfType
<1>2. \A c \in OfType(o, "Comment") : \A p \in Inside(o[c]) : StartOf(C, p) = o[c].from
  BY Stretches
<1>3. ASSUME NEW c \in OfType(o, "Comment"), NEW p \in Inside(o[c])
      PROVE  p \in C \ NotesOf(C) <=> Kept(o[c])
  <2>1. p \in C /\ o[c].typ = "Comment" /\ StartOf(C, p) = o[c].from
    BY <1>1, <1>2
  <2> QED
    BY <2>1 DEF NotesOf, Kept, Begins
<1>4. ASSUME NEW p \in InFront(C \ NotesOf(C), T, o[k].from) PROVE p \in FrontOf(o, k)
  <2>1. p \in C \ NotesOf(C) /\ p < o[k].from /\ \A q \in T : q < o[k].from => q < p
    BY DEF InFront
  <2>2. PICK c \in OfType(o, "Comment") : p \in Inside(o[c])
    BY <1>1, <2>1
  <2>3. Kept(o[c])
    BY <1>3, <2>1, <2>2
  <2>4. /\ c \in DOMAIN o /\ k \in DOMAIN o /\ c \in Nat /\ k \in Nat /\ c # k
        /\ o[c].from <= p /\ p < o[c].to /\ o[k].from < o[k].to /\ p \in Nat
        /\ o[c].from \in Nat /\ o[c].to \in Nat /\ o[k].from \in Nat /\ o[k].to \in Nat
    BY <1>0, <1>1, <2>2
  <2>5. c < k
    <3>1. k < c => o[k].to <= o[c].from
      BY <1>0, <2>4
    <3> QED
      BY <2>1, <2>4, <3>1
  <2>6. ASSUME NEW t \in OfType(o, "Text"), t < k PROVE t < c
    <3>1. /\ t \in DOMAIN o /\ t \in Nat /\ o[t].from \in Nat /\ o[t].to \in Nat /\ o[t].from < o[t].to
          /\ t # c
      BY <1>0, <1>1, <2>2
    <3>2. o[t].to <= o[k].from
      BY <1>0, <2>4, <2>6, <3>1
    <3>3. o[t].from \in T
      <4>1. o[t].from \in Inside(o[t])
        BY <1>0, <3>1
      <4> QED
        BY <1>1, <4>1
    <3>4. o[t].from < p
      BY <2>1, <2>4, <3>1, <3>2, <3>3
    <3>5. c < t => o[c].to <= o[t].from
      BY <1>0, <2>4, <3>1
    <3> QED
      BY <2>4, <3>1, <3>4, <3>5
  <2> QED
    BY <2>2, <2>3, <2>4, <2>5, <2>6 DEF FrontOf
<1>5. ASSUME NEW p \in FrontOf(o, k) PROVE p \in InFront(C \ NotesOf(C), T, o[k].from)
  <2>1. PICK c \in DOMAIN o : /\ c < k /\ Kept(o[c]) /\ p \in Inside(o[c])
                              /\ \A t \in OfType(o, "Text") : t < k => t < c
    BY DEF FrontOf
  <2>2. c \in OfType(o, "Comment")
    BY <2>1 DEF Kept, OfType
  <2>3. p \in C \ NotesOf(C)
    BY <1>3, <2>1, <2>2
  <2>4. /\ k \in DOMAIN o /\ p \in Nat /\ o[c].from <= p /\ p < o[c].to /\ o[c].to <= o[k].from
        /\ o[c].from \in Nat /\ o[c].to \in Nat /\ o[k].from \in Nat /\ k \in Nat /\ c \in Nat
    BY <1>0, <1>1, <2>1
  <2>5. ASSUME NEW q \in T, q < o[k].from PROVE q < p
    <3>1. PICK t \in OfType(o, "Text") : q \in Inside(o[t])
      BY <1>1
    <3>2. t \in DOMAIN o /\ t \in Nat /\ o[t].from \in Nat /\ o[t].to \in Nat /\ o[t].from <= q /\ q < o[t].to /\ q \in Nat
      BY <1>0, <1>1, <3>1
    <3>3. t < k
      <4>1. k < t => o[k].to <= o[t].from
        BY <1>0, <2>4, <3>2
      <4>2. o[k].from < o[k].to /\ o[k].to \in Nat
        BY <1>0, <1>1
      <4> QED
        BY <2>4, <2>5, <3>2, <4>1, <4>2
    <3>4. o[t].to <= o[c].from
      BY <1>0, <2>1, <3>1, <3>2, <3>3
    <3> QED
      BY <2>4, <3>2, <3>4
  <2> QED
    BY <2>3, <2>4, <2>5 DEF InFront
<1> QED
  BY <1>4, <1>5

LEMMA NotesAre ==
  ASSUME NEW o \in Seq(Item), InOrder(o), NEW C, Made(C, o, "Comment")
  PROVE  {p \in NotesOf(C) : StartOf(C, p) = p} = {o[k].from : k \in Notes(o)}
<1>0. /\ \A i \in DOMAIN o : o[i].from \in Nat /\ o[i].to \in Nat
      /\ \A i \in DOMAIN o : \A p : p \in Inside(o[i]) <=> p \in Nat /\ o[i].from <= p /\ p < o[i].to
  BY ItemRange
<1>1. /\ \A c \in OfType(o, "Comment") :
           c \in DOMAIN o /\ o[c].typ = "Comment" /\ o[c].from < o[c].to /\ Inside(o[c]) \subseteq C
      /\ \A p \in C : \E c \in OfType(o, "Comment") : p \in Inside(o[c])
  BY DEF Made, OfType
<1>2. \A c \in OfType(o, "Comment") : \A p \in Inside(o[c]) : StartOf(C, p) = o[c].from
  BY Stretches
<1>3. ASSUME NEW p \in NotesOf(C), StartOf(C, p) = p PROVE \E k \in Notes(o) : p = o[k].from
  <2>1. p \in C /\ input[p + 1] = Annotates
    BY <1>3 DEF NotesOf
  <2>2. PICK c \in OfType(o, "Comment") : p \in Inside(o[c])
    BY <1>1, <2>1
  <2>3. p = o[c].from /\ o[c].typ = "Comment" /\ c \in DOMAIN o
    BY <1>1, <1>2, <1>3, <2>2
  <2>4. c \in Notes(o)
    BY <2>1, <2>3 DEF Notes, Begins
  <2> QED
    BY <2>3, <2>4
<1>4. ASSUME NEW k \in Notes(o) PROVE o[k].from \in NotesOf(C) /\ StartOf(C, o[k].from) = o[k].from
  <2>1. k \in OfType(o, "Comment") /\ input[o[k].from + 1] = Annotates
    BY DEF Notes, Begins, OfType
  <2>2. o[k].from \in Inside(o[k])
    BY <1>0, <1>1, <2>1
  <2> QED
    BY <1>1, <1>2, <2>1, <2>2 DEF NotesOf
<1> QED
  BY <1>3, <1>4

(* The stretches of text, told apart as the items were.                     *)
LEMMA TextsAre ==
  ASSUME NEW o \in Seq(Item), InOrder(o), NEW T, Made(T, o, "Text"), Len(input) \in Nat,
         \A k \in DOMAIN o : o[k].to <= Len(input), NEW k \in OfType(o, "Text")
  PROVE  CharsAt(Sorted(Stretch(T, o[k].from))) = TextOf(o[k])
<1>1. k \in DOMAIN o /\ o[k] \in Item
  BY DEF OfType
<1>2. Stretch(T, o[k].from) = Inside(o[k])
  BY Stretches
<1>3. Range(Positions(o[k])) = Inside(o[k]) /\ Positions(o[k]) \in Seq(Nat) /\ Ascending(Positions(o[k]))
  BY <1>1, PositionsRange, PositionsType, PositionsTell
<1>4. Inside(o[k]) \subseteq 0..(Len(input) - 1)
  <2>1. o[k].from \in Nat /\ o[k].to \in Nat /\ o[k].to <= Len(input)
    BY <1>1, ItemRange
  <2> QED
    BY <2>1 DEF Inside
<1>5. Sorted(Inside(o[k])) = Positions(o[k])
  BY <1>3, <1>4, SortedIs
<1> QED
  BY <1>2, <1>5 DEF TextOf

(* before tells what is in front of each text.                              *)
Fronts(o, before) == \A k \in OfType(o, "Text") : before[o[k].from] = Sorted(FrontOf(o, k))

Together(heads, before) == FlattenSeq([i \in DOMAIN Sorted(heads) |-> before[Sorted(heads)[i]]])

(* The documentation of the package, the comments in front of its headings. *)
LEMMA PackageIs ==
  ASSUME NEW o \in Seq(Item), InOrder(o), Len(input) \in Nat, \A k \in DOMAIN o : o[k].to <= Len(input),
         NEW T, Made(T, o, "Text"), NEW before, Fronts(o, before),
         NEW H, H = {o[k].from : k \in Heads(o)}, NEW s \in Seq(Nat), Ascending(s),
         Range(s) = UNION {FrontOf(o, k) : k \in Heads(o)}
  PROVE  s = Together(H, before)
<1> DEFINE hs == Sorted(H)
           ss == [i \in DOMAIN hs |-> before[hs[i]]]
<1>0. /\ \A i \in DOMAIN o : i \in Nat /\ o[i].from \in Nat /\ o[i].to \in Nat
      /\ \A i \in DOMAIN o : \A p : p \in Inside(o[i]) <=> p \in Nat /\ o[i].from <= p /\ p < o[i].to
      /\ \A i, j \in DOMAIN o : i < j => o[i].to <= o[j].from
  BY ItemRange DEF InOrder
<1>1. \A k \in Heads(o) : /\ k \in OfType(o, "Text") /\ k \in DOMAIN o /\ o[k].from < o[k].to
                          /\ o[k].to <= Len(input)
  BY DEF Heads, OfType, Made
<1>2. H \in SUBSET (0..(Len(input) - 1))
  <2> SUFFICES ASSUME NEW k \in Heads(o) PROVE o[k].from \in 0..(Len(input) - 1)
    OBVIOUS
  <2>1. o[k].from \in Nat /\ o[k].to \in Nat /\ o[k].from < o[k].to /\ o[k].to <= Len(input)
    BY <1>0, <1>1
  <2> QED
    BY <2>1
<1>3. hs \in Seq(Nat) /\ Ascending(hs) /\ Range(hs) = H
  BY <1>2, SortedFacts
<1> HIDE DEF hs
<1>4. \A k \in Heads(o) : /\ Sorted(FrontOf(o, k)) \in Seq(Nat) /\ Ascending(Sorted(FrontOf(o, k)))
                          /\ Range(Sorted(FrontOf(o, k))) = FrontOf(o, k)
  BY FrontRange, SortedFacts
<1>5. \A i \in DOMAIN hs : \E k \in Heads(o) : hs[i] = o[k].from /\ before[hs[i]] = Sorted(FrontOf(o, k))
  <2> SUFFICES ASSUME NEW i \in DOMAIN hs
               PROVE  \E k \in Heads(o) : hs[i] = o[k].from /\ before[hs[i]] = Sorted(FrontOf(o, k))
    OBVIOUS
  <2>1. hs[i] \in H
    BY <1>3 DEF Range
  <2>2. PICK k \in Heads(o) : hs[i] = o[k].from
    BY <2>1
  <2> QED
    BY <1>1, <2>2 DEF Fronts
<1>6. DOMAIN ss = DOMAIN hs /\ \A i \in DOMAIN hs : ss[i] = before[hs[i]]
  OBVIOUS
<1>7. ss \in Seq(Seq(Nat))
  <2>1. PICK m \in Nat : DOMAIN hs = 1..m
    BY <1>3
  <2>2. \A i \in 1..m : before[hs[i]] \in Seq(Nat)
    BY <1>4, <1>5, <2>1
  <2>3. ss = [i \in 1..m |-> before[hs[i]]]
    BY <2>1
  <2> HIDE DEF ss
  <2> QED
    BY <2>2, <2>3
<1> HIDE DEF ss
<1>8. \A i \in DOMAIN ss : Ascending(ss[i])
  BY <1>4, <1>5, <1>6
<1>9. ASSUME NEW i \in DOMAIN ss, NEW j \in DOMAIN ss, i < j PROVE Before(ss[i], ss[j])
  <2>1. PICK a \in Heads(o) : hs[i] = o[a].from /\ ss[i] = Sorted(FrontOf(o, a))
    BY <1>5, <1>6
  <2>2. PICK b \in Heads(o) : hs[j] = o[b].from /\ ss[j] = Sorted(FrontOf(o, b))
    BY <1>5, <1>6
  <2>3. o[a].from < o[b].from
    BY <1>3, <1>6, <1>9, <2>1, <2>2 DEF Ascending
  <2>4. a < b /\ a \in OfType(o, "Text") /\ a \in DOMAIN o /\ b \in DOMAIN o
    BY <1>1, <2>3, TextsOrder
  <2> SUFFICES ASSUME NEW x \in DOMAIN ss[i], NEW y \in DOMAIN ss[j] PROVE ss[i][x] < ss[j][y]
    BY DEF Before
  <2>5. PICK p, q : p = ss[i][x] /\ q = ss[j][y] /\ p \in FrontOf(o, a) /\ q \in FrontOf(o, b)
    BY <1>4, <2>1, <2>2 DEF Range
  <2>6. PICK c \in DOMAIN o : p \in Inside(o[c]) /\ c < a
    BY <2>5 DEF FrontOf
  <2>7. PICK d \in DOMAIN o : q \in Inside(o[d]) /\ a < d
    BY <2>4, <2>5 DEF FrontOf
  <2>8. /\ p \in Nat /\ q \in Nat /\ p < o[c].to /\ o[c].to <= o[a].from /\ o[a].from < o[a].to
        /\ o[a].to <= o[d].from /\ o[d].from <= q
    BY <1>0, <1>1, <2>4, <2>6, <2>7
  <2>9. o[c].to \in Nat /\ o[a].from \in Nat /\ o[a].to \in Nat /\ o[d].from \in Nat
    BY <1>0, <2>4
  <2>10. p < o[d].from
    BY SMTT(20), <2>8, <2>9
  <2>11. p < q
    BY <2>8, <2>9, <2>10
  <2> QED
    BY <2>5, <2>11
<1>10. /\ FlattenSeq(ss) \in Seq(Nat) /\ Ascending(FlattenSeq(ss))
       /\ Range(FlattenSeq(ss)) = UNION {Range(ss[i]) : i \in DOMAIN ss}
  BY <1>7, <1>8, <1>9, FlattenAscends
<1>11. {Range(ss[i]) : i \in DOMAIN ss} = {FrontOf(o, k) : k \in Heads(o)}
  <2>1. \A i \in DOMAIN ss : \E k \in Heads(o) : Range(ss[i]) = FrontOf(o, k)
    BY <1>4, <1>5, <1>6
  <2>2. ASSUME NEW k \in Heads(o) PROVE \E i \in DOMAIN ss : Range(ss[i]) = FrontOf(o, k)
    <3>1. o[k].from \in Range(hs)
      BY <1>3
    <3>2. PICK i \in DOMAIN hs : hs[i] = o[k].from
      BY <3>1 DEF Range
    <3>3. ss[i] = Sorted(FrontOf(o, k))
      BY <1>1, <1>6, <3>2 DEF Fronts
    <3> QED
      BY <1>4, <1>6, <3>2, <3>3
  <2> QED
    BY <2>1, <2>2
<1>12. Range(FlattenSeq(ss)) = Range(s)
  BY <1>10, <1>11
<1>13. s = FlattenSeq(ss)
  BY <1>10, <1>12, AscendingOne
<1> QED
  BY <1>13 DEF ss, hs, Together

LEMMA LastMax ==
  ASSUME NEW o \in Seq(Item), InOrder(o), NEW T, Made(T, o, "Text"),
         NEW S \in SUBSET OfType(o, "Text"), NEW k, IsLast(k, S)
  PROVE  Max({o[i].from : i \in S}) = o[k].from
<1> DEFINE M == {o[i].from : i \in S}
<1>1. \A i \in S : i \in DOMAIN o /\ i \in Nat /\ o[i].from \in Nat
  BY ItemRange DEF OfType
<1>2. M \in SUBSET Nat /\ o[k].from \in M
  BY <1>1 DEF IsLast
<1>3. ASSUME NEW y \in M PROVE y <= o[k].from
  <2>1. PICK i \in S : y = o[i].from
    OBVIOUS
  <2>2. i <= k /\ k \in S /\ i \in Nat /\ k \in Nat /\ o[i].from \in Nat /\ o[k].from \in Nat
    BY <1>1 DEF IsLast
  <2>3. k < i <=> o[k].from < o[i].from
    BY <2>2, TextsOrder
  <2> QED
    BY <2>1, <2>2, <2>3
<1> HIDE DEF M
<1>4. Max(M) = o[k].from
  BY <1>2, <1>3, MaxIs
<1> QED
  BY <1>4 DEF M

(* At the end of every tractable text each declaration has the comments in  *)
(* front of it as its documentation, the package those of its headings, and *)
(* the annotations are all there, whatever the text (parse.go:57-117).      *)
THEOREM DocsPrecedeHolds == Spec => []DocsPrecede
<1>1. ASSUME SInv, DocsInv, WholeInv PROVE DocsPrecede
  <2> SUFFICES ASSUME l.state = "returned", Tractable, ~EndsInComment
               PROVE  DocsPrecede
    BY DEF DocsPrecede
  <2> DEFINE f == Syntax
             comments == CommentsOf(f)
             texts == TextsOf(f)
             notes == {p \in comments : input[StartOf(comments, p) + 1] = Annotates}
             stretch == [t \in Starts(texts) |-> CharsAt(Sorted(Stretch(texts, t)))]
             before == [t \in Starts(texts) |-> Sorted(InFront(comments \ notes, texts, t))]
             declaring == {t \in Starts(texts) : Declares(stretch[t]) # {}}
             of == [n \in Names |-> {t \in declaring : DeclaredIn(stretch[t]) = n}]
             heads == {t \in Starts(texts) : IsHeading(CharsAt(before[t])) /\ \A d \in declaring : t < d}
             Text == OfType(out, "Text")
  <2>1. Tells(f, out, l) /\ ~EndsIn(f)
    BY <1>1, SyntaxTells DEF EndsInComment, EndsIn
  <2> HIDE DEF f
  <2>2. Whole(out, buf, docs, annotations)
    BY <1>1 DEF WholeInv
  <2>3. /\ out \in Seq(Item) /\ Len(input) \in Nat /\ annotations \in Seq(Nat) /\ Package \notin Names
        /\ \A n \in DOMAIN docs : docs[n] \in Seq(Nat) /\ Ascending(docs[n])
        /\ Ascending(annotations)
        /\ \A k \in DOMAIN out : out[k].to <= Len(input)
    BY <1>1, <2>2, SourceAssumption
       DEF SInv, IInv, LexerTypeOK, DocsType, DocsInv, DocsTell, AnnotationsTell, Whole
  <2>4. InOrder(out) /\ Made(comments, out, "Comment") /\ Made(texts, out, "Text")
    BY <1>1, <2>1, <2>3, ReadToTheEnd
  <2> HIDE DEF comments, texts
  <2>5. notes = NotesOf(comments)
    BY DEF NotesOf
  <2>6. Starts(texts) = {out[k].from : k \in Text}
    BY <2>3, <2>4, Stretches
  <2>7. \A k \in Text : stretch[out[k].from] = TextOf(out[k])
    BY <2>3, <2>4, <2>6, TextsAre
  <2>8. \A k \in Text : before[out[k].from] = Sorted(FrontOf(out, k))
    BY <2>3, <2>4, <2>5, <2>6, FrontIs
  <2> HIDE DEF notes, stretch, before
  <2>9. declaring = {out[k].from : k \in Declaring(out)}
    BY <2>6, <2>7 DEF Declaring
  <2>10. \A n \in Names : of[n] = {out[k].from : k \in DeclaringOf(out, n)}
    <3> SUFFICES ASSUME NEW n \in Names PROVE of[n] = {out[k].from : k \in DeclaringOf(out, n)}
      OBVIOUS
    <3>1. of[n] = {t \in declaring : DeclaredIn(stretch[t]) = n}
      OBVIOUS
    <3>2. \A k \in Declaring(out) : stretch[out[k].from] = TextOf(out[k])
      BY <2>7 DEF Declaring
    <3> HIDE DEF declaring, of
    <3> QED
      BY <2>9, <3>1, <3>2 DEF DeclaringOf
  <2>11. heads = {out[k].from : k \in Heads(out)}
    <3>1. \A k \in Text : (\A d \in declaring : out[k].from < d) <=> (\A d \in Declaring(out) : k < d)
      <4> HIDE DEF declaring
      <4>1. \A k \in Text : \A d \in Declaring(out) : k < d <=> out[k].from < out[d].from
        BY <2>3, <2>4, TextsOrder DEF Declaring
      <4> QED
        BY <2>9, <4>1
    <3> HIDE DEF declaring
    <3> QED
      BY <2>6, <2>8, <3>1 DEF Heads
  <2> HIDE DEF declaring, of, heads
  <2>12. \A n \in Names : n \in DOMAIN docs <=> of[n] # {}
    <3>1. \A n \in Names : n \in DOMAIN docs <=> DeclaringOf(out, n) # {}
      BY <2>2 DEF Whole, NamesTold, IsLast
    <3> QED
      BY <2>10, <3>1
  <2>13. ASSUME NEW n \in Names \cap DOMAIN docs PROVE docs[n] = before[Max(of[n])]
    <3>1. PICK k : IsLast(k, DeclaringOf(out, n)) /\ Range(docs[n]) = FrontOf(out, k)
      BY <2>2 DEF Whole, NamesTold
    <3>2. DeclaringOf(out, n) \in SUBSET Text
      BY DEF DeclaringOf, Declaring
    <3>3. Max(of[n]) = out[k].from
      BY <2>3, <2>4, <2>10, <3>1, <3>2, LastMax
    <3>4. k \in Text
      BY <3>1, <3>2 DEF IsLast
    <3>5. Sorted(FrontOf(out, k)) = docs[n]
      <4>1. FrontOf(out, k) \in SUBSET (0..(Len(input) - 1))
        BY <2>3, FrontRange
      <4> QED
        BY <2>3, <3>1, <4>1, SortedIs
    <3> QED
      BY <2>8, <3>3, <3>4, <3>5
  <2>14. Package \in DOMAIN docs <=> heads # {}
    BY <2>2, <2>11 DEF Whole, HeadsTold
  <2>15. ASSUME Package \in DOMAIN docs
         PROVE  docs[Package] = FlattenSeq([i \in DOMAIN Sorted(heads) |-> before[Sorted(heads)[i]]])
    <3>1. Range(docs[Package]) = UNION {FrontOf(out, k) : k \in Heads(out)}
      BY <2>2, <2>15 DEF Whole, HeadsTold
    <3>2. PICK s \in Seq(Nat) : s = docs[Package]
      BY <2>3, <2>15
    <3>3. Ascending(s) /\ Range(s) = UNION {FrontOf(out, k) : k \in Heads(out)}
      BY <2>3, <2>15, <3>1, <3>2
    <3>4. Fronts(out, before)
      BY <2>8 DEF Fronts
    <3> HIDE DEF Text
    <3>5. s = Together(heads, before)
      BY <2>3, <2>4, <2>11, <3>3, <3>4, PackageIs
    <3> QED
      BY <3>2, <3>5 DEF Together
  <2>16. annotations = Sorted({p \in notes : StartOf(comments, p) = p})
    <3>1. {p \in notes : StartOf(comments, p) = p} = {out[k].from : k \in Notes(out)}
      BY <2>3, <2>4, <2>5, NotesAre
    <3>2. Range(annotations) = {out[k].from : k \in Notes(out)}
      BY <2>2 DEF Whole, NotesTold
    <3>3. Range(annotations) \subseteq 0..(Len(input) - 1)
      <4> SUFFICES ASSUME NEW i \in DOMAIN annotations PROVE annotations[i] \in 0..(Len(input) - 1)
        BY DEF Range
      <4>1. PICK k \in DOMAIN out : out[k].from < out[k].to /\ annotations[i] = out[k].from
        BY <1>1 DEF DocsInv, AnnotationsTell
      <4>2. out[k].from \in Nat /\ out[k].to \in Nat /\ out[k].to <= Len(input)
        BY <2>3, ItemRange
      <4> QED
        BY <2>3, <4>1, <4>2
    <3>4. Sorted(Range(annotations)) = annotations
      BY <2>3, <3>3, SortedIs
    <3> QED
      BY <3>1, <3>2, <3>4
  <2> QED
    BY <2>12, <2>13, <2>14, <2>15, <2>16
       DEF DocsPrecede, f, comments, texts, CommentsOf, TextsOf, notes, stretch, before, declaring, of, heads
<1>2. SInv /\ DocsInv /\ WholeInv => DocsPrecede
  BY <1>1
<1> QED
  BY <1>2, SyntaxInvariant, WholeInvariant, PTL
=============================================================================
