------------------------------- MODULE Lexer --------------------------------
(***************************************************************************)
(* The lexer of package source (source/lex.go), which finds the comments   *)
(* and strings of a package's source text. Iter, in the consumer's own     *)
(* goroutine, receives from the buffered channel of items, or - when it is *)
(* empty - runs the next state function, which emits into that channel.    *)
(*                                                                         *)
(* A character is a member of Chars: only the delimiters matter. Positions *)
(* count from 0 as in the code; an item is its type and its slice of the   *)
(* input.                                                                  *)
(***************************************************************************)
EXTENDS Integers, Sequences, FiniteSetsExt

CONSTANTS
  Letters,  (* characters of no delimiter                                   *)
  Texts     (* bound: the source texts                                      *)

Special == {"'", "-", "/", "*", "newline"}

Chars == Letters \cup Special

ASSUME LexerAssumption == Letters \cap Special = {} /\ Texts \subseteq Seq(Chars)

strBegin == <<"'">>
lcBegin == <<"-", "-">>
bcBegin == <<"/", "*">>
bcEnd == <<"*", "/">>
lcEnd == <<"newline">>

VARIABLES
  input,  (* the text being lexed                                           *)
  l,      (* the lexer                                                      *)
  out     (* the items yielded to the consumer                              *)

vars == <<input, l, out>>

Item == [typ : {"Error", "EOF", "Text", "Comment", "Sep", "String"},
         from : Nat, to : Nat]

(* The lexer's fields; fate tells a run that panicked, or that is blocked   *)
(* for ever: the consumer cannot receive while it runs a state function.   *)
Lexers == [state : {"text", "string", "line", "block", "nil", "returned", "stopped"},
           start : Nat, pos : Nat, items : Seq(Item), closed : BOOLEAN,
           fate : {"ok", "panic", "blocked"}]

CapOfOne == 1                                                  \* faulty variant
ItemsCap == 3

LexerTypeOK ==
  /\ input \in Seq(Chars)
  /\ l \in Lexers /\ l.start <= Len(input)
  /\ Len(l.items) <= 3
  /\ out \in Seq(Item)

(* Lex: a line end is added to a text without one.                          *)
WithLineEnd(s) == IF s # <<>> /\ s[Len(s)] = "newline" THEN s ELSE Append(s, "newline")

Init ==
  /\ \E s \in Texts : input = WithLineEnd(s)
  /\ l = [state |-> "text", start |-> 0, pos |-> 0, items |-> <<>>, closed |-> FALSE, fate |-> "ok"]
  /\ out = <<>>

-----------------------------------------------------------------------------
(* needle is in the input at position i.                                    *)
At(i, needle) ==
  i + Len(needle) <= Len(input) /\ \A k \in 1..Len(needle) : input[i + k] = needle[k]

(* The positions of needle in l.input[pos:].                                *)
Index(needle, pos) == {i \in pos..(Len(input) - Len(needle)) : At(i, needle)}

EOFItem == [typ |-> "EOF", from |-> Len(input), to |-> Len(input)]

Send(lx, item) ==
  IF Len(lx.items) = ItemsCap THEN [lx EXCEPT !.fate = "blocked"]
                              ELSE [lx EXCEPT !.items = Append(@, item)]

(* emit: the slice is taken even when it is empty, and panics out of bounds;*)
(* an empty item is not sent; at the end of the input the EOF follows, and *)
(* the channel is closed.                                                  *)
Slice(lx, t) ==
  IF lx.start = lx.pos THEN lx
  ELSE [Send(lx, [typ |-> t, from |-> lx.start, to |-> lx.pos])
          EXCEPT !.start = IF t = "EOF" THEN Len(input) ELSE lx.pos]

close(lx) ==
  IF lx.start # Len(input) \/ lx.fate # "ok" THEN lx
  ELSE [Send(lx, EOFItem) EXCEPT !.closed = TRUE, !.state = "nil"]

emit(lx, t) ==
  IF lx.fate # "ok" \/ lx.state = "nil" THEN lx
  ELSE IF lx.start > lx.pos \/ lx.pos > Len(input) THEN [lx EXCEPT !.fate = "panic"]
  ELSE close(Slice(lx, t))

Forward(lx, n) == [lx EXCEPT !.pos = @ + n]

(* The state functions' own assertions.                                     *)
CheckStart(lx) == IF lx.fate = "ok" /\ lx.start > lx.pos THEN [lx EXCEPT !.fate = "panic"] ELSE lx

Then(lx, state) == [lx EXCEPT !.state = state]

-----------------------------------------------------------------------------
(* Text up to the first string, line comment or block comment.              *)
Opens(i) == IF At(i, strBegin) THEN "string"
            ELSE IF At(i, lcBegin) THEN "line"
            ELSE IF At(i, bcBegin) THEN "block" ELSE "none"

Delimiters(pos) == {i \in pos..(Len(input) - 1) : Opens(i) # "none"}

lexText(lx) ==
  IF lx.pos = Len(input) THEN Then(emit(lx, "EOF"), "nil")
  ELSE IF lx.pos > Len(input) THEN [lx EXCEPT !.fate = "panic"]
  ELSE IF Delimiters(lx.pos) = {} THEN Then(emit([lx EXCEPT !.pos = Len(input)], "Text"), "nil")
  ELSE LET first == Min(Delimiters(lx.pos))
           text == emit([lx EXCEPT !.pos = first], "Text")
           sep == emit(Forward(text, IF Opens(first) = "string" THEN 1 ELSE 2), "Sep")
       IN Then([sep EXCEPT !.start = sep.pos], Opens(first))

(* A string ends at the last quote of the first run of quotes: of a doubled *)
(* quote the second is taken for the end. Without a quote nothing is found. *)
RunEnd(i) == Min({j \in i..(Len(input) - 1) : ~At(j + 1, strBegin)})

StringEnd(lx) ==
  IF Index(strBegin, lx.pos) = {} THEN lx.pos ELSE RunEnd(Min(Index(strBegin, lx.pos)))

lexString(lx) ==
  LET string == emit([lx EXCEPT !.pos = StringEnd(lx)], "String")
  IN Then(emit(Forward(string, 1), "Sep"), "text")

KeepsLineEnd(lx) == Forward(lx, 1)                             \* faulty variant
SkipsTwo(lx) == [Forward(lx, 2) EXCEPT !.start = @ + 2]        \* faulty variant
SkipLineEnd(lx) == [Forward(lx, 1) EXCEPT !.start = @ + 1]

lexLineComment(lx) ==
  IF lx.pos >= Len(input) THEN Then(emit(lx, "EOF"), "nil")
  ELSE IF Index(lcEnd, lx.pos) = {} THEN Then(emit(lx, "Error"), "nil")
  ELSE LET comment == emit([lx EXCEPT !.pos = Min(Index(lcEnd, lx.pos))], "Comment")
       IN Then(CheckStart(SkipLineEnd(comment)), "text")

(* After the separator the position goes forward once more.                 *)
lexBlockComment(lx) ==
  IF lx.pos >= Len(input) THEN Then(emit(lx, "EOF"), "nil")
  ELSE IF Index(bcEnd, lx.pos) = {} THEN Then(emit(lx, "Error"), "nil")
  ELSE LET comment == emit([lx EXCEPT !.pos = Min(Index(bcEnd, lx.pos))], "Comment")
           sep == emit(Forward(comment, 2), "Sep")
       IN Then(CheckStart(Forward(sep, 2)), "text")

-----------------------------------------------------------------------------
(* Iter.                                                                    *)
Running == l.fate = "ok" /\ l.state \notin {"returned", "stopped"}

(* The consumer breaks off at the first EOF, and where it does not go on.   *)
AfterItem(item, goesOn) ==
  IF item.typ = "EOF" THEN "returned" ELSE IF goesOn THEN l.state ELSE "stopped"

Receive(goesOn) ==
  /\ Running
  /\ l.items # <<>>
  /\ out' = Append(out, Head(l.items))
  /\ l' = [l EXCEPT !.items = Tail(@), !.state = AfterItem(Head(l.items), goesOn)]
  /\ UNCHANGED input

(* The channel is closed and empty, or there is no next state.              *)
Finish ==
  /\ Running
  /\ l.items = <<>>
  /\ l.closed \/ l.state = "nil"
  /\ out' = Append(out, EOFItem)
  /\ l' = [l EXCEPT !.state = "returned"]
  /\ UNCHANGED input

Step(state, f(_)) ==
  /\ Running
  /\ l.items = <<>> /\ ~l.closed
  /\ l.state = state
  /\ l' = f(l)
  /\ UNCHANGED <<input, out>>

Lex ==
  \/ Step("text", lexText)
  \/ Step("string", lexString)
  \/ Step("line", lexLineComment)
  \/ Step("block", lexBlockComment)

(* What was emitted stays, so that it is enough to look at the end.         *)
Over == l.state \in {"returned", "stopped"} \/ l.fate # "ok"

(* A panic ends the program; a blocked send does not, it stays.             *)
Terminated == Over /\ l.fate # "blocked" /\ UNCHANGED vars

-----------------------------------------------------------------------------
(* What the characters of a source text are, by the rules of PL/SQL: the    *)
(* state before the character i, "2" for the second one of a pair.          *)

AfterChar(state, i) ==
  IF state = "text" THEN
    IF Opens(i) = "line" THEN "line2"
    ELSE IF Opens(i) = "block" THEN "block2"
    ELSE IF Opens(i) = "string" THEN "string" ELSE "text"
  ELSE IF state = "line2" THEN "line"
  ELSE IF state = "block2" THEN "block"
  ELSE IF state = "escape2" THEN "string"
  ELSE IF state = "close2" THEN "text"
  ELSE IF state = "line" THEN IF At(i, lcEnd) THEN "text" ELSE "line"
  ELSE IF state = "block" THEN IF At(i, bcEnd) THEN "close2" ELSE "block"
  ELSE IF At(i, <<"'", "'">>) THEN "escape2"
  ELSE IF At(i, strBegin) THEN "text" ELSE "string"

(* The automaton's run.                                                     *)
Syntax ==
  LET before[i \in 0..Len(input)] == IF i = 0 THEN "text" ELSE AfterChar(before[i-1], i-1)
  IN before

(* The texts the lexer can cope with: no doubled quote in a string, no      *)
(* string left open, and after a block comment two characters that start   *)
(* nothing, and more.                                                      *)
Tractable ==
  LET syntax == Syntax IN
  /\ \A i \in DOMAIN syntax : syntax[i] # "escape2"
  /\ syntax[Len(input)] # "string"
  /\ \A i \in DOMAIN syntax : syntax[i] = "close2" =>
       i + 3 <= Len(input) /\ Opens(i+1) = "none" /\ Opens(i+2) = "none"

Emitted == out \o l.items

Inside(item) == item.from .. (item.to - 1)

-----------------------------------------------------------------------------
(* The channel's three slots are enough for whatever one state function     *)
(* emits; a fourth item would block the consumer's own goroutine for ever.  *)
NeverBlocks == l.fate # "blocked"

(* No character is in two items. Of the text that was gone through every    *)
(* character is in one, but for the line ends that close line comments; and *)
(* a consumer that goes on to the end has the whole text, but for a comment *)
(* that is opened and never closed: it could put the text together again.   *)
InAnItem(p) == \E i \in DOMAIN Emitted : p \in Inside(Emitted[i])

ClosesALineComment(p) ==
  /\ At(p, lcEnd)
  /\ \E i \in DOMAIN Emitted :
       /\ Emitted[i].to = p
       /\ \/ Emitted[i].typ = "Comment"
          \/ Emitted[i].typ = "Sep" /\ At(Emitted[i].from, lcBegin)

NeverClosed(p) ==
  /\ \E i \in DOMAIN Emitted :
       Emitted[i].typ = "Sep" /\ Emitted[i].to = p /\ At(Emitted[i].from, bcBegin)
  /\ Index(bcEnd, p) = {}

Lossless ==
  Over =>
    /\ \A i, j \in DOMAIN Emitted : i < j => Emitted[i].to <= Emitted[j].from
    /\ l.fate = "ok" =>
         /\ \A p \in 0..(l.start - 1) : InAnItem(p) \/ ClosesALineComment(p)
         /\ l.state = "returned" => l.start = Len(input) \/ NeverClosed(l.start)

(* In a tractable text an item holds what its type says and nothing else,   *)
(* and no comment is missed, but one that is never closed; and no state     *)
(* function panics.                                                         *)
TellsTheSyntax ==
  Over /\ Tractable =>
    LET syntax == Syntax IN
    /\ \A i \in DOMAIN Emitted : \A p \in Inside(Emitted[i]) :
         /\ Emitted[i].typ = "Comment" => syntax[p] \in {"line", "block"}
         /\ Emitted[i].typ = "String" => syntax[p] = "string"
         /\ Emitted[i].typ \in {"Text", "EOF"} => syntax[p] = "text"
    /\ l.state = "returned" =>
         \A p \in 0..(Len(input) - 1) :
           syntax[p] \in {"line", "block"} =>
             \/ \E i \in DOMAIN Emitted : Emitted[i].typ = "Comment" /\ p \in Inside(Emitted[i])
             \/ At(p, lcEnd) \/ At(p, bcEnd)
             \/ syntax[Len(input)] = "block"
    /\ l.fate # "panic"
=============================================================================
