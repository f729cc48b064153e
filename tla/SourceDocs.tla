----------------------------- MODULE SourceDocs -----------------------------
(***************************************************************************)
(* The documentation and the annotations of a package's source             *)
(* (source/parse.go), taken from the items of the lexer: a comment is      *)
(* either an annotation or kept in buf, and each text takes what is kept,  *)
(* as the documentation of what it declares, of the package, or of nothing.*)
(*                                                                         *)
(* A declaration's FUNCTION or PROCEDURE with its name is one character, a *)
(* member of Names; so are a comment's "oracall:" prefix, with an          *)
(* annotation that can be parsed or not, and what makes a comment one of   *)
(* the package. A documentation is the positions of its characters.        *)
(***************************************************************************)
EXTENDS Lexer, SequencesExt

CONSTANTS
  Names,     (* declarations                                                *)
  Heading,   (* "# "                                                        *)
  Annotates, (* "oracall:" and an annotation                                *)
  Malformed, (* "oracall:" and one whose size is not a number               *)
  Package    (* "", the key of the package's documentation                  *)

ASSUME SourceAssumption ==
  /\ Names \cup {Heading, Annotates, Malformed} \subseteq Letters
  /\ Cardinality({Heading, Annotates, Malformed}) = 3
  /\ Names \cap {Heading, Annotates, Malformed} = {}
  /\ Package \notin Names

VARIABLES
  buf,         (* the comments since the last text                          *)
  docs,        (* from names to documentation                               *)
  annotations  (* where the annotations begin                               *)

docVars == <<buf, docs, annotations>>
allVars == <<input, l, out, buf, docs, annotations>>

NoDocs == [n \in {} |-> <<>>]

DocsInit ==
  /\ Init
  /\ buf = <<>> /\ docs = NoDocs /\ annotations = <<>>

-----------------------------------------------------------------------------
(* The positions of an item's characters; text has the characters at them. *)
Positions(item) == [i \in 1..(item.to - item.from) |-> item.from + i - 1]

CharsAt(positions) == [i \in DOMAIN positions |-> input[positions[i] + 1]]

(* strings.Contains(s, "---") || strings.Contains(s, "# ")                  *)
IsHeading(text) ==
  \E i \in DOMAIN text :
    text[i] = Heading \/ (i + 2 <= Len(text) /\ \A k \in 0..2 : text[i + k] = "-")

(* rDecl.FindStringSubmatch finds the first of them.                        *)
Declares(text) == {i \in DOMAIN text : text[i] \in Names}

DeclaredIn(text) == text[Min(Declares(text))]

Put(name, s) == [n \in DOMAIN docs \cup {name} |-> IF n = name THEN s ELSE docs[n]]

(* The package's documentation goes on until something is declared.         *)
OfPackage == IF Package \in DOMAIN docs THEN docs[Package] \o buf ELSE buf

TakeText(item) ==
  LET text == CharsAt(Positions(item)) IN
  /\ docs' = IF Declares(text) # {} THEN Put(DeclaredIn(text), buf)
             ELSE IF IsHeading(CharsAt(buf)) /\ DOMAIN docs \subseteq {Package}
             THEN Put(Package, OfPackage) ELSE docs
  /\ UNCHANGED annotations

(* buf.Reset().                                                             *)
KeepsUntilDeclared(item) ==                                    \* faulty variant
  IF Declares(CharsAt(Positions(item))) = {} THEN buf ELSE <<>>
Reset(item) == <<>>

Begins(item, prefix) == item.typ = "Comment" /\ input[item.from + 1] = prefix

TakeComment(item) ==
  /\ IF Begins(item, Annotates)
     THEN /\ annotations' = Append(annotations, item.from)
          /\ buf' = buf
     ELSE /\ annotations' = annotations
          /\ buf' = IF Begins(item, Malformed) THEN buf ELSE buf \o Positions(item)
  /\ UNCHANGED docs

TakeItem ==
  LET item == Head(l.items) IN
  /\ Receive(~Begins(item, Malformed))
  /\ \/ item.typ = "Text" /\ TakeText(item) /\ buf' = Reset(item)
     \/ item.typ = "Comment" /\ TakeComment(item)
     \/ item.typ \notin {"Text", "Comment"} /\ UNCHANGED docVars

Next ==
  \/ TakeItem
  \/ (Lex \/ Finish \/ Terminated) /\ UNCHANGED docVars

Spec == DocsInit /\ [][Next]_allVars

-----------------------------------------------------------------------------
TypeOK ==
  /\ LexerTypeOK
  /\ buf \in Seq(Nat)
  /\ DOMAIN docs \subseteq Names \cup {Package}
  /\ \A n \in DOMAIN docs : docs[n] \in Seq(Nat)
  /\ annotations \in Seq(Nat)

(* What the rules of the language make of a text's characters: those of a   *)
(* comment that ends, those of the program, and the stretches of either.    *)
CommentAt(syntax, p) ==
  \/ syntax[p] = "line" /\ ~At(p, lcEnd)
  \/ syntax[p] = "block" /\ ~At(p, bcEnd) /\ \E q \in p..Len(input) : syntax[q] # "block"

TextAt(syntax, p) == syntax[p] = "text" /\ Opens(p) = "none"

Where(P(_)) == {p \in 0..(Len(input) - 1) : P(p)}

Starts(S) == {p \in S : p - 1 \notin S}

(* The beginning of the stretch of S that p is in.                          *)
StartOf(S, p) == Max({q \in Starts(S) : q <= p})

Stretch(S, t) == {p \in S : StartOf(S, p) = t}

(* What of S is before t, with none of texts in between.                    *)
InFront(S, texts, t) == {p \in S : p < t /\ \A q \in texts : q < t => q < p}

Sorted(S) ==
  LET upTo[i \in 0..Len(input)] ==
        IF i = 0 THEN <<>> ELSE IF i - 1 \in S THEN Append(upTo[i-1], i - 1) ELSE upTo[i-1]
  IN upTo[Len(input)]

(* A declaration's documentation are the comments between it and the text   *)
(* before, of the last declaration if there are more of a name; the         *)
(* package's are the comments with a heading in front of the first          *)
(* declaration; annotations are told in their order, and are no             *)
(* documentation, nor is a comment that does not end. Two characters behind *)
(* a block comment at the very end are given out as the end: they are too   *)
(* few for a declaration.                                                   *)
EndsInComment ==
  Len(input) > 2 /\ Syntax[Len(input) - 3] = "close2"

DocsPrecede ==
  l.state = "returned" /\ Tractable /\ ~EndsInComment =>
    LET syntax == Syntax
        comments == Where(LAMBDA p : CommentAt(syntax, p))
        texts == Where(LAMBDA p : TextAt(syntax, p))
        notes == {p \in comments : input[StartOf(comments, p) + 1] = Annotates}
        stretch == [t \in Starts(texts) |-> CharsAt(Sorted(Stretch(texts, t)))]
        before == [t \in Starts(texts) |-> Sorted(InFront(comments \ notes, texts, t))]
        declaring == {t \in Starts(texts) : Declares(stretch[t]) # {}}
        of == [n \in Names |-> {t \in declaring : DeclaredIn(stretch[t]) = n}]
        heads == {t \in Starts(texts) : IsHeading(CharsAt(before[t]))
                                          /\ \A d \in declaring : t < d}
    IN /\ \A n \in Names : n \in DOMAIN docs <=> of[n] # {}
       /\ \A n \in Names \cap DOMAIN docs : docs[n] = before[Max(of[n])]
       /\ Package \in DOMAIN docs <=> heads # {}
       /\ Package \in DOMAIN docs =>
            docs[Package] = FlattenSeq([i \in DOMAIN Sorted(heads) |-> before[Sorted(heads)[i]]])
       /\ annotations = Sorted({p \in notes : StartOf(comments, p) = p})
=============================================================================
