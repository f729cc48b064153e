---------------------------- MODULE MCSourceDocs ----------------------------
(* Texts for SourceDocs: every short one over the delimiters, and every    *)
(* short sequence of comments, declarations, strings and blanks.           *)
EXTENDS SourceDocs

CONSTANTS MaxLen, MaxParts

OfAtMost(n, S) == UNION {[1..k -> S] : k \in 0..n}

Line(c) == <<"-", "-", c, "newline">>

Parts ==
  {Line(c) : c \in {"letter", Heading, Annotates, Malformed}} \cup
  {<<"/", "*", c, "*", "/", "newline", "newline">> : c \in {"letter", Annotates}} \cup
  {<<"-", "-", "-", "-", "-", "newline">>, <<"/", "*", Annotates>>, <<"'", "f", "'">>,
   <<"newline">>} \cup
  {<<n>> : n \in Names}

MCTexts == OfAtMost(MaxLen, Special) \cup {FlattenSeq(s) : s \in OfAtMost(MaxParts, Parts)}
=============================================================================
