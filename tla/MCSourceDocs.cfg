\* Every text of up to six characters over those of the delimiters, and of up to
\* four parts: comments, annotations, declarations, strings and blank lines.
CONSTANTS
  Letters = {"f", "g", "heading", "annotates", "malformed", "letter"}
  Names = {"f", "g"}
  Heading = "heading"
  Annotates = "annotates"
  Malformed = "malformed"
  Package = "package"
  MaxLen = 6
  MaxParts = 4
  Texts <- MCTexts
SPECIFICATION Spec
INVARIANTS
  TypeOK
  NeverBlocks
  Lossless
  TellsTheSyntax
  DocsPrecede
