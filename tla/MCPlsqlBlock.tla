--------------------------- MODULE MCPlsqlBlock ---------------------------
(* Subprograms for module PlsqlBlock, in three families: types that contain *)
(* each other, for the trees; annotations in every order; and every kind of *)
(* argument in every direction, before another one, for the blocks.        *)
EXTENDS PlsqlBlock

Type(code, attrs, elem) == [code |-> code, attrs |-> attrs, elem |-> elem]
Attr(name, type) == [name |-> name, type |-> type]
Ab == <<Attr("a", "number"), Attr("b", "string")>>

MCTypes == [
  number  |-> Type("NUMBER", <<>>, <<>>),
  string  |-> Type("VARCHAR2", <<>>, <<>>),
  lob     |-> Type("CLOB", <<>>, <<>>),
  record  |-> Type("PL/SQL RECORD", Ab, <<>>),
  lobs    |-> Type("PL/SQL RECORD", <<Attr("a", "number"), Attr("c", "lob")>>, <<>>),
  cursor  |-> Type("REF CURSOR", Ab, <<>>),
  numbers |-> Type("COLLECTION", <<>>, <<"number">>),
  strings |-> Type("COLLECTION", <<>>, <<"string">>),
  records |-> Type("COLLECTION", <<>>, <<"record">>),
  tables  |-> Type("COLLECTION", <<>>, <<"numbers">>),
  nothing |-> Type("COLLECTION", <<>>, <<>>),
  deep    |-> Type("PL/SQL RECORD",
                   <<Attr("a", "number"), Attr("t", "records"), Attr("r", "record"), Attr("z", "string")>>,
                   <<>>),
  deeps   |-> Type("COLLECTION", <<>>, <<"deep">>)]

Arg1(name, type, dir, table) ==
  [name |-> name, type |-> type, dir |-> dir,
   data |-> IF MCTypes[type].code = "COLLECTION" THEN table ELSE MCTypes[type].code]
In(name, type) == Arg1(name, type, "IN", "PL/SQL TABLE")
Out(name, type) == Arg1(name, type, "OUT", "PL/SQL TABLE")
Result(type) == Out(Unnamed, type)
Program(name, args) == [name |-> name, args |-> args]
Scenario(ps, canResolve, as) == [programs |-> ps, resolver |-> canResolve, annotations |-> as]

TreeTypes == {"number", "record", "deep", "deeps", "tables", "cursor", "nothing"}
TreeScenarios ==
  {Scenario(<<Program("f", <<Result(r), In("p", s), Out("q", t)>>), Program("g", <<In("p", t)>>)>>, b, <<>>) :
     r \in {"number", "deep"}, s \in TreeTypes, t \in TreeTypes, b \in BOOLEAN}

Annotate(type, name, other, size) == [type |-> type, name |-> name, other |-> other, size |-> size]
Some == {
  Annotate("private", "g", NoName, 0),
  Annotate("rename", "f", "x", 0), Annotate("rename", "x", "g", 0), Annotate("rename", "g", "f", 0),
  FlagAnnotation("f", "g", FALSE), FlagAnnotation("x", "h", FALSE), FlagAnnotation("f", "g", TRUE),
  Annotate("replace", "g", "f", 0),
  Annotate("handle", "e", NoName, 0),
  Annotate("max-table-size", "f", NoName, 2), Annotate("max-table-size", "f", NoName, 1),
  Annotate("tag", "f", "some", 0), Annotate("tag", "f", NoName, 0)}
Two == {<<>>} \cup {<<a>> : a \in Some} \cup (Some \X Some)

F == Program("f", <<In("p", "lob"), Out("q", "lob")>>)
G == Program("g", <<In("p", "lob"), Out("q", "lob")>>)
H == Program("h", <<Result("lob"), In("p", "lob")>>)
AnnotationScenarios ==
  {Scenario(<<F, G, H>>, TRUE, as) : as \in Two \cup (Some \X Some \X Some)}
  \cup {Scenario(<<F, G, Program("f", <<In("p", "number")>>)>>, TRUE, as) : as \in Two}

Kinds ==
  {Arg1("p", t, d, "PL/SQL TABLE") :
     t \in {"number", "lob", "record", "lobs", "numbers", "strings", "records"},
     d \in {"IN", "OUT", "IN/OUT"}}
  \cup {Arg1("p", t, d, "TABLE") : t \in {"numbers", "records"}, d \in {"IN", "IN/OUT"}}
  \cup {Out("p", "cursor")}
Behind == {<<In("q", "record")>>, <<In("q", "numbers")>>, <<Out("q", "cursor")>>, <<>>,
           <<Arg1("q", "record", "IN/OUT", "")>>, <<Out("q", "cursor"), In("r", "record")>>}
BlockScenarios ==
  {Scenario(<<Program("f", <<p>> \o q)>>, TRUE, as) : p \in Kinds, q \in Behind,
     as \in {<<>>, <<Annotate("handle", "e", NoName, 0), Annotate("max-table-size", "f", NoName, 1)>>}}
  \cup {Scenario(<<Program("f", <<Result(t), p>>)>>, TRUE, <<>>) :
          t \in {"number", "lob", "record", "numbers", "records"},
          p \in {In("p", "record"), Arg1("p", "records", "IN/OUT", "PL/SQL TABLE")}}
  \cup {Scenario(<<Program("f", <<Out("p", "cursor"), Arg1("q", t, "IN/OUT", "PL/SQL TABLE")>>)>>,
                 TRUE, <<>>) : t \in {"lob", "lobs", "numbers", "records"}}

MCScenarios == TreeScenarios \cup AnnotationScenarios \cup BlockScenarios
=============================================================================
