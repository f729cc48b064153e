-------------------------- MODULE MCProtoMessages --------------------------
(* Instances of ProtoMessages for TLC: a record in a record, and a record   *)
(* with an argument of unknown type.                                       *)
EXTENDS ProtoMessages, TLC

CONSTANTS line, order, blob, new, old

MCFieldsOf == (line :> <<"simple">>) @@ (order :> <<line, "simple">>) @@ (blob :> <<line, "unknown">>)

UpTo(n, S) == UNION {[1..k -> S] : k \in 0..n}

Of(name, f) == [name |-> name, in |-> f.in, out |-> f.out]
Named(fs, names) == [i \in DOMAIN fs |-> Of(names[i], fs[i])]

(* Pairs of functions of every kind, triples of those whose types are known *)
(* to protoType, of names that differ and of one name.                      *)
One == [in : UpTo(2, Fields), out : UpTo(1, {line, "unknown"})]
Two == [in : UpTo(1, Fields) \cup {<<order, "unknown">>}, out : UpTo(1, {order, "unknown"})]
Three == [in : UpTo(1, {"unknown", line, order, blob}) \cup {<<order, "unknown">>}, out : {<<>>, <<order>>}]
MCInputs ==
  {Named(fs, <<new>>) : fs \in UpTo(1, One)}
    \cup {Named(fs, names) : fs \in [1..2 -> Two], names \in {<<new, old>>, <<new, new>>}}
    \cup {Named(fs, <<new, old, new>>) : fs \in [1..3 -> Three]}

MCKnown ==
  {Named(fs, <<new, old>>) : fs \in [1..2 -> [in : UpTo(2, {"simple", "unknown", line}), out : {<<>>}]]}
=============================================================================
