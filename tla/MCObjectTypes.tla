--------------------------- MODULE MCObjectTypes ---------------------------
(* Instance of ObjectTypes for TLC: a type that is made of another and of a*)
(* collection that is not supported; the other, of a JSON type, which it    *)
(* calls by another name than the dictionary.                               *)
EXTENDS ObjectTypes, TLC

CONSTANTS order, item, alias, json, index

MCListed == <<item, order, index>>
MCChildren == order :> <<item, index>> @@ item :> <<alias>> @@ [t \in {alias, json, index} |-> <<>>]
MCFound == [t \in {order, item, alias, json, index} |-> IF t = alias THEN json ELSE t]
MCOnlys == {{}, {item}, {index, order}}
=============================================================================
