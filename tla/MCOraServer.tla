---------------------------- MODULE MCOraServer ----------------------------
(* Instance of OraServer for TLC: three calls of one method, one of another *)
EXTENDS OraServer, TLC

CONSTANTS call1, call2, call3, call4, find, store

MCMethodOf == (call1 :> find) @@ (call2 :> find) @@ (call3 :> find) @@ (call4 :> store)
=============================================================================
