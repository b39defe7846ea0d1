---------------------------- MODULE MCAtomicJson ----------------------------
(***************************************************************************)
(* Small instances of AtomicJson for TLC: two threads of the server and a  *)
(* tick process, documents of two writes.                                  *)
(***************************************************************************)
EXTENDS AtomicJson

CONSTANTS th1, th2, tick, server, cli

Processes == [w \in Writers |-> IF w = tick THEN cli ELSE server]
=============================================================================
