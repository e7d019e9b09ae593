-------------------------- MODULE MC_BoundedBuffer --------------------------
(* Model-checking instance of BoundedBuffer: two producers and two         *)
(* consumers (the races the mutexes exist for need two of each), a buffer  *)
(* of two slots so that both cursors wrap, and four transactions so that   *)
(* every slot is reused.                                                   *)
EXTENDS BoundedBuffer

MC_Producers == {"p1", "p2"}
MC_Consumers == {"c1", "c2"}
=============================================================================
