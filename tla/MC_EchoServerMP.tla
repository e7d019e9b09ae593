--------------------------- MODULE MC_EchoServerMP ---------------------------
(* Model-checking instance of EchoServerMP: three clients against two      *)
(* admission slots, so the third connection must wait in sem_wait for a    *)
(* slot freed by an earlier child; one data message per client before the  *)
(* quit command.                                                           *)
EXTENDS EchoServerMP

MC_Clients == {"a1", "a2", "a3"}
=============================================================================
