------------------------- MODULE MC_EchoServerLogger -------------------------
EXTENDS EchoServerLogger

MC_Clients == {"c1", "c2"}
====
