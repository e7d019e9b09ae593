--------------------------- MODULE MC_EchoServerMT ---------------------------
EXTENDS EchoServerMT

MC_Clients == {"a1", "a2", "a3"}
====
