---------------------------- MODULE MC_PipeLogger ----------------------------
EXTENDS PipeLogger

MC_Clients == {"a1", "a2"}
====
