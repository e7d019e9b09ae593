---------------------------- MODULE BoundedQueue ----------------------------
(***************************************************************************)
(* What a producer/consumer circular buffer promises its callers: an       *)
(* atomic FIFO queue of capacity Capacity.  A put blocks while the queue   *)
(* is full, a take blocks while it is empty, every value put is taken      *)
(* exactly once and in the order it was put, and a value that has been     *)
(* put is eventually taken.  `out' is the sequence of values handed to     *)
(* consumers, in the order they were taken.                                *)
(***************************************************************************)
EXTENDS Naturals, Sequences

CONSTANTS Capacity, Values

VARIABLES queue, out

qvars == <<queue, out>>

QInit ==
    /\ queue = <<>>
    /\ out = <<>>

Put(v) ==
    /\ Len(queue) < Capacity
    /\ queue' = Append(queue, v)
    /\ UNCHANGED out

Take ==
    /\ queue /= <<>>
    /\ out' = Append(out, Head(queue))
    /\ queue' = Tail(queue)

QNext == (\E v \in Values : Put(v)) \/ Take

\* The queue's safety alone: what it promises even if its consumer stops.
QSafety == QInit /\ [][QNext]_qvars

QSpec == QSafety /\ WF_qvars(Take)
=============================================================================
