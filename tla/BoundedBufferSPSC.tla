-------------------------- MODULE BoundedBufferSPSC --------------------------
(***************************************************************************)
(* The circular buffer of src/lab5-producer-consumer/one_prod_one_cons.c:  *)
(* one producer thread (performTransactions) and one consumer thread       *)
(* (processTransactions) share transactions[] through the counting         *)
(* semaphores empty_count and fill_count only: there is no mutex, because  *)
(* write_index has the producer as its only writer and read_index the      *)
(* consumer.                                                               *)
(*                                                                         *)
(* Each thread is a program counter over the statements of its loop.  As   *)
(* in BoundedBuffer a transaction is abstracted to a unique positive       *)
(* identity (performRandomTransaction never returns 0) and slot value 0    *)
(* means "never written" (the global array is zero-initialised).  Unlike   *)
(* the multi-consumer program, the consumer copies the slot into           *)
(* lastTransaction, returns the slot with sem_post(&empty_count), and only *)
(* then adds the copy to deposit.                                          *)
(***************************************************************************)
EXTENDS Naturals, Sequences

CONSTANTS
    BUFFER_SIZE,   \* capacity of the circular buffer
    MaxItems       \* bound: number of transactions produced in a run

ASSUME BUFFER_SIZE \in Nat \ {0}
ASSUME MaxItems \in Nat \ {0}

VARIABLES
    transactions,       \* the circular buffer: slot -> value
    read_index,         \* next slot to read (consumer only)
    write_index,        \* next slot to write (producer only)
    fill_count,         \* semaphore: filled slots
    empty_count,        \* semaphore: empty slots
    deposit,            \* running sum of consumed transactions
    ppc,                \* producer program counter
    cpc,                \* consumer program counter
    currentTransaction, \* producer's local variable
    lastTransaction,    \* consumer's local variable
    produced,           \* number of transactions produced so far (bound)
    consumed            \* history: values read out of the buffer, in order

vars == <<transactions, read_index, write_index, fill_count, empty_count,
          deposit, ppc, cpc, currentTransaction, lastTransaction, produced,
          consumed>>

Slots == 0 .. (BUFFER_SIZE - 1)
Items == 1 .. MaxItems

\* main, lines 94-101: indexes zeroed, fill_count = 0, empty_count = BUFFER_SIZE;
\* both threads are created at the top of their loops.
Init ==
    /\ transactions = [s \in Slots |-> 0]
    /\ read_index = 0
    /\ write_index = 0
    /\ fill_count = 0
    /\ empty_count = BUFFER_SIZE
    /\ deposit = 0
    /\ ppc = "produce"
    /\ cpc = "wait_fill"
    /\ currentTransaction = 0
    /\ lastTransaction = 0
    /\ produced = 0
    /\ consumed = <<>>

(***************************************************************************)
(* Producer: performTransactions, lines 45-60.                             *)
(***************************************************************************)

\* int currentTransaction = performRandomTransaction();
Produce ==
    /\ ppc = "produce"
    /\ produced < MaxItems
    /\ ppc' = "wait_empty"
    /\ produced' = produced + 1
    /\ currentTransaction' = produced + 1
    /\ UNCHANGED <<transactions, read_index, write_index, fill_count,
                   empty_count, deposit, cpc, lastTransaction, consumed>>

\* Mutant: the producer goes on without waiting for an empty slot.
WaitEmpty_noWait ==
    /\ ppc = "wait_empty"
    /\ ppc' = "write"
    /\ empty_count' = empty_count - 1
    /\ UNCHANGED <<transactions, read_index, write_index, fill_count,
                   deposit, cpc, currentTransaction, lastTransaction,
                   produced, consumed>>

\* sem_wait(&empty_count)
WaitEmpty ==
    /\ ppc = "wait_empty"
    /\ empty_count > 0
    /\ ppc' = "write"
    /\ empty_count' = empty_count - 1
    /\ UNCHANGED <<transactions, read_index, write_index, fill_count,
                   deposit, cpc, currentTransaction, lastTransaction,
                   produced, consumed>>

\* transactions[write_index] = currentTransaction;
WriteItem ==
    /\ ppc = "write"
    /\ ppc' = "advance_write"
    /\ transactions' = [transactions EXCEPT ![write_index] = currentTransaction]
    /\ UNCHANGED <<read_index, write_index, fill_count, empty_count, deposit,
                   cpc, currentTransaction, lastTransaction, produced,
                   consumed>>

\* write_index = (write_index + 1) % BUFFER_SIZE;
AdvanceWriteIndex ==
    /\ ppc = "advance_write"
    /\ ppc' = "post_fill"
    /\ write_index' = (write_index + 1) % BUFFER_SIZE
    /\ UNCHANGED <<transactions, read_index, fill_count, empty_count,
                   deposit, cpc, currentTransaction, lastTransaction,
                   produced, consumed>>

\* sem_post(&fill_count), then back to the top of while (1)
PostFill ==
    /\ ppc = "post_fill"
    /\ ppc' = "produce"
    /\ fill_count' = fill_count + 1
    /\ UNCHANGED <<transactions, read_index, write_index, empty_count,
                   deposit, cpc, currentTransaction, lastTransaction,
                   produced, consumed>>

performTransactions ==
    \/ Produce
    \/ WaitEmpty
    \/ WriteItem
    \/ AdvanceWriteIndex
    \/ PostFill

(***************************************************************************)
(* Consumer: processTransactions, lines 64-82.                             *)
(***************************************************************************)

\* sem_wait(&fill_count)
WaitFill ==
    /\ cpc = "wait_fill"
    /\ fill_count > 0
    /\ cpc' = "read"
    /\ fill_count' = fill_count - 1
    /\ UNCHANGED <<transactions, read_index, write_index, empty_count,
                   deposit, ppc, currentTransaction, lastTransaction,
                   produced, consumed>>

\* int lastTransaction = transactions[read_index];
ReadItem ==
    /\ cpc = "read"
    /\ cpc' = "advance_read"
    /\ lastTransaction' = transactions[read_index]
    /\ consumed' = Append(consumed, transactions[read_index])
    /\ UNCHANGED <<transactions, read_index, write_index, fill_count,
                   empty_count, deposit, ppc, currentTransaction, produced>>

\* read_index = (read_index + 1) % BUFFER_SIZE;
AdvanceReadIndex ==
    /\ cpc = "advance_read"
    /\ cpc' = "post_empty"
    /\ read_index' = (read_index + 1) % BUFFER_SIZE
    /\ UNCHANGED <<transactions, write_index, fill_count, empty_count,
                   deposit, ppc, currentTransaction, lastTransaction,
                   produced, consumed>>

\* sem_post(&empty_count)
PostEmpty ==
    /\ cpc = "post_empty"
    /\ cpc' = "deposit"
    /\ empty_count' = empty_count + 1
    /\ UNCHANGED <<transactions, read_index, write_index, fill_count,
                   deposit, ppc, currentTransaction, lastTransaction,
                   produced, consumed>>

\* deposit += lastTransaction; (the balance printf is left out), then back
\* to the top of while (1)
Deposit ==
    /\ cpc = "deposit"
    /\ cpc' = "wait_fill"
    /\ deposit' = deposit + lastTransaction
    /\ UNCHANGED <<transactions, read_index, write_index, fill_count,
                   empty_count, ppc, currentTransaction, lastTransaction,
                   produced, consumed>>

processTransactions ==
    \/ WaitFill
    \/ ReadItem
    \/ AdvanceReadIndex
    \/ PostEmpty
    \/ Deposit

Next == performTransactions \/ processTransactions

(***************************************************************************)
(* Both threads are detached and main leaves with pthread_exit, so the     *)
(* process lives while they do; the scheduler runs each runnable thread    *)
(* eventually: weak fairness per thread.                                   *)
(***************************************************************************)
Fairness == WF_vars(performTransactions) /\ WF_vars(processTransactions)

Spec == Init /\ [][Next]_vars /\ Fairness

-----------------------------------------------------------------------------
TypeOK ==
    /\ transactions \in [Slots -> 0 .. MaxItems]
    /\ read_index \in Slots
    /\ write_index \in Slots
    /\ fill_count \in 0 .. BUFFER_SIZE
    /\ empty_count \in 0 .. BUFFER_SIZE
    /\ deposit \in Nat
    /\ ppc \in {"produce", "wait_empty", "write", "advance_write", "post_fill"}
    /\ cpc \in {"wait_fill", "read", "advance_read", "post_empty", "deposit"}
    /\ currentTransaction \in 0 .. MaxItems
    /\ lastTransaction \in 0 .. MaxItems
    /\ produced \in 0 .. MaxItems
    /\ consumed \in Seq(Items)

(***************************************************************************)
(* Refinement: read off the abstract queue.  It starts at read_index, one  *)
(* further while the consumer has read its slot but not yet advanced, and  *)
(* holds the slots empty_count does not count, less the one the producer   *)
(* has claimed but not yet written and the one the consumer has read but   *)
(* not yet returned.  A put is the write of transactions[write_index], a   *)
(* take is the read into lastTransaction.                                  *)
(***************************************************************************)
QueueStart == read_index + (IF cpc = "advance_read" THEN 1 ELSE 0)

QueueLen ==
    BUFFER_SIZE - empty_count
      - (IF ppc = "write" THEN 1 ELSE 0)
      - (IF cpc \in {"advance_read", "post_empty"} THEN 1 ELSE 0)

QueueView ==
    [k \in 1 .. QueueLen |-> transactions[(QueueStart + k - 1) % BUFFER_SIZE]]

Abstract == INSTANCE BoundedQueue
              WITH Capacity <- BUFFER_SIZE, Values <- Items,
                   queue <- QueueView, out <- consumed

\* Without any mutex, the lone producer and the lone consumer still behave
\* as the atomic FIFO queue: the consumer never reads a slot the producer has
\* not finished writing, the producer never overwrites a slot the consumer
\* has not yet copied into lastTransaction, and every transaction produced is
\* eventually read, in order.  This rests on the order of the statements in
\* performTransactions (write, advance, then post fill_count) and in
\* processTransactions (copy, advance, then post empty_count).
BufferImplementsQueue == Abstract!QSpec
=============================================================================
