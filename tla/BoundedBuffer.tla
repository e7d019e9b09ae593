---------------------------- MODULE BoundedBuffer ----------------------------
(***************************************************************************)
(* The circular buffer of src/lab05-producer-consumer/many_prod_many_cons.c *)
(* shared by several producer threads (performTransactions) and several    *)
(* consumer threads (processTransactions).  Capacity is guarded by the     *)
(* counting semaphores empty_count and fill_count, the two cursors by the  *)
(* binary semaphores write_mutex and read_mutex.                           *)
(*                                                                         *)
(* Every thread is a program counter over the statements of its loop; a    *)
(* step is one statement that touches shared state.  A transaction value   *)
(* is abstracted to a unique positive identity (performRandomTransaction   *)
(* never returns 0), so that a lost, duplicated or reordered value shows.  *)
(* The global array is zero-initialised, so slot value 0 means "never      *)
(* written".                                                               *)
(***************************************************************************)
EXTENDS Naturals, Sequences, FiniteSets

CONSTANTS
    BUFFER_SIZE,   \* capacity of the circular buffer
    Producers,     \* producer thread identities
    Consumers,     \* consumer thread identities
    MaxItems       \* bound: number of transactions produced in a run

ASSUME BUFFER_SIZE \in Nat \ {0}
ASSUME MaxItems \in Nat \ {0}
ASSUME Producers \cap Consumers = {}

VARIABLES
    transactions,  \* the circular buffer: slot -> value
    read_index,    \* next slot to read
    write_index,   \* next slot to write
    fill_count,    \* semaphore: filled slots
    empty_count,   \* semaphore: empty slots
    read_mutex,    \* binary semaphore protecting read_index
    write_mutex,   \* binary semaphore protecting write_index
    deposit,       \* running sum of consumed transactions
    pc,            \* program counter of every thread
    currentTransaction, \* the value each producer holds (local variable)
    produced,      \* number of transactions produced so far (bound)
    consumed       \* history: values added to deposit, in order

vars == <<transactions, read_index, write_index, fill_count, empty_count,
          read_mutex, write_mutex, deposit, pc, currentTransaction,
          produced, consumed>>

Threads == Producers \cup Consumers
Slots == 0 .. (BUFFER_SIZE - 1)
Items == 1 .. MaxItems

ProducerPcs == {"produce", "wait_empty", "wait_write_mutex", "write",
                "advance_write", "post_fill"}
ConsumerPcs == {"wait_fill", "wait_read_mutex", "read", "advance_read",
                "post_empty"}

Init ==
    /\ transactions = [s \in Slots |-> 0]
    /\ read_index = 0
    /\ write_index = 0
    /\ fill_count = 0
    /\ empty_count = BUFFER_SIZE
    /\ read_mutex = 1
    /\ write_mutex = 1
    /\ deposit = 0
    /\ pc = [t \in Threads |-> IF t \in Producers THEN "produce" ELSE "wait_fill"]
    /\ currentTransaction = [p \in Producers |-> 0]
    /\ produced = 0
    /\ consumed = <<>>

Goto(t, from, to) ==
    /\ pc[t] = from
    /\ pc' = [pc EXCEPT ![t] = to]

(***************************************************************************)
(* Producer: performTransactions, lines 70-89.                             *)
(***************************************************************************)

\* int currentTransaction = performRandomTransaction();
Produce(p) ==
    /\ produced < MaxItems
    /\ Goto(p, "produce", "wait_empty")
    /\ produced' = produced + 1
    /\ currentTransaction' = [currentTransaction EXCEPT ![p] = produced + 1]
    /\ UNCHANGED <<transactions, read_index, write_index, fill_count,
                   empty_count, read_mutex, write_mutex, deposit, consumed>>

\* sem_wait(&empty_count)
WaitEmpty(p) ==
    /\ empty_count > 0
    /\ Goto(p, "wait_empty", "wait_write_mutex")
    /\ empty_count' = empty_count - 1
    /\ UNCHANGED <<transactions, read_index, write_index, fill_count,
                   read_mutex, write_mutex, deposit, currentTransaction,
                   produced, consumed>>

\* Mutant: the producer skips sem_wait(&write_mutex), as in one_prod_one_cons.c.
WaitWriteMutex_skipped(p) ==
    /\ Goto(p, "wait_write_mutex", "write")
    /\ UNCHANGED <<transactions, read_index, write_index, fill_count,
                   empty_count, read_mutex, write_mutex, deposit,
                   currentTransaction, produced, consumed>>

\* sem_wait(&write_mutex)
WaitWriteMutex(p) ==
    /\ write_mutex > 0
    /\ Goto(p, "wait_write_mutex", "write")
    /\ write_mutex' = write_mutex - 1
    /\ UNCHANGED <<transactions, read_index, write_index, fill_count,
                   empty_count, read_mutex, deposit, currentTransaction,
                   produced, consumed>>

\* transactions[write_index] = currentTransaction;
WriteItem(p) ==
    /\ Goto(p, "write", "advance_write")
    /\ transactions' = [transactions EXCEPT ![write_index] = currentTransaction[p]]
    /\ UNCHANGED <<read_index, write_index, fill_count, empty_count,
                   read_mutex, write_mutex, deposit, currentTransaction,
                   produced, consumed>>

\* Mutant: the cursor is incremented without the modulo.
AdvanceWriteIndex_noWrap(p) ==
    /\ Goto(p, "advance_write", "post_fill")
    /\ write_index' = write_index + 1
    /\ write_mutex' = write_mutex + 1
    /\ UNCHANGED <<transactions, read_index, fill_count, empty_count,
                   read_mutex, deposit, currentTransaction, produced, consumed>>

\* Mutant: the producer leaves the critical section without sem_post(&write_mutex).
AdvanceWriteIndex_keepsMutex(p) ==
    /\ Goto(p, "advance_write", "post_fill")
    /\ write_index' = (write_index + 1) % BUFFER_SIZE
    /\ UNCHANGED <<transactions, read_index, fill_count, empty_count,
                   read_mutex, write_mutex, deposit, currentTransaction,
                   produced, consumed>>

\* write_index = (write_index + 1) % BUFFER_SIZE; sem_post(&write_mutex)
AdvanceWriteIndex(p) ==
    /\ Goto(p, "advance_write", "post_fill")
    /\ write_index' = (write_index + 1) % BUFFER_SIZE
    /\ write_mutex' = write_mutex + 1
    /\ UNCHANGED <<transactions, read_index, fill_count, empty_count,
                   read_mutex, deposit, currentTransaction, produced, consumed>>

\* sem_post(&fill_count), then back to the top of while (1)
PostFill(p) ==
    /\ Goto(p, "post_fill", "produce")
    /\ fill_count' = fill_count + 1
    /\ UNCHANGED <<transactions, read_index, write_index, empty_count,
                   read_mutex, write_mutex, deposit, currentTransaction,
                   produced, consumed>>

performTransactions(p) ==
    \/ Produce(p)
    \/ WaitEmpty(p)
    \/ WaitWriteMutex(p)
    \/ WriteItem(p)
    \/ AdvanceWriteIndex(p)
    \/ PostFill(p)

(***************************************************************************)
(* Consumer: processTransactions, lines 98-117.                            *)
(***************************************************************************)

\* sem_wait(&fill_count)
WaitFill(c) ==
    /\ fill_count > 0
    /\ Goto(c, "wait_fill", "wait_read_mutex")
    /\ fill_count' = fill_count - 1
    /\ UNCHANGED <<transactions, read_index, write_index, empty_count,
                   read_mutex, write_mutex, deposit, currentTransaction,
                   produced, consumed>>

\* Mutant: the consumer skips sem_wait(&read_mutex).
WaitReadMutex_skipped(c) ==
    /\ Goto(c, "wait_read_mutex", "read")
    /\ UNCHANGED <<transactions, read_index, write_index, fill_count,
                   empty_count, read_mutex, write_mutex, deposit,
                   currentTransaction, produced, consumed>>

\* sem_wait(&read_mutex)
WaitReadMutex(c) ==
    /\ read_mutex > 0
    /\ Goto(c, "wait_read_mutex", "read")
    /\ read_mutex' = read_mutex - 1
    /\ UNCHANGED <<transactions, read_index, write_index, fill_count,
                   empty_count, write_mutex, deposit, currentTransaction,
                   produced, consumed>>

\* deposit += transactions[read_index];
ConsumeItem(c) ==
    /\ Goto(c, "read", "advance_read")
    /\ deposit' = deposit + transactions[read_index]
    /\ consumed' = Append(consumed, transactions[read_index])
    /\ UNCHANGED <<transactions, read_index, write_index, fill_count,
                   empty_count, read_mutex, write_mutex, currentTransaction,
                   produced>>

\* read_index = (read_index + 1) % BUFFER_SIZE; (printf); sem_post(&read_mutex)
AdvanceReadIndex(c) ==
    /\ Goto(c, "advance_read", "post_empty")
    /\ read_index' = (read_index + 1) % BUFFER_SIZE
    /\ read_mutex' = read_mutex + 1
    /\ UNCHANGED <<transactions, write_index, fill_count, empty_count,
                   write_mutex, deposit, currentTransaction, produced, consumed>>

\* sem_post(&empty_count), then back to the top of while (1)
PostEmpty(c) ==
    /\ Goto(c, "post_empty", "wait_fill")
    /\ empty_count' = empty_count + 1
    /\ UNCHANGED <<transactions, read_index, write_index, fill_count,
                   read_mutex, write_mutex, deposit, currentTransaction,
                   produced, consumed>>

processTransactions(c) ==
    \/ WaitFill(c)
    \/ WaitReadMutex(c)
    \/ ConsumeItem(c)
    \/ AdvanceReadIndex(c)
    \/ PostEmpty(c)

Next ==
    \/ \E p \in Producers : performTransactions(p)
    \/ \E c \in Consumers : processTransactions(c)

(***************************************************************************)
(* The threads are detached pthreads; the OS scheduler runs every          *)
(* runnable thread eventually, which is weak fairness per thread.          *)
(***************************************************************************)
Fairness ==
    /\ \A p \in Producers : WF_vars(performTransactions(p))
    /\ \A c \in Consumers : WF_vars(processTransactions(c))

Spec == Init /\ [][Next]_vars /\ Fairness

-----------------------------------------------------------------------------
TypeOK ==
    /\ transactions \in [Slots -> 0 .. MaxItems]
    /\ read_index \in Slots
    /\ write_index \in Slots
    /\ fill_count \in 0 .. BUFFER_SIZE
    /\ empty_count \in 0 .. BUFFER_SIZE
    /\ read_mutex \in {0, 1}
    /\ write_mutex \in {0, 1}
    /\ deposit \in Nat
    /\ pc \in [Threads -> ProducerPcs \cup ConsumerPcs]
    /\ currentTransaction \in [Producers -> 0 .. MaxItems]
    /\ produced \in 0 .. MaxItems
    /\ consumed \in Seq(Items)

(***************************************************************************)
(* Refinement: the buffer, seen from outside, is the atomic queue of       *)
(* BoundedQueue.  The abstract queue is read off the concrete state: it    *)
(* starts at read_index, skipping a slot a consumer has read but not yet   *)
(* stepped over, and it holds the slots not counted by empty_count, less   *)
(* those a producer has claimed but not yet written and those a consumer   *)
(* has read but not yet returned with sem_post(&empty_count).  A put is    *)
(* the write of transactions[write_index], a take is the read that adds    *)
(* a slot to deposit.                                                      *)
(***************************************************************************)
InState(S, ps) == {t \in S : pc[t] \in ps}

QueueStart ==
    read_index + Cardinality(InState(Consumers, {"advance_read"}))

QueueLen ==
    BUFFER_SIZE - empty_count
      - Cardinality(InState(Producers, {"wait_write_mutex", "write"}))
      - Cardinality(InState(Consumers, {"advance_read", "post_empty"}))

QueueView ==
    [k \in 1 .. QueueLen |-> transactions[(QueueStart + k - 1) % BUFFER_SIZE]]

Abstract == INSTANCE BoundedQueue
              WITH Capacity <- BUFFER_SIZE, Values <- Items,
                   queue <- QueueView, out <- consumed

\* Every interleaving of producers and consumers behaves as the atomic FIFO
\* queue: no transaction is lost, none is added to deposit twice, none is
\* read from a slot before it is written, they reach deposit in the order
\* their slots were filled, and each one written is eventually consumed.
\* This is what write_mutex, read_mutex and the two counting semaphores of
\* performTransactions/processTransactions are for.
BufferImplementsQueue == Abstract!QSpec

(***************************************************************************)
(* The model bounds the number of transactions, so a run ends once all     *)
(* MaxItems transactions have reached deposit; that is the only state in   *)
(* which every thread may be blocked.                                      *)
(***************************************************************************)
AllConsumed ==
    /\ produced = MaxItems
    /\ Len(consumed) = MaxItems
    /\ \A p \in Producers : pc[p] = "produce"
    /\ \A c \in Consumers : pc[c] = "wait_fill"

\* No reachable state has every producer and consumer blocked on a semaphore
\* while transactions are still pending: the sem_wait/sem_post pairs of both
\* loops never leave all threads waiting on each other.
NoDeadlock == AllConsumed \/ ENABLED Next
=============================================================================
