-------------------------------- MODULE Queue --------------------------------
(***************************************************************************)
(* The blocking queues of lib/queue.c: a list under a mutex, a condition   *)
(* variable on which consumers sleep, and a shutdown flag.  Everything a   *)
(* call does between locking and unlocking, or between locking and         *)
(* sleeping, is one step.  A consumer inside list_queue_dequeue is either  *)
(* asleep on the condition or about to test the loop condition with the    *)
(* mutex held.                                                             *)
(*                                                                         *)
(* A definition whose name says what it does wrong is a faulty variant of  *)
(* the one after it, which the specification does not use.                 *)
(***************************************************************************)
EXTENDS Integers, Sequences, FiniteSets

CONSTANTS
  Queues,      (* the queues of the process       *)
  Threads      (* the threads that consume        *)

VARIABLES
  list,        (* list[q]: the entries, oldest first                       *)
  shutdown,    (* shutdown[q]                                              *)
  sleeping     (* sleeping[q]: the threads in uv_cond_wait of queue q      *)

queueVars == <<list, shutdown, sleeping>>

list_queue_init ==
  /\ list = [q \in Queues |-> <<>>]
  /\ shutdown = [q \in Queues |-> FALSE]
  /\ sleeping = [q \in Queues |-> {}]

(* uv_cond_signal n times: each wakes one sleeping thread, if there is one. *)
Signals(q, n) ==
  \E woken \in SUBSET sleeping[q] :
    /\ Cardinality(woken) = n \/ (Cardinality(woken) < n /\ woken = sleeping[q])
    /\ sleeping' = [sleeping EXCEPT ![q] = @ \ woken]

(* Entries enqueued by as many calls in a row; a closed queue takes none. *)
Accepts(q) == ~shutdown[q]

list_queue_enqueue_unsignalled(q, entries) ==
  /\ Accepts(q)
  /\ list' = [list EXCEPT ![q] = @ \o entries]
  /\ UNCHANGED <<shutdown, sleeping>>
list_queue_enqueue(q, entries) ==
  /\ Accepts(q)
  /\ list' = [list EXCEPT ![q] = @ \o entries]
  /\ Signals(q, Len(entries))
  /\ UNCHANGED shutdown

(* list_queue_dequeue by thread t has three ways on from the test of its   *)
(* loop condition: sleep, return false, return the oldest entry.           *)
Inside(q, t) == t \notin sleeping[q]

SleepOn(q, t) ==
  /\ Inside(q, t) /\ list[q] = <<>> /\ ~shutdown[q]
  /\ sleeping' = [sleeping EXCEPT ![q] = @ \cup {t}]
  /\ UNCHANGED <<list, shutdown>>

ReturnsNothing(q, t) ==
  Inside(q, t) /\ list[q] = <<>> /\ shutdown[q] /\ UNCHANGED queueVars

ReturnsOldest(q, t) ==
  /\ Inside(q, t) /\ list[q] # <<>>
  /\ list' = [list EXCEPT ![q] = Tail(@)]
  /\ UNCHANGED <<shutdown, sleeping>>

(* A wait on a condition may also end for no reason. *)
WakeSpuriously(q, t) ==
  /\ t \in sleeping[q]
  /\ sleeping' = [sleeping EXCEPT ![q] = @ \ {t}]
  /\ UNCHANGED <<list, shutdown>>

list_queue_shutdown_signals_nobody(q) ==
  /\ shutdown' = [shutdown EXCEPT ![q] = TRUE]
  /\ UNCHANGED <<list, sleeping>>
list_queue_shutdown(q) ==
  /\ shutdown' = [shutdown EXCEPT ![q] = TRUE]
  /\ sleeping' = [sleeping EXCEPT ![q] = {}]
  /\ UNCHANGED list
==============================================================================
