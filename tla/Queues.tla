------------------------------- MODULE Queues -------------------------------
(***************************************************************************)
(* The members of a Queue (kernel/queue.h), a linked list that is added to *)
(* at its end and removed from at its head, as a sequence.                 *)
(***************************************************************************)
EXTENDS Naturals, Sequences

Contains(queue, t) == \E i \in DOMAIN queue : queue[i] = t

NoRepeats(queue) == \A i, j \in DOMAIN queue : queue[i] = queue[j] => i = j
=============================================================================
