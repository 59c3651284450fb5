--------------------------- MODULE SemaphoreSpec ---------------------------
(***************************************************************************)
(* What a counting semaphore promises: down() takes a unit, or joins a     *)
(* first-in first-out queue when there is none; up() hands its unit to the *)
(* longest waiter, or adds it when nobody waits.                           *)
(***************************************************************************)
EXTENDS Naturals, Sequences, Queues

CONSTANTS Clients,  \* whoever calls down() and up()
          Initial   \* the units there are at first

VARIABLES units,    \* the units nobody has
          queue     \* the clients waiting for one, the longest waiting first

Init == units = Initial /\ queue = << >>

Take == units > 0 /\ units' = units - 1 /\ UNCHANGED queue

Join(t) == /\ units = 0
           /\ ~Contains(queue, t)
           /\ queue' = Append(queue, t)
           /\ UNCHANGED units

Give == \/ queue = << >> /\ units' = units + 1 /\ UNCHANGED queue
        \/ queue # << >> /\ queue' = Tail(queue) /\ UNCHANGED units

Next == Take \/ Give \/ \E t \in Clients : Join(t)

Spec == Init /\ [][Next]_<<units, queue>>
=============================================================================
