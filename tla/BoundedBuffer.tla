--------------------------- MODULE BoundedBuffer ---------------------------
(***************************************************************************)
(* BoundedBuffer of kernel/bb.h: a ring of N slots guarded by three        *)
(* semaphores.  A semaphore is the atomic one of SemaphoreSpec, which      *)
(* Semaphore implements; everything between two semaphore operations is    *)
(* done one access to a shared member at a time.                           *)
(***************************************************************************)
EXTENDS Naturals, Sequences, SequencesExt

CONSTANTS Producers, Consumers,
          N,         \* the number of slots
          MaxPuts    \* bound: calls of put() by one producer

BufferAssumption == /\ N \in Nat \ {0}
                    /\ MaxPuts \in Nat
                    /\ Producers \cap Consumers = {}

VARIABLES head, n,  \* the members of these names
          data,     \* data[0 .. N - 1]
          sem,      \* the units and the queue of nEmpty, nFull and lock
          blocked,  \* the threads in the queue of a semaphore
          pc,       \* pc[t]: the next step of t in put() or get()
          item,     \* item[t]: the argument of put() or the local out of get()
          puts,     \* history: the items in the order in which put() stored them
          gets      \* history: the items in the order in which get() fetched them

ring == <<head, n, data>>
history == <<puts, gets>>
vars == <<ring, sem, blocked, pc, item, history>>

Users == Producers \cup Consumers
Sems == {"nEmpty", "nFull", "lock"}
Slots == 0 .. N - 1
Empty == <<"none", 0>>
Items == {<<p, k>> : p \in Producers, k \in 1 .. MaxPuts}

Init == /\ head = 0 /\ n = 0
        /\ data = [i \in Slots |-> Empty]
        /\ sem = [s \in Sems |-> [units |-> CASE s = "nEmpty" -> N
                                              [] s = "nFull" -> 0
                                              [] s = "lock" -> 1,
                                  queue |-> << >>]]
        /\ blocked = {}
        /\ pc = [t \in Users |-> "idle"]
        /\ item = [t \in Users |-> Empty]
        /\ puts = << >> /\ gets = << >>

At(t, here, there) == /\ pc[t] = here
                      /\ t \notin blocked
                      /\ pc' = [pc EXCEPT ![t] = there]

\* s.down(): a thread that is blocked goes on at label there once it is woken.
Down(s, t, here, there) ==
  /\ At(t, here, there)
  /\ IF sem[s].units > 0
     THEN /\ sem' = [sem EXCEPT ![s].units = @ - 1]
          /\ UNCHANGED blocked
     ELSE /\ sem' = [sem EXCEPT ![s].queue = Append(@, t)]
          /\ blocked' = blocked \cup {t}
  /\ UNCHANGED <<ring, item, history>>

\* s.up()
Up(s, t, here, there) ==
  /\ At(t, here, there)
  /\ IF sem[s].queue = << >>
     THEN /\ sem' = [sem EXCEPT ![s].units = @ + 1]
          /\ UNCHANGED blocked
     ELSE /\ sem' = [sem EXCEPT ![s].queue = Tail(@)]
          /\ blocked' = blocked \ {Head(sem[s].queue)}
  /\ UNCHANGED <<ring, item, history>>

-----------------------------------------------------------------------------
(* put() *)

CallPut(t) == /\ At(t, "idle", "claim slot")
              /\ item[t][2] < MaxPuts
              /\ item' = [item EXCEPT ![t] = <<t, item[t][2] + 1>>]
              /\ UNCHANGED <<ring, sem, blocked, history>>

ClaimSlot(t) == Down("nEmpty", t, "claim slot", "lock put")

\* Mutant: put() does not lock.
LockPutNot(t) == /\ At(t, "lock put", "store")
                 /\ UNCHANGED <<ring, sem, blocked, item, history>>

LockPut(t) == Down("lock", t, "lock put", "store")

Store(t) == /\ At(t, "store", "grow")
            /\ data' = [data EXCEPT ![(head + n) % N] = item[t]]
            /\ puts' = Append(puts, item[t])
            /\ UNCHANGED <<head, n, sem, blocked, item, gets>>

Grow(t) == /\ At(t, "grow", "unlock put")
           /\ n' = n + 1
           /\ UNCHANGED <<head, data, sem, blocked, item, history>>

UnlockPut(t) == Up("lock", t, "unlock put", "offer")

\* Mutant: the wrong semaphore.
OfferEmpty(t) == Up("nEmpty", t, "offer", "idle")

Offer(t) == Up("nFull", t, "offer", "idle")

-----------------------------------------------------------------------------
(* get() *)

CallGet(t) == /\ At(t, "idle", "claim item")
              /\ UNCHANGED <<ring, sem, blocked, item, history>>

ClaimItem(t) == Down("nFull", t, "claim item", "lock get")

LockGet(t) == Down("lock", t, "lock get", "fetch")

Fetch(t) == /\ At(t, "fetch", "advance")
            /\ item' = [item EXCEPT ![t] = data[head]]
            /\ gets' = Append(gets, data[head])
            /\ UNCHANGED <<ring, sem, blocked, puts>>

Advance(t) == /\ At(t, "advance", "shrink")
              /\ head' = (head + 1) % N
              /\ UNCHANGED <<n, data, sem, blocked, item, history>>

Shrink(t) == /\ At(t, "shrink", "unlock get")
             /\ n' = n - 1
             /\ UNCHANGED <<head, data, sem, blocked, item, history>>

UnlockGet(t) == Up("lock", t, "unlock get", "release slot")

ReleaseSlot(t) == Up("nEmpty", t, "release slot", "idle")

Put(t) == \/ ClaimSlot(t) \/ LockPut(t) \/ Store(t) \/ Grow(t) \/ UnlockPut(t) \/ Offer(t)

Get(t) == \/ ClaimItem(t) \/ LockGet(t) \/ Fetch(t) \/ Advance(t) \/ Shrink(t)
          \/ UnlockGet(t) \/ ReleaseSlot(t)

Next == \/ \E t \in Producers : CallPut(t) \/ Put(t)
        \/ \E t \in Consumers : CallGet(t) \/ Get(t)

Spec == Init /\ [][Next]_vars

\* A call is executed to its end, and a consumer calls again.
FairSpec == /\ Spec
            /\ \A t \in Producers : WF_vars(Put(t))
            /\ \A t \in Consumers : WF_vars(CallGet(t) \/ Get(t))

-----------------------------------------------------------------------------
(* Items leave the buffer in the order in which they entered it, and none  *)
(* is invented, lost or read twice, whatever the threads' interleaving.    *)
FifoOrder == IsPrefix(gets, puts)

(* What is put is got in the end. *)
EveryItemIsGot == \A k \in 1 .. MaxPuts : Len(puts) >= k ~> Len(gets) >= k
=============================================================================
