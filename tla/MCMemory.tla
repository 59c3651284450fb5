------------------------------ MODULE MCMemory ------------------------------
(* The two ways in which memory is given away: frames and pages to address *)
(* spaces, or blocks of a heap to those who call malloc().                 *)
EXTENDS AddressSpaces, TLC

CONSTANTS Ints, Requests, Patience, UserData

VARIABLES user,  \* "spaces" or "heap", the same for ever
          whose, heap, live

H == INSTANCE Heap

ASSUME HeapsAssumed == H!HeapAssumption

MCInit == /\ user \in {"spaces", "heap"} /\ Init /\ H!Init
          /\ (user = "spaces" => whose = "kernel")

Spaces == user = "spaces" /\ Next /\ UNCHANGED <<user, whose, heap, live>>
Blocks == user = "heap" /\ H!Next /\ UNCHANGED <<user, vars>>

MCSpec == MCInit /\ [][Spaces \/ Blocks]_<<user, vars, whose, heap, live>>

\* A page in a table of its own, and one in the table of the interrupt
\* controllers.
TwoPages == {<<1, 1>>, <<2, 2>>}

CoreSymmetry == Permutations(Cores)

(* The views of the heap agree: headers and footers tile it, the list is   *)
(* exactly the available blocks, and the taken ones are those users have.  *)
HeapIntact == H!HeapIntact

(* No block is changed while its user has it, and realloc() returns one    *)
(* with the data of the old.                                               *)
ContentsKept == H!ContentsKept
=============================================================================
