------------------------------- MODULE MCBoot -------------------------------
EXTENDS Boot

Processor(n) == [type |-> 0, processor |-> n]
Other == [type |-> 1, processor |-> 3]
Tail0 == {[type |-> 9, processor |-> 2], Processor(2)}

\* The base processor first, with and without others, or not first.
Tables == {<<Processor(0), Processor(1), Processor(2), Other>>,
           <<Processor(0), Other, Processor(1)>>,
           <<Processor(0)>>,
           <<Other, Processor(0), Processor(1)>>,
           <<Processor(1), Processor(0), Processor(2)>>}

\* Processors numbered in a row and with a gap; disks from smaller than the
\* kernel to larger than memory; every place and form of an answer.
MCMachines ==
  [cores : {{0, 1, 2}, {0, 2}}, table : Tables, behind : Tail0, sectors : {6},
   rsd : {{"rom"}}, below : {15}, above : {4}, answer : {{"ax", "cx"}}]
  \cup
  [cores : {{0, 1}}, table : {<<Processor(0), Processor(1)>>}, behind : {Other},
   sectors : {1, 3, 5, 13, 14, 15, 17, 20}, rsd : SUBSET {"rom", "ebda"},
   below : {7}, above : {0}, answer : {{"ax"}, {"cx"}, {"ax", "cx"}}]
  \cup
  [cores : {{0}}, table : {<<Processor(0)>>}, behind : {Other}, sectors : {6},
   rsd : {{"ebda"}}, below : {15, 14}, above : {4}, answer : {{"ax"}, {"cx"}}]
=============================================================================
