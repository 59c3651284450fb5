-------------------------------- MODULE Heap --------------------------------
(***************************************************************************)
(* The kernel heap of kernel/heap.cc: an array of ints tiled by blocks     *)
(* that carry their size in a header and a footer, positive when available *)
(* and negative when taken.  Available blocks are on a doubly linked list  *)
(* whose links are their second and third ints; index 0 ends it.           *)
(*                                                                         *)
(* malloc and free hold a BlockingLock for all they do, so each is a step. *)
(* What the owner of a block writes into it is UserData.                   *)
(*                                                                         *)
(* The heap of programs, t0.dir/sbin/heap.c, is made of the same blocks    *)
(* and the same list.  It has one user, takes the first block that fits,   *)
(* and has a realloc.                                                      *)
(***************************************************************************)
EXTENDS Integers, Sequences, FiniteSets, FiniteSetsExt

CONSTANTS Ints,      \* len: the ints of the heap
          Requests,  \* the arguments of malloc, in bytes
          Patience,  \* how many blocks that fit malloc looks at: 20
          UserData   \* an int that users write

HeapAssumption == /\ Ints \in Nat /\ Ints >= 8
                  /\ Requests \subseteq Nat \ {0}
                  /\ Patience \in Nat \ {0}
                  /\ UserData \in Int

VARIABLES whose, \* "kernel" or "program": which of the two heaps this is
          heap,  \* the static variables: [array, avail]
          live   \* history: the blocks users have, [at, bytes]

vars == <<whose, heap, live>>

Abs(x) == IF x < 0 THEN -x ELSE x

\* size(), footerFromHeader(), left(), right(), next(), prev() on heap h
Size(h, i) == Abs(h.array[i])
Footer(h, i) == i + Size(h, i) - 1
Left(h, i) == i - 1 - Size(h, i - 1) + 1
Right(h, i) == i + Size(h, i)
NextOf(h, i) == h.array[i + 1]
PrevOf(h, i) == h.array[i + 2]
IsAvail(h, i) == h.array[i] > 0
IsTaken(h, i) == h.array[i] < 0

SetNext(h, i, x) == [h EXCEPT !.array[i + 1] = x]
SetPrev(h, i, x) == IF i = 0 THEN h ELSE [h EXCEPT !.array[i + 2] = x]

\* remove(): unlink an available block.
Remove(h, i) ==
  LET unlinked == IF PrevOf(h, i) = 0
                  THEN [h EXCEPT !.avail = NextOf(h, i)]
                  ELSE SetNext(h, PrevOf(h, i), NextOf(h, i))
  IN  SetPrev(unlinked, NextOf(h, i), PrevOf(h, i))

\* makeAvail(): mark a block and put it at the head of the list.
MakeAvail(h, i, ints) ==
  LET marked == [h EXCEPT !.array[i] = ints, !.array[i + ints - 1] = ints]
      linked == SetPrev(SetNext(marked, i, h.avail), i, 0)
  IN  [SetPrev(linked, h.avail, i) EXCEPT !.avail = i]

MakeTaken(h, i, ints) ==
  [h EXCEPT !.array[i] = -ints, !.array[i + ints - 1] = -ints]

\* heapInit(), before it allocates theLock.
Init == /\ whose \in {"kernel", "program"}
        /\ heap = LET raw == [array |-> [i \in 0 .. Ints - 1 |-> 0], avail |-> 0]
                  IN  MakeTaken(MakeAvail(MakeTaken(raw, 0, 2), 2, Ints - 4), Ints - 2, 2)
        /\ live = {}

-----------------------------------------------------------------------------
\* Where the list leads, link by link; 0 from its end on.
FreeList ==
  LET link[k \in 1 .. Ints \div 2] ==
        IF k = 1 THEN heap.avail
        ELSE LET i == link[k - 1] IN IF i \in 1 .. Ints - 1 THEN NextOf(heap, i) ELSE 0
  IN  link

\* Mutant: a header is forgotten in the size.
IntsForHeader(bytes) == Max({((bytes + 3) \div 4) + 1, 4})

\* The size of the block that a request needs.
IntsFor(bytes) == Max({((bytes + 3) \div 4) + 2, 4})

\* The places in the list of the blocks that malloc compares: the first that fit.
Candidates(ints) ==
  LET list == FreeList
      fits == {k \in DOMAIN list : list[k] # 0 /\ Size(heap, list[k]) >= ints}
  IN  {k \in fits : Cardinality({j \in fits : j < k}) < Patience}

\* The first of the smallest of them.
BestFit(c) ==
  LET list == FreeList
      smallest == Min({Size(heap, list[k]) : k \in c})
  IN  list[Min({k \in c : Size(heap, list[k]) = smallest})]

\* The program's heap takes the first block that fits.
FirstFit(c) == FreeList[Min(c)]

Fit(c) == IF whose = "kernel" THEN BestFit(c) ELSE FirstFit(c)

\* Mutant: a rest that is too small for a block of its own is split off.
CarveAlways(h, i, ints) ==
  LET extra == Size(h, i) - ints
  IN  IF extra >= 3
      THEN MakeAvail(MakeTaken(Remove(h, i), i, ints), i + ints, extra)
      ELSE MakeTaken(Remove(h, i), i, Size(h, i))

\* Mutant: the block stays on the list.
CarveKeepsList(h, i, ints) ==
  LET extra == Size(h, i) - ints
  IN  IF extra >= 4
      THEN MakeAvail(MakeTaken(h, i, ints), i + ints, extra)
      ELSE MakeTaken(h, i, Size(h, i))

\* Take block i off the list and split off what is not needed.
Carve(h, i, ints) ==
  LET extra == Size(h, i) - ints
  IN  IF extra >= 4
      THEN MakeAvail(MakeTaken(Remove(h, i), i, ints), i + ints, extra)
      ELSE MakeTaken(Remove(h, i), i, Size(h, i))

\* How many ints so many bytes need.
InInts(bytes) == (bytes + 3) \div 4

\* The user fills the part of block i that begins behind the ints it has filled.
Fill(h, i, filled, bytes) ==
  [h EXCEPT !.array = [j \in DOMAIN @ |->
     IF j \in i + filled + 1 .. i + InInts(bytes) THEN UserData ELSE @[j]]]

Malloc(bytes) ==
  LET ints == IntsFor(bytes)
      c == Candidates(ints)
      new == Fit(c)
  IN  /\ c # {}
      /\ heap' = Fill(Carve(heap, new, ints), new, 0, bytes)
      /\ live' = live \cup {[at |-> new, bytes |-> bytes]}
      /\ UNCHANGED whose

\* free(): the block and its available neighbours become one.
Join(h, i) ==
  LET l == Left(h, i)
      r == Right(h, i)
      start == IF IsAvail(h, l) THEN l ELSE i
      end == IF IsAvail(h, r) THEN Right(h, r) ELSE r
      withoutLeft == IF IsAvail(h, l) THEN Remove(h, l) ELSE h
      withoutBoth == IF IsAvail(h, r) THEN Remove(withoutLeft, r) ELSE withoutLeft
  IN  MakeAvail(withoutBoth, start, end - start)

Free(block) ==
  /\ IsTaken(heap, block.at)
  /\ heap' = Join(heap, block.at)
  /\ live' = live \ {block}
  /\ UNCHANGED whose

-----------------------------------------------------------------------------
(* realloc() of the program's heap *)

\* memcpy() of as many bytes as both have, the header and footer of the old block
\* counted in.
Copied(h, from, to, bytes) ==
  [h EXCEPT !.array = [j \in DOMAIN @ |->
     IF j - to \in 1 .. Min({InInts(bytes), Size(h, from)}) THEN @[from + j - to] ELSE @[j]]]

\* Mutant: the old block is given back before it is copied.
ReallocFreesFirst(block, bytes) ==
  LET ints == IntsFor(bytes)
      c == Candidates(ints)
      new == Fit(c)
      copied == Copied(Join(Carve(heap, new, ints), block.at), block.at, new, bytes)
  IN  /\ whose = "program"
      /\ c # {}
      /\ heap' = Fill(copied, new, InInts(block.bytes), bytes)
      /\ live' = (live \ {block}) \cup {[at |-> new, bytes |-> bytes]}
      /\ UNCHANGED whose

Realloc(block, bytes) ==
  LET ints == IntsFor(bytes)
      c == Candidates(ints)
      new == Fit(c)
      copied == Copied(Carve(heap, new, ints), block.at, new, bytes)
  IN  /\ whose = "program"
      /\ c # {}
      /\ heap' = Fill(Join(copied, block.at), new, InInts(block.bytes), bytes)
      /\ live' = (live \ {block}) \cup {[at |-> new, bytes |-> bytes]}
      /\ UNCHANGED whose

\* Without a block that fits, the old one is freed all the same.
ReallocFails(block, bytes) ==
  /\ whose = "program"
  /\ Candidates(IntsFor(bytes)) = {}
  /\ heap' = Join(heap, block.at)
  /\ live' = live \ {block}
  /\ UNCHANGED whose

Next == \/ \E bytes \in Requests : Malloc(bytes)
        \/ \E block \in live : \/ Free(block)
                               \/ \E bytes \in Requests : \/ Realloc(block, bytes)
                                                         \/ ReallocFails(block, bytes)

Spec == Init /\ [][Next]_vars

-----------------------------------------------------------------------------
\* The headers that a walk from the left end to the right finds.
Blocks ==
  LET walk[k \in 0 .. Ints \div 2] ==
        IF k = 0 THEN 0 ELSE LET i == walk[k - 1] IN IF i < Ints THEN Right(heap, i) ELSE i
  IN  {walk[k] : k \in 0 .. Ints \div 2} \cap 0 .. Ints - 1

\* Headers and footers tile the array without gap or overlap.
Tiled(blocks) ==
  \A i \in blocks : /\ Size(heap, i) >= 2
                    /\ Right(heap, i) \in blocks \cup {Ints}
                    /\ heap.array[Footer(heap, i)] = heap.array[i]

\* The list has every available block once, and its back links are right.
ListExact(blocks) ==
  LET list == FreeList
  IN  /\ {list[k] : k \in DOMAIN list} \ {0} = {i \in blocks : IsAvail(heap, i)}
      /\ \A k \in DOMAIN list : list[k] # 0 =>
           PrevOf(heap, list[k]) = (IF k = 1 THEN 0 ELSE list[k - 1])

\* No two available blocks are neighbours.
Coalesced(blocks) == \A i \in blocks : IsAvail(heap, i) => IsTaken(heap, Right(heap, i))

\* The taken blocks are the two at the ends and those that users have, and each
\* has room for what was asked for: nothing leaks and nothing has two users.
LiveBlocksTaken(blocks) ==
  /\ {b.at : b \in live} \cup {0, Ints - 2} = {i \in blocks : IsTaken(heap, i)}
  /\ \A b, c \in live : b.at = c.at => b = c
  /\ \A b \in live : b.bytes <= 4 * (Size(heap, b.at) - 2)

(* Whatever users write into their blocks, the views of the heap agree:    *)
(* headers and footers tile the array, the list is exactly the available   *)
(* blocks, freed neighbours are joined, so that when all is freed there is *)
(* one block again, and the taken blocks are those that users have.        *)
HeapIntact ==
  LET blocks == Blocks
  IN  Tiled(blocks) /\ ListExact(blocks) /\ Coalesced(blocks) /\ LiveBlocksTaken(blocks)

(* No block is changed while its user has it, and realloc() returns one    *)
(* with the data of the old.                                               *)
ContentsKept ==
  [][\A b \in live' : \A j \in 1 .. InInts(b.bytes) :
       heap'.array[b.at + j] = UserData]_vars

=============================================================================
