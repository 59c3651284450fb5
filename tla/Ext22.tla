-------------------------------- MODULE Ext22 --------------------------------
(***************************************************************************)
(* The file system of the player, kernel/Ext22.h and Ext22.cc: it keeps    *)
(* blocks of files and Node2 objects in two set-associative caches, whose  *)
(* least recently used entry makes room.                                   *)
(*                                                                         *)
(* Both caches are guarded by BlockingLocks, and one thread uses them: it  *)
(* gets one block in a step.  The Node2 of a directory is only ever the    *)
(* root's, which is in no cache.                                           *)
(***************************************************************************)
EXTENDS Ide, SequencesExt, FiniteSetsExt

CONSTANTS BlockSize,
          PerGroup,  \* number_of_iNode2s_in_groups
          Tables,    \* starting_block_address_of_table of each group
          NodeSize,  \* 128
          Direct,    \* how many blocks an i-node names itself: 12
          Sets, Ways, LruWord,              \* of BlockCache: 1024, 32, 2^16
          NodeSets, NodeWays, NodeLruWord   \* of Node2Cache: 512, 4, 2^8

ASSUME Ext22Assumption ==
  /\ {BlockSize, PerGroup, NodeSize, Sets, Ways, LruWord, NodeSets, NodeWays, NodeLruWord}
       \subseteq Nat \ {0}
  /\ Direct \in Nat

VARIABLES blocks,  \* the BlockCache
          nodes,   \* the Node2Cache
          read,    \* the last read_all(); left is what it has still to read
          arr      \* the DirectoryArray of the root

fs == <<blocks, nodes, read, arr>>

\* The i-node that the constructor of Node2 reads.
Inode(number) ==
  LET index == number - 1
  IN  Cell(Tables[1 + index \div PerGroup] * BlockSize + (index % PerGroup) * NodeSize)

-----------------------------------------------------------------------------
(* BlockCache *)

\* An indirect block has as many block numbers as it has cells.
Pointer(block, i) == Cell(block * BlockSize + i)

\* read_block(); larger files would need triple_Node2.
BlockAt(inode, n) ==
  LET single == n - Direct
      double == single - BlockSize
      block == IF single < 0 THEN inode.direct[n + 1]
               ELSE IF double < 0 THEN Pointer(inode.single, single)
               ELSE Pointer(Pointer(inode.double, double \div BlockSize), double % BlockSize)
  IN  DriveRead(block * BlockSize, BlockSize)

NoBlock == [valid |-> FALSE, lru |-> 0, number |-> 0, block |-> 0, data |-> << >>]

\* The first line with the least lru.
Oldest(line) == Min({i \in DOMAIN line : \A j \in DOMAIN line : line[i].lru <= line[j].lru})

\* Where miss() makes room.
Victim(line) ==
  LET unused == {i \in DOMAIN line : ~line[i].valid}
  IN  IF unused # {} THEN Min(unused) ELSE Oldest(line)

Hit(entry, number, n) == entry.valid /\ entry.number = number /\ entry.block = n

\* Mutant: block_num is left as it was.
FilledInPart(entry, lru, number, n, data) ==
  [entry EXCEPT !.valid = TRUE, !.lru = lru, !.number = number, !.data = data]

\* What miss() makes of the entry.
Filled(entry, lru, number, n, data) ==
  [valid |-> TRUE, lru |-> lru, number |-> number, block |-> n, data |-> data]

Line(n) == blocks.lines[n % Sets]

\* Where get() has block n of the file with that number in the end.
Way(number, n) ==
  LET hits == {i \in DOMAIN Line(n) : Hit(Line(n)[i], number, n)}
  IN  IF hits # {} THEN Min(hits) ELSE Victim(Line(n))

\* What is there then.
Got(number, n, lru) ==
  LET entry == Line(n)[Way(number, n)]
  IN  IF Hit(entry, number, n) THEN [entry EXCEPT !.lru = lru]
      ELSE Filled(entry, lru, number, n, BlockAt(Inode(number), n))

-----------------------------------------------------------------------------
(* read_all() of a Node2 *)

Idle == read.left = 0

\* At the end of the file and behind it, nothing is read.
StartRead(number, offset, n) ==
  LET size == Inode(number).size
  IN  read' = [number |-> number, offset |-> offset, data |-> << >>,
               left |-> IF offset > size THEN 0 ELSE Least(n, size - offset)]

\* read(): some of one block.
ReadBlock ==
  LET n == read.offset \div BlockSize
      start == read.offset % BlockSize
      actual == Least(BlockSize - start, read.left)
      lru == (blocks.lru + 1) % LruWord
  IN  /\ ~Idle
      /\ \E entry \in {Got(read.number, n, lru)} :
           /\ blocks' = [lru |-> lru,
                         lines |-> [blocks.lines EXCEPT ![n % Sets][Way(read.number, n)] = entry]]
           /\ read' = [read EXCEPT !.offset = @ + actual, !.left = @ - actual,
                         !.data = @ \o SubSeq(entry.data, start + 1, start + actual)]
      /\ UNCHANGED <<nodes, arr>>

-----------------------------------------------------------------------------
(* The root directory *)

Root == 2

\* entry_count() and set_array() read all blocks.
RootCells == (Inode(Root).size \div BlockSize) * BlockSize
ReadRoot == StartRead(Root, 0, RootCells)

\* The last entry of a block reaches to its end.  put() would fail its ASSERT if an
\* entry was not used.
EntriesIn(data) ==
  LET from[at \in Nat] ==
        IF at >= Len(data) THEN << >>
        ELSE <<[number |-> data[at + 1], name |-> data[at + 3]]>> \o from[at + data[at + 2]]
  IN  from[0]

SetArray == arr' = EntriesIn(read.data)

\* find_name(): the first entry with that name, 0 if there is none.
FindIn(entries, name) ==
  LET found == {i \in DOMAIN entries : entries[i].name = name}
  IN  IF found = {} THEN 0 ELSE entries[Min(found)].number

FindName(name) == FindIn(arr, name)

-----------------------------------------------------------------------------
(* Node2Cache *)

NoNode == [valid |-> FALSE, lru |-> 0, number |-> 0]

\* get() and miss(), to which an invalid line is an old one; a Node2 is known by
\* its number.
GetNode2(number) ==
  LET lru == (nodes.lru + 1) % NodeLruWord
      set == number % NodeSets
      line == nodes.lines[set]
      hits == {i \in DOMAIN line : line[i].valid /\ line[i].number = number}
      way == IF hits # {} THEN Min(hits) ELSE Oldest(line)
      entry == [valid |-> TRUE, lru |-> lru, number |-> number]
  IN  nodes' = [lru |-> lru, lines |-> [nodes.lines EXCEPT ![set][way] = entry]]

\* find() in the root directory, of something that is there.
Find(name) == GetNode2(FindName(name))

\* The constructors, before the root's Node2 is made.
Mount ==
  /\ blocks = [lru |-> 0, lines |-> [set \in 0 .. Sets - 1 |-> [i \in 1 .. Ways |-> NoBlock]]]
  /\ nodes = [lru |-> 0,
              lines |-> [set \in 0 .. NodeSets - 1 |-> [i \in 1 .. NodeWays |-> NoNode]]]
  /\ read = [number |-> 0, offset |-> 0, data |-> << >>, left |-> 0]
  /\ arr = << >>

(* The cache never lies: what a valid entry holds is that block of that    *)
(* file, and no block is in two places.                                    *)
CacheExact ==
  \A set \in 0 .. Sets - 1, i \in 1 .. Ways :
    LET entry == blocks.lines[set][i]
    IN  entry.valid =>
          /\ entry.block % Sets = set
          /\ entry.data = BlockAt(Inode(entry.number), entry.block)
          /\ \A j \in (1 .. Ways) \ {i} :
               LET other == blocks.lines[set][j]
               IN  <<other.number, other.block>> # <<entry.number, entry.block>> \/ ~other.valid
=============================================================================
