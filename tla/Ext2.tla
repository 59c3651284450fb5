-------------------------------- MODULE Ext2 --------------------------------
(***************************************************************************)
(* The file system of programs, kernel/ext2.h and ext2.cc, which is only   *)
(* ever read: i-nodes, directories, symbolic links and the blocks of a     *)
(* file, on a drive that is read in sectors.                               *)
(*                                                                         *)
(* A path is a sequence of names; Ide says what is on the drive.           *)
(***************************************************************************)
EXTENDS Ide, SequencesExt

CONSTANTS BlockSize,
          PerGroup,    \* iNodesPerGroup
          Tables,      \* iNodeTables: the first block of each group's i-nodes
          NodeSize,    \* iNodeSize
          Direct,      \* how many blocks an i-node names itself: 12
          Inline,      \* the longest link that fits into an i-node: 60
          MaxLinks     \* 10

Ext2Assumption ==
  /\ {BlockSize, PerGroup, NodeSize, MaxLinks} \subseteq Nat \ {0}
  /\ BlockSize % SectorSize = 0
  /\ {Direct, Inline} \subseteq Nat

-----------------------------------------------------------------------------
\* get_node(): the data of an i-node.
GetNode(number) ==
  LET index == number - 1
      table == Tables[1 + index \div PerGroup]
  IN  DriveRead(table * BlockSize + (index % PerGroup) * NodeSize, 1)[1]

\* Node::read_block(); files that need more than indirect_1 make it panic.
NodeBlock(node, index) ==
  LET found == IF index < Direct THEN node.direct[index + 1]
               ELSE DriveRead(node.indirect * BlockSize + index - Direct, 1)[1]
  IN  DriveRead(found * BlockSize, BlockSize)

NodeRead(node, offset, n) ==
  LET blocks == [i \in Nat |-> NodeBlock(node, i)]
  IN  ReadAll(blocks, node.size, BlockSize, offset, n)

-----------------------------------------------------------------------------
\* entries() of a directory.
Entries(dir) ==
  LET from[offset \in Nat] ==
        LET entry == NodeRead(dir, offset, 3).data
        IN  IF offset >= dir.size THEN << >>
            ELSE <<[number |-> entry[1], name |-> entry[3]]>> \o from[offset + entry[2]]
  IN  from[0]

\* Node::find(): the last entry with that name counts, 0 if there is none.
NumberOf(dir, name) ==
  FoldLeft(LAMBDA out, entry : IF entry.name = name THEN entry.number ELSE out,
           0, Entries(dir))

\* get_symbol()
Symbol(link) ==
  IF link.size <= Inline THEN link.target ELSE NodeRead(link, 0, link.size).data

\* How a walk ends: at a node, with what my_path keeps of the path if that is a
\* link, without one, or in an ASSERT.
At(node, rest) == [is |-> "node", node |-> node, rest |-> rest]
Missing == [is |-> "nullptr"]
Panic == [is |-> "panic"]

IsLink(found) == found.is = "node" /\ found.node.type = "symlink"

\* Ext2::find() from the root; entries() of what is no directory panics.
Find(path) ==
  LET part(found, i) ==
        IF found.is # "node" \/ IsLink(found) THEN found
        ELSE IF found.node.type # "dir" THEN Panic
        ELSE LET number == NumberOf(found.node, path[i])
             IN  IF number = 0 THEN Missing
                 ELSE At(GetNode(number), SubSeq(path, i + 1, Len(path)))
  IN  FoldLeft(part, At(GetNode(2), << >>), [i \in DOMAIN path |-> i])

\* One round of the loops over symbolic links: the target, and behind it what
\* the path still had, are looked up from the root.
Follow(found) == Find(Symbol(found.node) \o found.rest)

\* The loop of open(), which looks at is_symlink() of what it has found.
Lookup(path) ==
  LET round(found, i) ==
        IF ~IsLink(found) THEN found
        ELSE IF Follow(found) = Missing THEN Panic
        ELSE Follow(found)
      last == FoldLeft(round, Find(path), [i \in 1 .. MaxLinks - 1 |-> i])
  IN  IF IsLink(last) THEN Missing ELSE last
=============================================================================
