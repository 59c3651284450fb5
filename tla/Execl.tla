-------------------------------- MODULE Execl --------------------------------
(***************************************************************************)
(* execl() of kernel/sys.cc and ELF::load() of elf.cc: a process finds a   *)
(* program, checks it, copies the arguments out of its memory, gives up    *)
(* that memory and everything it has semaphores and children for, and then *)
(* looks for the program once more, to load it.                            *)
(*                                                                         *)
(* Memory is made of bytes from UserBase, 0x80000000.  A cell of a file    *)
(* may be a whole ELF header or program header: Headers and Segments say   *)
(* which cells are, and what they contain.                                 *)
(***************************************************************************)
EXTENDS Ext2

CONSTANTS UserBase, Top, \* user addresses are UserBase .. Top - 1
          StackTop,      \* 0xefffe000
          AddressWord,   \* 2^32
          Headers,       \* the entry, phoff and phnum of an ElfHeader
          Segments,      \* the type, offset, vaddr, filesz and memsz of a ProgramHeader
          Calls,         \* the arguments: path, args, and what is not in user space
          KnownPaths,    \* those that are asked for, and those that links contain
          Programs       \* what is in each file that a path leads to

ExeclAssumption ==
  /\ {UserBase, Top, StackTop, AddressWord} \subseteq Nat /\ StackTop \in UserBase .. Top - 1
  /\ \A c \in Calls : c.path \in KnownPaths
  /\ \A c \in DOMAIN Headers : Headers[c].phnum \in Nat

VARIABLES stage,    \* where execl() is
          request,  \* its arguments
          found,    \* inode
          hops,     \* sym_count
          memory,   \* the user memory of the process
          held,     \* whether its semaphores and children are those it had
          sp,       \* the local of exec()
          hdr,      \* the local of ELF::load()
          next      \* the local i of ELF::load()

locals == <<request, found, hops, sp, hdr, next>>
vars == <<stage, locals, memory, held>>

Old == -1    \* a byte of the old program
Junk == -2   \* what lies behind a string on the heap
Part == -3   \* the upper bytes of a word, whose value is at its address
NotElf == [entry |-> 0, phoff |-> 0, phnum |-> 0]

\* What find() makes of each path, and what is in the node: the drive is never
\* written.
Inode(path, look) ==
  [path |-> path, is |-> look.is,
   type |-> IF look.is = "node" THEN look.node.type ELSE "none",
   target |-> IF IsLink(look) THEN Symbol(look.node) ELSE << >>,
   data |-> IF look.is = "node" THEN NodeRead(look.node, 0, look.node.size).data ELSE << >>]

Inodes == {Inode(path, Find(path)) : path \in KnownPaths}

NoInode == [path |-> << >>, is |-> "nullptr", type |-> "none", target |-> << >>, data |-> << >>]

Addresses == UserBase .. (Top - 1)

Init == /\ stage = "user" /\ request \in Calls
        /\ found = NoInode /\ hops = 0
        /\ memory = [a \in Addresses |-> Old] /\ held = TRUE
        /\ sp = 0 /\ hdr = NotElf /\ next = 0

Step(from, to) == stage = from /\ stage' = to

-----------------------------------------------------------------------------
(* Case 9 of sysHandler() *)

\* The find() of the path.
Call(inode) ==
  /\ request.path = inode.path
  /\ Step("user", IF request.low = "path" \/ inode.is = "nullptr" THEN "failed"
                  ELSE IF inode.is = "panic" THEN "panic" ELSE "follow")
  /\ found' = inode
  /\ hops' = 1
  /\ UNCHANGED <<request, memory, held, sp, hdr, next>>

Link(inode) == inode.type = "symlink"

\* The find() of what a link contains; what the path says behind it is dropped, and
\* a null reference is looked into.
FollowLink(inode) ==
  /\ Link(found) /\ hops < MaxLinks
  /\ found.target = inode.path
  /\ Step("follow", IF inode.is = "node" THEN "follow" ELSE "panic")
  /\ found' = inode
  /\ hops' = hops + 1
  /\ UNCHANGED <<request, memory, held, sp, hdr, next>>

TooManyLinks == /\ Step("follow", "failed")
                /\ Link(found) /\ hops >= MaxLinks
                /\ UNCHANGED <<locals, memory, held>>

\* read_all() of an i-node.
FileRead(inode, offset, n) ==
  SubSeq(inode.data, offset + 1, Least(offset + n, Len(inode.data)))

\* The headers that a read may leave in the buffer, data being what it reads; of
\* an empty file it leaves what the heap had there.
HeadersIn(data) ==
  IF data = << >> THEN {Headers[c] : c \in DOMAIN Headers} \cup {NotElf}
  ELSE IF data[1] \in DOMAIN Headers THEN {Headers[data[1]]} ELSE {NotElf}

HeadersOf(inode) == HeadersIn(FileRead(inode, 0, 1))

\* Other i-nodes, which are directories, begin with the number of an i-node; a
\* header, with what the code takes for its magic.
OnlyFilesHaveHeaders ==
  \A inode \in Inodes :
    inode.is \notin {"nullptr", "panic"} /\ inode.type \notin {"file", "symlink"} =>
      \A h \in HeadersOf(inode) : h.entry < UserBase



\* read() of a program header, whose ASSERT wants all of it.
SegmentIn(data) ==
  IF data # << >> /\ data[1] \in DOMAIN Segments THEN Segments[data[1]] ELSE Panic

SegmentAt(inode, offset) == SegmentIn(FileRead(inode, offset, 1))

InUserSpace(s) == (s.vaddr + s.memsz) % AddressWord >= UserBase

\* Only the first program header is looked at, as often as there are headers.
CheckProgram ==
  /\ ~Link(found)
  /\ \E h \in HeadersOf(found) : \E s \in {SegmentAt(found, h.phoff)} :
       Step("follow", IF h.entry < UserBase THEN "failed"
                      ELSE IF h.phnum = 0 THEN "arguments"
                      ELSE IF s = Panic THEN "panic"
                      ELSE IF InUserSpace(s) THEN "arguments" ELSE "failed")
  /\ UNCHANGED <<locals, memory, held>>

\* Mutant: the memory is given up before the arguments are checked.
ClearThenCopy == /\ Step("arguments", IF request.low = "argument" THEN "failed" ELSE "clear")
                 /\ memory' = [a \in Addresses |-> 0]
                 /\ UNCHANGED <<locals, held>>

\* The arguments and the path are copied to the heap.
CopyArguments == /\ Step("arguments", IF request.low = "argument" THEN "failed" ELSE "clear")
                 /\ UNCHANGED <<locals, memory, held>>

\* clear_private(), after which pages are zero; the tables are cleared, too.
Clear == /\ Step("clear", "exec")
         /\ memory' = [a \in Addresses |-> 0]
         /\ held' = FALSE
         /\ UNCHANGED locals

-----------------------------------------------------------------------------
(* SYS::exec() *)

\* Up to the next multiple of 4, at least one more.
Pad(n) == n + 4 - (n % 4)

TotalSize(args) ==
  Pad(4 + FoldLeft(LAMBDA size, arg : Pad(size + 4 + Len(arg)), 8, args))

WordBytes(value) == <<value, Part, Part, Part>>

\* Mutant: the strings are stored without what ends them.
StringUnpadded(arg) == arg \o [i \in 1 .. (Pad(Len(arg)) - Len(arg)) |-> Junk]

String(arg) == arg \o <<0>> \o [i \in 1 .. (Pad(Len(arg)) - Len(arg) - 1) |-> Junk]

\* argc, argv, the pointers that argv points to, and the strings.
ArgumentsAt(at, args) ==
  LET strings == [i \in DOMAIN args |-> String(args[i])]
      pointers == [i \in DOMAIN args |->
                     WordBytes(at + 8 + 4 * Len(args) + Len(FlattenSeq(SubSeq(strings, 1, i - 1))))]
  IN  WordBytes(Len(args)) \o WordBytes(at + 8) \o FlattenSeq(pointers) \o FlattenSeq(strings)

Stored(bytes, at) ==
  [a \in Addresses |-> IF a \in at .. (at + Len(bytes) - 1) THEN bytes[a - at + 1]
                       ELSE memory[a]]

\* The file is found again; what is no regular file, or still a link, is refused.
Exec(inode) ==
  /\ request.path = inode.path
  /\ found' = inode
  /\ \/ /\ Step("exec", "load")
        /\ inode.type = "file"
        /\ sp' = StackTop - TotalSize(request.args) \div 4
        /\ memory' = Stored(ArgumentsAt(sp', request.args), sp')
     \/ /\ Step("exec", "failed")
        /\ inode.type # "file"
        /\ UNCHANGED <<sp, memory>>
  /\ UNCHANGED <<request, hops, held, hdr, next>>

-----------------------------------------------------------------------------
(* ELF::load() *)

LoadHeader == /\ Step("load", IF found.data = << >> THEN "panic" ELSE "segments")
              /\ hdr' \in HeadersOf(found)
              /\ next' = 0
              /\ UNCHANGED <<request, found, hops, sp, memory, held>>

SegmentNumber(n) == SegmentAt(found, hdr.phoff + n)

\* What the segment has in memory, zero where the file has nothing of it.
SegmentBytes(inode, s) ==
  FileRead(inode, s.offset, s.filesz) \o [i \in 1 .. (s.memsz - s.filesz) |-> 0]

LoadSegment ==
  /\ stage = "segments" /\ next < hdr.phnum
  /\ next' = next + 1
  /\ \E s \in {SegmentNumber(next)} :
       \/ /\ s = Panic
          /\ stage' = "panic" /\ UNCHANGED memory
       \/ /\ s # Panic
          /\ memory' = IF s.type = 1 THEN Stored(SegmentBytes(found, s), s.vaddr) ELSE memory
          /\ UNCHANGED stage
  /\ UNCHANGED <<request, found, hops, held, sp, hdr>>

\* switchToUser()
Start == /\ Step("segments", "running")
         /\ next = hdr.phnum
         /\ UNCHANGED <<locals, memory, held>>

\* With and without a find().
Finding(inode) == Call(inode) \/ FollowLink(inode) \/ Exec(inode)

Loading == \/ TooManyLinks \/ CheckProgram \/ CopyArguments \/ Clear
           \/ LoadHeader \/ LoadSegment \/ Start

Next == (\E inode \in Inodes : Finding(inode)) \/ Loading

Spec == Init /\ [][Next]_vars

-----------------------------------------------------------------------------
\* What main(argc, argv) and its C library read.
WordAt(a) == IF \A i \in 1 .. 3 : memory[a + i] = Part THEN memory[a] ELSE Junk

ReadsString(a, string) == /\ \A i \in DOMAIN string : memory[a + i - 1] = string[i]
                          /\ memory[a + Len(string)] = 0

(* A program that is started finds its arguments where main() looks for    *)
(* them and its segments where it was linked to, what the file does not    *)
(* hold of them zero, and nothing is left of the program before it.        *)
StartsTheProgram ==
  stage = "running" =>
    LET cells == Programs[request.path]
        header == Headers[cells[1]]
        argc == WordAt(sp)
        argv == WordAt(sp + 4)
    IN  /\ hdr.entry = header.entry
        /\ \A n \in 0 .. (header.phnum - 1) :
             LET s == Segments[cells[1 + header.phoff + n]]
             IN  s.type = 1 => \A i \in 0 .. (s.memsz - 1) :
                   memory[s.vaddr + i] = IF i < s.filesz THEN cells[1 + s.offset + i] ELSE 0
        /\ argc = Len(request.args)
        /\ \A i \in 1 .. argc : ReadsString(WordAt(argv + 4 * (i - 1)), request.args[i])
        /\ \A a \in Addresses : memory[a] # Old

(* An execl() that returns has an error to report to the program that      *)
(* called it, and so must have left it as it was.  The paths of links are  *)
(* excepted: exec() refuses what was found behind one when the memory is   *)
(* already gone.                                                           *)
FailureLeavesTheCaller ==
  stage = "failed" /\ ~Link(found) =>
    held /\ \A a \in Addresses : memory[a] = Old
=============================================================================
