------------------------------- MODULE MCFiles -------------------------------
(***************************************************************************)
(* A drive of blocks of six cells for FileSystems.  For the player:        *)
(*                                                                         *)
(*   /cover     a picture                                                  *)
(*   /long      a song that needs double_Node2                             *)
(*   /even      one that ends where a chunk does                           *)
(*   /short     one that does not even fill the ring                       *)
(*                                                                         *)
(* and for the programs:                                                   *)
(*                                                                         *)
(*   /tune      a file of two blocks                                       *)
(*   /sub/note  a file of less than a block                                *)
(*   /way       a link to /sub, so that /way/note is /sub/note             *)
(*   /sub/up    a link to /way/note that does not fit into its i-node      *)
(*   /again     a link to itself                                           *)
(*   /lost      a link to nothing                                          *)
(*   /prog      a program of three segments, one of which is not loaded    *)
(*   /alias     a link to it                                               *)
(*   /bin       a link to /, so that open("/bin/prog") finds the program   *)
(*   /sub/empty a file of no cells                                         *)
(*   /sub/text  a file that is no program                                  *)
(*   /sub/low   a program whose addresses overflow into the kernel         *)
(*   /sub/odd   a program that is entered in the kernel                    *)
(*   /sub/cut   a program that ends within its headers                     *)
(***************************************************************************)
EXTENDS FileSystems

\* Names are numbers, so that every cell of a file or a directory is one.
cover == 101
long == 102
even == 103
short == 104
tune == 105
sub == 106
way == 107
again == 108
lost == 109
prog == 110
alias == 111
bin == 112
note == 113
up == 114
empty == 115
text == 116
low == 117
odd == 118
cut == 119
void == 120

-----------------------------------------------------------------------------
(* The songs                                                               *)

TheSongs == {long, even, short}

TheBitmap == <<<<0, 1>>, <<1, 1>>, <<3, 4>>>>

\* The samples of each song, with numbers of their own.
Sound(first, n) == [i \in 1 .. n |-> first + i]
TheSamples == [s \in TheSongs |-> CASE s = long -> Sound(1000, 38)
                                    [] s = even -> Sound(2000, 20)
                                    [] s = short -> Sound(3000, 7)]

\* The ids of RIFF, WAVE, fmt, LIST and data, what a list contains, and nothing.
id == -1
info == -2
pad == -3

\* RIFF and its size, WAVE, fmt, LIST with its size and content, data and its size.
Wave(s) ==
  LET list == IF s = even THEN << >> ELSE <<info>>
      rest == <<id, id, id, Len(list)>> \o list
              \o <<id, Len(TheSamples[s])>> \o TheSamples[s]
  IN  <<id, Len(rest)>> \o rest

-----------------------------------------------------------------------------
(* The programs                                                            *)

Elf(entry, phoff, phnum) == [entry |-> entry, phoff |-> phoff, phnum |-> phnum]
Segment(type, from, vaddr, filesz, memsz) ==
  [type |-> type, offset |-> from, vaddr |-> vaddr, filesz |-> filesz, memsz |-> memsz]

TheHeaders == 201 :> Elf(16, 1, 3) @@ 202 :> Elf(16, 1, 1) @@ 203 :> Elf(4, 1, 1)
              @@ 204 :> Elf(20, 1, 0) @@ 205 :> Elf(16, 1, 2)
TheSegments == 301 :> Segment(1, 4, 16, 3, 4) @@ 302 :> Segment(2, 0, 8, 2, 2)
               @@ 303 :> Segment(1, 7, 24, 1, 3) @@ 304 :> Segment(1, 0, 120, 2, 10)
TheCode == <<201, 301, 302, 303, 21, 22, 23, 24>>

-----------------------------------------------------------------------------
(* The drive                                                               *)

File(data) == [type |-> "file", data |-> data]
Symlink(data) == [type |-> "symlink", data |-> data]

\* A directory has two entries in a block; the last may reach to its end.
Dir(names) ==
  [type |-> "dir",
   data |-> FlattenSeq([i \in DOMAIN names |->
     IF i % 2 = 1 /\ i = Len(names) THEN <<names[i][1], 6, names[i][2], pad, pad, pad>>
     ELSE <<names[i][1], 3, names[i][2]>>])]

\* The i-nodes 2 .. 21.
Nodes == <<
  Dir(<<<<3, cover>>, <<4, long>>, <<5, even>>, <<6, short>>, <<7, tune>>, <<8, sub>>,
        <<9, way>>, <<10, again>>, <<11, lost>>, <<12, prog>>, <<13, alias>>, <<14, bin>>>>),
  File(<<id, id, pad, 1, 2, 3, 4>>), File(Wave(long)), File(Wave(even)), File(Wave(short)),
  File(<<1, 2, 3, 4, 5, 6, 7, 8, 9>>),
  Dir(<<<<15, note>>, <<16, up>>, <<17, empty>>, <<18, text>>, <<19, low>>, <<20, odd>>,
        <<21, cut>>>>),
  Symlink(<<sub>>), Symlink(<<again>>), Symlink(<<void>>),
  File(TheCode), Symlink(<<prog>>), Symlink(<< >>),
  File(<<11, 12>>), Symlink(<<way, note>>),
  File(<< >>), File(<<25, 26>>), File(<<202, 304>>), File(<<203, 304>>), File(<<205, 301>>)>>

\* Each has twelve blocks: its block of indirect_1, or single_Node2, that of
\* double_Node2, the only one that this refers to, and the data.
Padded(cells, n) == cells \o [i \in 1 .. n - Len(cells) |-> pad]
Begin(k) == 12 * k - 6
TheNode(k) ==
  LET target == IF Nodes[k].type = "symlink" /\ Len(Nodes[k].data) <= 1 THEN Nodes[k].data
                ELSE << >>
  IN  [type |-> Nodes[k].type, size |-> Len(Nodes[k].data), direct |-> <<Begin(k) + 3>>,
       indirect |-> Begin(k), single |-> Begin(k), double |-> Begin(k) + 1, target |-> target]
TheBlocks(k) ==
  LET first == Begin(k) + 3
  IN  [i \in 1 .. 6 |-> first + i] \o Padded(<<Begin(k) + 2>>, 6)
      \o [i \in 1 .. 6 |-> first + 6 + i] \o Padded(Nodes[k].data, 54)

\* The super block, five blocks of i-nodes, which have five each, and the rest.
TheDrive ==
  Padded(<< >>, 6)
  \o FlattenSeq([g \in 1 .. 5 |->
       Padded([i \in 1 .. 5 |-> LET k == 5 * (g - 1) + i - 1
                                IN  IF k \in DOMAIN Nodes THEN TheNode(k) ELSE pad], 6)])
  \o FlattenSeq([k \in DOMAIN Nodes |-> TheBlocks(k)])

TheTables == <<1, 2, 3, 4, 5>>

-----------------------------------------------------------------------------
(* What is asked for                                                       *)

AllPaths == {<<tune>>, <<way, note>>, <<sub, up>>, <<again>>, <<lost>>, <<tune, note>>}

TheContent == 7 :> Nodes[6].data @@ 15 :> Nodes[14].data
TheNames == <<tune>> :> 7 @@ <<way, note>> :> 15 @@ <<sub, up>> :> 15

ThePrograms == <<prog>> :> TheCode

Strings == {<<7>>, <<7, 8>>, <<7, 8, 9>>, <<7, 8, 9, 7>>}
Places == {<<name>> : name \in {prog, alias, bin, again, lost, void}}
          \cup {<<sub, name>> : name \in {empty, text, low, odd, cut}}
          \cup {<< >>, <<bin, prog>>, <<tune, prog>>}
TheCalls == [path : Places, args : SeqOf(Strings, 2), low : {"none", "path", "argument"}]
TheKnownPaths == Places \cup {<<sub>>}

\* The drive is as theorem ReadDelivers of FileProofs needs it.
ASSUME DriveLeads == LookupsLead

-----------------------------------------------------------------------------
\* TLC evaluates a definition once, and what replaces a constant each time.
ABitmap == TheBitmap
ACalls == TheCalls
AContent == TheContent
ADrive == TheDrive
AHeaders == TheHeaders
AKnownPaths == TheKnownPaths
ANames == TheNames
APaths == AllPaths
APrograms == ThePrograms
ASamples == TheSamples
ASegments == TheSegments
ASongs == TheSongs
ATables == TheTables
=============================================================================
