------------------------------- MODULE Player -------------------------------
(***************************************************************************)
(* The player: the thread that kernel/init.cc creates last shows a cover   *)
(* (kernel/vga.cc), reads the head of a WAVE file and fills a ring of      *)
(* chunks (kernel/list_wave.h), and then races the sound hardware, which   *)
(* plays the ring round and round: it fills each chunk again, from the     *)
(* file, when the hardware has left it (kernel/audio.h).                   *)
(*                                                                         *)
(* A cell of the file is a number or a sample, and the id, the size or the *)
(* fmt header of a chunk of RIFF.  The thread has the file system to       *)
(* itself; only the ring is shared, and a chunk is filled block by block.  *)
(***************************************************************************)
EXTENDS Ext22

CONSTANTS Cover,   \* "travy_boy"
          Songs,   \* the names that could stand for "shar.wav"
          Bitmap,  \* what is read of it, each <<offset, n>>
          N,       \* the chunks of the ring: 16
          Chunk,   \* their size: 4096 bytes
          Pace,    \* bound: what is played at most while the thread's loop
                   \* goes round once
          Samples  \* what the drive was made from: the samples of each song

ASSUME PlayerAssumption ==
  /\ N \in Nat /\ N >= 3
  /\ Chunk \in Nat \ {0}
  /\ Pace \in 1 .. Chunk
  /\ Bitmap \in Seq(Nat \X Nat) /\ Bitmap # << >>

-----------------------------------------------------------------------------
(* What the drive is assumed to hold: a root directory, a cover, and songs *)
(* as list_wave.h takes them to be.                                        *)

\* The cells of a file.
CellsOf(number) ==
  [k \in 1 .. Inode(number).size |->
     BlockAt(Inode(number), (k - 1) \div BlockSize)[1 + ((k - 1) % BlockSize)]]

\* The root directory, and the i-node that has a name there.
RootEntries == EntriesIn([k \in 1 .. RootCells |-> CellsOf(Root)[k]])
NumberOf(name) == FindIn(RootEntries, name)

\* RIFF, the size of what follows, WAVE, fmt, LIST, its size and content, data and
\* its size, and the samples.
IsWave(cells, samples) ==
  /\ samples \in Seq(Int)
  /\ Len(cells) >= 8 /\ cells[6] \in Nat
  /\ Len(cells) = 8 + cells[6] + Len(samples)
  /\ cells[2] = Len(cells) - 2
  /\ \A k \in 1 .. Len(samples) : cells[8 + cells[6] + k] = samples[k]

ASSUME DriveAssumption ==
  /\ \A number \in {Root, NumberOf(Cover)} : Inode(number).size \in Nat
  /\ \A s \in Songs : /\ Inode(NumberOf(s)).size \in Nat
                       /\ IsWave(CellsOf(NumberOf(s)), Samples[s])

VARIABLES at,        \* what the thread does next
          song,      \* the name it uses
          file,      \* the file that is open, and size_of_the_whole_file
          offset,    \* size_of_the_junk, then offset: where the file is read next
          ring,      \* the frames that b_entries names
          index,     \* the chunk that is filled next
          written,   \* what has been filled again, modulo the ring
          seen,      \* hardware_offset
          done,      \* how much of what it is at has been done
          run,       \* the hardware is running
          position,  \* what it plays next
          since,     \* what it has played since the thread looked
          heard,     \* history: how many samples were played in their order,
          noise      \* and whether anything else was

caches == <<blocks, nodes, arr>>
loop == <<index, written, seen>>
hardware == <<run, since, position, heard, noise>>
vars == <<fs, at, song, file, offset, done, loop, ring, hardware>>

Ring == N * Chunk

Init == /\ Mount
        /\ at = "mount"
        /\ song \in Songs
        /\ file = [number |-> 0, size |-> 0]
        /\ offset = 0 /\ index = 0 /\ written = 0 /\ seen = 0 /\ done = 0
        /\ ring = [k \in 0 .. Ring - 1 |-> 0]
        /\ run = FALSE /\ position = 0 /\ since = 0
        /\ heard = 0 /\ noise = FALSE

\* The thread goes on when it has read what it wanted.
Goto(here, there) == Idle /\ at = here /\ at' = there

\* A block that is read for the ring is copied into it.
Fetch ==
  /\ ReadBlock
  /\ ring' = IF at \notin {"fill", "advance"} THEN ring
             ELSE LET first == (IF at = "fill" THEN done - 1 ELSE index) * Chunk
                  IN  [k \in DOMAIN ring |-> IF k \in first .. first + Len(read'.data) - 1
                                             THEN read'.data[k - first + 1] ELSE ring[k]]
  /\ UNCHANGED <<at, song, file, offset, done, loop, hardware>>

-----------------------------------------------------------------------------
\* Mounting reads the root directory twice.
CountEntries ==
  /\ Goto("mount", "count")
  /\ ReadRoot
  /\ UNCHANGED <<caches, song, file, offset, done, loop, ring, hardware>>

ReadEntries ==
  /\ Goto("count", "entries")
  /\ ReadRoot
  /\ UNCHANGED <<caches, song, file, offset, done, loop, ring, hardware>>

Mounted ==
  /\ Goto("entries", "begin")
  /\ SetArray
  /\ UNCHANGED <<blocks, nodes, read, song, file, offset, done, loop, ring, hardware>>

\* spotify() finds the cover; the constructor of WaveParser_list finds the song.
Open(here, there, name) ==
  /\ Goto(here, there)
  /\ Find(name)
  /\ file' = [file EXCEPT !.number = FindName(name)]
  /\ UNCHANGED <<blocks, arr, read, song, offset, done, loop, ring, hardware>>

OpenCover == Open("begin", "cover", Cover)

\* read_bmp(): two headers and the pixels.
ReadCover ==
  /\ Goto("cover", IF done = Len(Bitmap) - 1 THEN "open" ELSE "cover")
  /\ StartRead(file.number, Bitmap[done + 1][1], Bitmap[done + 1][2])
  /\ done' = (done + 1) % Len(Bitmap)
  /\ UNCHANGED <<caches, song, file, offset, loop, ring, hardware>>

OpenSong == Open("open", "ask", song)

\* It reads RIFF, its size, WAVE, the fmt chunk, LIST and its size, and, behind the
\* list, data and its size.
AskField ==
  /\ Goto("ask", "take")
  /\ StartRead(file.number, offset, 1)
  /\ UNCHANGED <<caches, song, file, offset, done, loop, ring, hardware>>

TakeField ==
  LET field == read.data[1]
  IN  /\ Goto("take", IF done = 7 THEN "fill" ELSE "ask")
      /\ file' = IF done = 1 THEN [file EXCEPT !.size = field] ELSE file
      /\ offset' = offset + 1 + (IF done = 5 THEN field ELSE 0)
      /\ done' = (done + 1) % 8
      /\ UNCHANGED <<fs, song, loop, ring, hardware>>

\* It fills the ring; the frames of the chunks are fresh.
FillChunk ==
  /\ done < N
  /\ Goto("fill", "fill")
  /\ StartRead(file.number, offset, Chunk)
  /\ offset' = offset + Chunk
  /\ done' = done + 1
  /\ UNCHANGED <<caches, song, file, loop, ring, hardware>>

\* It looks at the first samples again.
Peek ==
  /\ done = N
  /\ Goto("fill", "start")
  /\ StartRead(file.number, offset - Ring, 2)
  /\ done' = 0
  /\ UNCHANGED <<caches, song, file, offset, loop, ring, hardware>>

\* The rest of setup_for_audio(), up to the RUN bit.
Start ==
  /\ Goto("start", "look")
  /\ run' = TRUE
  /\ UNCHANGED <<fs, song, file, offset, done, loop, ring, since, position, heard, noise>>

-----------------------------------------------------------------------------
(* The loop *)

Look ==
  /\ Goto("look", "judge")
  /\ seen' = position
  /\ since' = 0
  /\ UNCHANGED <<fs, song, file, offset, done, index, written, ring, run, position, heard, noise>>

\* How far the hardware is ahead of what has been filled again.
Behind == (seen - written) % Ring

\* Mutant: the hardware is in the chunk that is to be filled.
JudgeHasty ==
  /\ Goto("judge", IF Behind > 0 THEN "copy" ELSE "end")
  /\ IF Behind > 0 THEN StartRead(file.number, offset, 2) ELSE UNCHANGED read
  /\ UNCHANGED <<caches, song, file, offset, done, loop, ring, hardware>>

\* rebuildData() begins by looking at what comes next, ...
Judge ==
  /\ Goto("judge", IF Behind > Chunk THEN "copy" ELSE "end")
  /\ IF Behind > Chunk THEN StartRead(file.number, offset, 2) ELSE UNCHANGED read
  /\ UNCHANGED <<caches, song, file, offset, done, loop, ring, hardware>>

\* ... then it fills the chunk.
Copy ==
  /\ Goto("copy", "advance")
  /\ StartRead(file.number, offset, Chunk)
  /\ UNCHANGED <<caches, song, file, offset, done, loop, ring, hardware>>

Advance ==
  /\ Goto("advance", "end")
  /\ offset' = offset + Chunk
  /\ index' = (index + 1) % N
  /\ written' = (written + Chunk) % Ring
  /\ UNCHANGED <<fs, song, file, done, seen, ring, hardware>>

\* Mutant: what is in the ring is counted twice.
EndEarly ==
  /\ Goto("end", IF offset + Ring >= file.size THEN "off" ELSE "look")
  /\ run' = (at' = "look")
  /\ UNCHANGED <<fs, song, file, offset, done, loop, ring, since, position, heard, noise>>

\* Debug::shutdown() when all has been read.
End ==
  /\ Goto("end", IF offset >= file.size THEN "off" ELSE "look")
  /\ run' = (at' = "look")
  /\ UNCHANGED <<fs, song, file, offset, done, loop, ring, since, position, heard, noise>>

Thread == \/ Fetch \/ CountEntries \/ ReadEntries \/ Mounted
          \/ OpenCover \/ ReadCover \/ OpenSong \/ AskField \/ TakeField
          \/ FillChunk \/ Peek \/ Start
          \/ Look \/ Judge \/ Copy \/ Advance \/ End

\* What should be heard after k samples: silence when there are no more.
Expected(k) == IF k < Len(Samples[song]) THEN Samples[song][k + 1] ELSE 0

\* The hardware plays a sample.
Play ==
  /\ run /\ since < Pace
  /\ since' = since + 1
  /\ position' = (position + 1) % Ring
  /\ noise' = (noise \/ ring[position] # Expected(heard))
  /\ heard' = IF noise' \/ heard = Len(Samples[song]) THEN heard ELSE heard + 1
  /\ UNCHANGED <<fs, at, song, file, offset, done, loop, ring, run>>

Next == Thread \/ Play

Spec == Init /\ [][Next]_vars

-----------------------------------------------------------------------------
(* What is played are the samples of the song in their order, and then     *)
(* silence: no chunk is filled while it is being played, none is played    *)
(* twice or before it is filled, through caches, blocks of every kind and  *)
(* the wrap of three counters.                                             *)
PlaysInOrder == ~noise

(* The player turns the machine off before it has played all, but what it  *)
(* leaves out was in the ring, or in the eight bytes, here two cells, that *)
(* the size in RIFF does not count.                                        *)
LosesAtMostTheRing ==
  at = "off" => heard + Ring + 2 >= Len(Samples[song])
=============================================================================
