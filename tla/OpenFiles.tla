------------------------------ MODULE OpenFiles ------------------------------
(***************************************************************************)
(* open(), read(), seek(), len() and close() of kernel/sys.cc on the files *)
(* of kernel/file.h.  fork() makes parent and child share a File, whose    *)
(* offset is atomic although read() looks at it up to four times.          *)
(*                                                                         *)
(* A process has one thread, so its table has one user.  The references    *)
(* that keep a File alive are those of module Processes.                   *)
(***************************************************************************)
EXTENDS Ext2, FiniteSets, FiniteSetsExt

CONSTANTS Procs,
          First,     \* the process that is not forked
          Objects,   \* ShobhitFile objects
          None, Console,
          NFILE,     \* the length of a process's table
          Consoles,  \* descriptors that begin as the console: 1 .. 3 for 0 .. 2
          Word,      \* 2^32: off_t and size_t are unsigned
          Paths,     \* the arguments of open()
          Sizes,     \* the arguments of read()
          Seeks,     \* the arguments of seek()
          Content,   \* what the drive was made from: the cells of each file,
          Named      \* and what each path should lead to

OpenFilesAssumption ==
  /\ First \in Procs
  /\ {NFILE, Word} \subseteq Nat \ {0} /\ Consoles \subseteq 1 .. NFILE
  /\ Sizes \cup Seeks \subseteq 0 .. Word - 1
  /\ None \notin Objects /\ Console \notin Objects

VARIABLES files,     \* files[p]: its table
          node,      \* the inode of each ShobhitFile
          offset,    \* its offset
          call,      \* call[p]: the read() that p executes
          path,      \* history: the path that the file was opened with
          panicked

file == <<node, offset, path>>
vars == <<files, file, call, panicked>>

NoCall == [at |-> "user"]

Init == /\ files = [p \in Procs |-> [fd \in 1 .. NFILE |->
                      IF p = First /\ fd \in Consoles THEN Console ELSE None]]
        /\ node = [f \in Objects |-> None]
        /\ offset = [f \in Objects |-> 0]
        /\ call = [p \in Procs |-> IF p = First THEN NoCall ELSE [at |-> "unborn"]]
        /\ path = [f \in Objects |-> << >>]
        /\ panicked = FALSE

\* What p's next step does, with f the file of its read().
InUser(p) == ~panicked /\ call[p].at = "user"
InRead(p, step) == ~panicked /\ call[p].at = step
Goto(p, step) == call' = [call EXCEPT ![p].at = step]

Users(f) == {p \in Procs : \E fd \in 1 .. NFILE : files[p][fd] = f}
FreeSlots(p) == {fd \in 1 .. NFILE : files[p][fd] = None}

-----------------------------------------------------------------------------
\* The drive is never written: what a path leads to does not change.
Found == {[path |-> name, lookup |-> Lookup(name)] : name \in Paths}

SizesFit == \A target \in Found : target.lookup.is = "node" =>
                                     target.lookup.node.size \in 0 .. Word - 1

\* open() of something that is there, with a table that has room.
Open(p, target, f) ==
  /\ InUser(p)
  /\ target.lookup.is = "node" /\ FreeSlots(p) # {}
  /\ Users(f) = {}
  /\ files' = [files EXCEPT ![p][Min(FreeSlots(p))] = f]
  /\ node' = [node EXCEPT ![f] = target.lookup.node]
  /\ offset' = [offset EXCEPT ![f] = 0]
  /\ path' = [path EXCEPT ![f] = target.path]
  /\ UNCHANGED <<call, panicked>>

\* open() of what makes find() or is_symlink() fail.
OpenPanics(p, target) ==
  /\ InUser(p) /\ target.lookup = Panic
  /\ panicked' = TRUE
  /\ UNCHANGED <<files, file, call>>

\* len() calls isMine() of the console descriptors before it looks at them.
LenPanics(p, fd) ==
  /\ InUser(p) /\ fd \in Consoles /\ files[p][fd] = None
  /\ panicked' = TRUE
  /\ UNCHANGED <<files, file, call>>

Close(p, fd) ==
  /\ InUser(p) /\ files[p][fd] # None
  /\ files' = [files EXCEPT ![p][fd] = None]
  /\ UNCHANGED <<file, call, panicked>>

Fork(p, q) ==
  /\ InUser(p) /\ call[q].at = "unborn"
  /\ files' = [files EXCEPT ![q] = files[p]]
  /\ call' = [call EXCEPT ![q] = NoCall]
  /\ UNCHANGED <<file, panicked>>

Exit(p) ==
  /\ InUser(p) /\ p # First
  /\ files' = [files EXCEPT ![p] = [fd \in 1 .. NFILE |-> None]]
  /\ call' = [call EXCEPT ![p].at = "exited"]
  /\ UNCHANGED <<file, panicked>>

\* seek() of the console is refused; the rest is not checked.
Seek(p, fd, to) ==
  LET f == files[p][fd]
  IN  /\ InUser(p) /\ f \in Objects
      /\ offset' = [offset EXCEPT ![f] = to]
      /\ UNCHANGED <<files, node, call, path, panicked>>

-----------------------------------------------------------------------------
(* ShobhitFile::read(), one look at the offset at a time.  At the end of   *)
(* the file it returns 0 at once and nothing changes.                      *)
Begin(p, fd, n) ==
  LET f == files[p][fd]
  IN  /\ InUser(p) /\ f \in Objects
      /\ offset[f] < node[f].size
      /\ call' = [call EXCEPT ![p] = [at |-> "compare", file |-> f, n |-> n,
                                     alone |-> Users(f) = {p}]]
      /\ UNCHANGED <<files, file, panicked>>

Left(f) == (node[f].size - offset[f]) % Word

\* Mutant: the wrong way round.
CompareInverted(p) ==
  /\ InRead(p, "compare")
  /\ Goto(p, IF call[p].n < Left(call[p].file) THEN "trim" ELSE "copy")
  /\ UNCHANGED <<files, file, panicked>>

Compare(p) ==
  /\ InRead(p, "compare")
  /\ Goto(p, IF call[p].n > Left(call[p].file) THEN "trim" ELSE "copy")
  /\ UNCHANGED <<files, file, panicked>>

Trim(p) ==
  /\ InRead(p, "trim")
  /\ call' = [call EXCEPT ![p].at = "copy", ![p].n = Left(call[p].file)]
  /\ UNCHANGED <<files, file, panicked>>

\* inode->read_all(), whose result nobody looks at; from and data are history.
Copy(p) ==
  LET f == call[p].file
      copied == NodeRead(node[f], offset[f], call[p].n).data
  IN  /\ InRead(p, "copy")
      /\ call' = [call EXCEPT ![p] =
                    [at |-> "add", file |-> f, n |-> call[p].n, alone |-> call[p].alone,
                     from |-> offset[f], data |-> copied]]
      /\ UNCHANGED <<files, file, panicked>>

\* offset.add_fetch(size); read() returns size.
Add(p) ==
  LET f == call[p].file
  IN  /\ InRead(p, "add")
      /\ offset' = [offset EXCEPT ![f] = (@ + call[p].n) % Word]
      /\ call' = [call EXCEPT ![p] = NoCall]
      /\ UNCHANGED <<files, node, path, panicked>>

\* open(), and the other system calls.
Opening(p, target) == (\E f \in Objects : Open(p, target, f)) \/ OpenPanics(p, target)

Using(p) == \/ \E fd \in 1 .. NFILE : \/ LenPanics(p, fd)
                                      \/ Close(p, fd)
                                      \/ \E to \in Seeks : Seek(p, fd, to)
                                      \/ \E n \in Sizes : Begin(p, fd, n)
            \/ \E q \in Procs : Fork(p, q)
            \/ Exit(p)
            \/ Compare(p) \/ Trim(p) \/ Copy(p) \/ Add(p)

Next == \E p \in Procs : (\E target \in Found : Opening(p, target)) \/ Using(p)

Spec == Init /\ [][Next]_vars

-----------------------------------------------------------------------------
(* What read() puts into the buffer are the cells of the file that the     *)
(* path names, through directories, links and blocks of every kind, from   *)
(* the offset that it read and never behind the end.                       *)
DeliversTheFile ==
  \A p \in Procs : call[p].at = "add" /\ call[p].data # << >> =>
    LET cells == Content[Named[path[call[p].file]]]
        last == call[p].from + Len(call[p].data)
    IN  last <= Len(cells) /\ call[p].data = SubSeq(cells, call[p].from + 1, last)

(* A process that has a file for itself reads as much as it asked for, or  *)
(* the rest of the file, and read() returns that number.                   *)
AloneReadsWhatItCounts ==
  \A p \in Procs : call[p].at = "add" /\ call[p].alone => call[p].n = Len(call[p].data)

(* t0.dir/sbin/sys.h: read() "returns number of bytes read".               *)
ReadReturnsBytesRead ==
  \A p \in Procs : call[p].at = "add" => call[p].n = Len(call[p].data)
=============================================================================
