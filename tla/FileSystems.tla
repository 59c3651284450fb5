----------------------------- MODULE FileSystems -----------------------------
(***************************************************************************)
(* Who reads files, one user at a time: the player, through Ext22; the     *)
(* processes that open files, through Ext2; and one that calls execl(),    *)
(* through Ext2 as well.  Both file systems are made of the same drive     *)
(* (kernel/kernel.cc, init.cc).                                            *)
(***************************************************************************)
EXTENDS Player

CONSTANTS Inline, MaxLinks,
          Procs, First, Objects, None, Console, NFILE, Consoles, Word, Paths, Sizes,
          Seeks, Content, Named,
          UserBase, Top, StackTop, AddressWord, Headers, Segments, Calls, KnownPaths,
          Programs

VARIABLES user,  \* "player", "files" or "execl", the same for ever
          files, node, fileOffset, call, path, panicked,
          execStage, request, found, hops, memory, held, sp, hdr, next

Files == INSTANCE OpenFiles WITH offset <- fileOffset

Loader == INSTANCE Execl WITH stage <- execStage

ASSUME FilesAssumption == Files!Ext2Assumption /\ Files!OpenFilesAssumption /\ Files!SizesFit
ASSUME LoaderAssumption == Loader!ExeclAssumption /\ Loader!OnlyFilesHaveHeaders

fileVars == <<files, node, fileOffset, call, path, panicked>>
execVars == <<execStage, request, found, hops, memory, held, sp, hdr, next>>
all == <<user, vars, fileVars, execVars>>

\* Those who do nothing begin in one way only.
FSInit == /\ user \in {"player", "files", "execl"}
          /\ Init /\ Files!Init /\ Loader!Init
          /\ user # "player" => song = CHOOSE s \in Songs : TRUE
          /\ user # "execl" => request = CHOOSE c \in Calls : TRUE

PlayerStep(A) == user = "player" /\ A /\ UNCHANGED <<user, fileVars, execVars>>
FilesStep(A) == user = "files" /\ A /\ UNCHANGED <<user, vars, execVars>>
ExeclStep(A) == user = "execl" /\ A /\ UNCHANGED <<user, vars, fileVars>>

FSNext == \/ PlayerStep(Next)
          \/ \E p \in Procs :
               \/ \E target \in Files!Found : FilesStep(Files!Opening(p, target))
               \/ FilesStep(Files!Using(p))
          \/ \E inode \in Loader!Inodes : ExeclStep(Loader!Finding(inode))
          \/ ExeclStep(Loader!Loading)

FSSpec == FSInit /\ [][FSNext]_all

-----------------------------------------------------------------------------
\* The byte of a device at offset o, and that of a file, through blocks of every kind.
ByteAt(device, blockSize, o) == device[o \div blockSize][(o % blockSize) + 1]
NodeByte(inode, o) == ByteAt([i \in Nat |-> Files!NodeBlock(inode, i)], BlockSize, o)

\* A path that open() finds a node for leads, through directories and links, to the bytes
\* that the drive was made from.
LookupsLead ==
  \A target \in Files!Found :
    target.lookup.is = "node" =>
      Content[Named[target.path]]
        = [i \in 1 .. target.lookup.node.size |-> NodeByte(target.lookup.node, i - 1)]

(* What read() puts into the buffer are the cells of the file that the     *)
(* path names, from the offset that it read and never behind the end.      *)
DeliversTheFile == Files!DeliversTheFile

(* A process that has a file for itself reads as much as it asked for, or  *)
(* the rest of the file, and read() returns that number.                   *)
AloneReadsWhatItCounts == Files!AloneReadsWhatItCounts

(* t0.dir/sbin/sys.h: read() "returns number of bytes read".               *)
ReadReturnsBytesRead == Files!ReadReturnsBytesRead

(* A program that is started finds its arguments and its segments, and     *)
(* nothing is left of the program before it.                               *)
StartsTheProgram == Loader!StartsTheProgram

(* An execl() that returns has left the program that called it as it was,  *)
(* unless the path is that of a link.                                      *)
FailureLeavesTheCaller == Loader!FailureLeavesTheCaller
=============================================================================
