--------------------------------- MODULE Ide ---------------------------------
(***************************************************************************)
(* A drive (kernel/ide.cc, ide.h), which is only ever read, a sector at a  *)
(* time and under its lock.  It is a sequence of cells.  A cell is a byte  *)
(* of a file, or all the bytes of a block number, of a name, or of the     *)
(* data of an i-node; a directory entry begins with the three cells        *)
(* number, total_size and name.                                            *)
(***************************************************************************)
EXTENDS BlockIO

CONSTANTS Drive,      \* the cells, those of block 0 first
          SectorSize

ASSUME IdeAssumption == SectorSize \in Nat \ {0}

Sectors == [i \in Nat |-> SubSeq(Drive, i * SectorSize + 1, (i + 1) * SectorSize)]

\* ide->read_all(); Ide claims to be larger than any offset.
DriveRead(offset, n) == ReadAll(Sectors, Len(Drive), SectorSize, offset, n).data

\* The same for one cell.
Cell(offset) == Drive[offset + 1]
=============================================================================
