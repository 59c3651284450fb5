------------------------------- MODULE BlockIO -------------------------------
(***************************************************************************)
(* BlockIO of kernel/block_io.cc: reading any range of a device that can   *)
(* only be read block by block.  A device is its size, its block size and  *)
(* blocks[i], what its read_block(i) puts into the buffer.                 *)
(***************************************************************************)
EXTENDS Integers, Sequences

Least(a, b) == IF a < b THEN a ELSE b

\* Mutant: all that is wanted of the block, although the device ends in it.
ReadUnclipped(blocks, size, blockSize, offset, desired) ==
  LET start == offset % blockSize
      actual == Least(blockSize - start, desired)
  IN  IF offset > size THEN [cnt |-> -1, data |-> << >>]
      ELSE IF offset = size THEN [cnt |-> 0, data |-> << >>]
      ELSE [cnt |-> actual,
            data |-> [i \in 1 .. actual |-> blocks[offset \div blockSize][start + i]]]

\* read(): some of what is wanted, from one block; cnt is what it returns.
Read(blocks, size, blockSize, offset, desired) ==
  LET start == offset % blockSize
      actual == Least(blockSize - start, Least(desired, size - offset))
  IN  IF offset > size THEN [cnt |-> -1, data |-> << >>]
      ELSE IF offset = size THEN [cnt |-> 0, data |-> << >>]
      ELSE [cnt |-> actual,
            data |-> [i \in 1 .. actual |-> blocks[offset \div blockSize][start + i]]]

\* read_all(): the loop over read(), left being what is still wanted.  Only its
\* first read() can fail.
ReadAll(blocks, size, blockSize, offset, n) ==
  LET from[left \in Nat] ==
        LET got == Read(blocks, size, blockSize, offset + n - left, left)
        IN  IF left = 0 \/ got.cnt <= 0 THEN << >> ELSE got.data \o from[left - got.cnt]
      all == from[n]
  IN  IF n > 0 /\ offset > size THEN [cnt |-> -1, data |-> << >>]
      ELSE [cnt |-> Len(all), data |-> all]
=============================================================================
