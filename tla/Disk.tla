-------------------------------- MODULE Disk --------------------------------
(***************************************************************************)
(* src/src/storage.rs: the qcow2 disk, which transfers a request in        *)
(* batches and keeps what it writes in caches until it is flushed.         *)
(*                                                                         *)
(* Contents are versions: the number of the write that put them there.     *)
(* Offsets are bytes of a sector of SectorSize, in words of Word values; a *)
(* segment of a request is one sector, named by the guest buffer it        *)
(* covers, and two segments of the same buffer overlap.                    *)
(***************************************************************************)
EXTENDS Naturals, Sequences, FiniteSetsExt

CONSTANTS
  Word,        \* 2^64
  SectorSize,  \* 512
  Size,        \* capacity in bytes
  IovMax,      \* segments of one batch
  Buffers      \* guest buffers

ASSUME DiskAssumption ==
  /\ Word \in Nat /\ SectorSize \in Nat \ {0} /\ IovMax \in Nat \ {0}
  /\ Size \in 0..(Word - 1) /\ Size % SectorSize = 0

VARIABLES
  disk,    \* what a read returns, caches included
  stable,  \* what a crash of the host would leave
  memory,  \* what the guest's buffers were last filled with
  todo,    \* segments of the request not transferred yet
  offset   \* where the next one goes

storage == <<disk, stable, memory, todo, offset>>

Sectors  == 0..(Size \div SectorSize - 1)
Versions == Nat

DiskTypeOK ==
  /\ disk \in [Sectors -> Versions] /\ stable \in [Sectors -> Versions]
  /\ memory \in [Buffers -> Versions]
  /\ todo \in Seq(Buffers) /\ offset \in 0..Size

DiskInit ==
  /\ disk = [s \in Sectors |-> 0] /\ stable = disk
  /\ memory = [b \in Buffers |-> 0]
  /\ todo = <<>> /\ offset = 0

\* bounds: a sum past the word is out of bounds too.
Bounds(at, length) == at + length < Word /\ at + length <= Size

\* The sector the i-th segment still to do goes to.
Target(i) == offset \div SectorSize + i - 1

Overlaps(n) == \E i, j \in 1..n : i # j /\ todo[i] = todo[j]

Fits_Overlapping(n, write) == n <= IovMax
Fits(n, write) == n <= IovMax /\ (write \/ ~Overlaps(n))

\* As many segments as fit one batch; the segments of a read must not overlap.
Batch(write) == Max({n \in 1..Len(todo) : Fits(n, write)})

Advance_Twice(n) == offset + 2 * n * SectorSize
Advance_Not(n) == offset
Advance(n) == offset + n * SectorSize

Written(some, version) == [s \in Sectors |-> IF s \in some THEN version ELSE disk[s]]

\* readv leaves overlapping segments in any order.
Filled(some) ==
  {m \in [Buffers -> {memory[b] : b \in Buffers} \cup {disk[s] : s \in Sectors}] :
     \A b \in Buffers :
       IF \E i \in some : todo[i] = b
       THEN \E i \in some : todo[i] = b /\ m[b] = disk[Target(i)]
       ELSE m[b] = memory[b]}

WriteBatch(version) ==
  LET n == Batch(TRUE)
  IN  /\ todo # <<>>
      /\ disk' = Written({Target(i) : i \in 1..n}, version)
      /\ todo' = SubSeq(todo, n + 1, Len(todo))
      /\ offset' = Advance(n)
      /\ UNCHANGED <<stable, memory>>

ReadBatch ==
  LET n == Batch(FALSE)
  IN  /\ todo # <<>>
      /\ memory' \in Filled(1..n)
      /\ todo' = SubSeq(todo, n + 1, Len(todo))
      /\ offset' = Advance(n)
      /\ UNCHANGED <<disk, stable>>

\* A failed batch may have transferred any part of itself; the rest is not tried.
WriteFails(version) ==
  /\ todo # <<>>
  /\ \E some \in SUBSET (1..Batch(TRUE)) : disk' = Written({Target(i) : i \in some}, version)
  /\ todo' = <<>> /\ UNCHANGED <<stable, memory, offset>>

ReadFails ==
  /\ todo # <<>>
  /\ \E some \in SUBSET (1..Batch(FALSE)) : memory' \in Filled(some)
  /\ todo' = <<>> /\ UNCHANGED <<disk, stable, offset>>

\* flush: the caches of the image and then those of the host.
Flush == stable' = disk /\ UNCHANGED <<disk, memory, todo, offset>>

\* What is cached may reach the disk at any time, in any order.
WriteBack(s) ==
  /\ stable[s] # disk[s]
  /\ stable' = [stable EXCEPT ![s] = disk[s]]
  /\ UNCHANGED <<disk, memory, todo, offset>>

=============================================================================
