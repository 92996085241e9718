------------------------------ MODULE DiskImage ------------------------------
(***************************************************************************)
(* src/src/storage.rs: Disk::open and Drop for Disk.  The disks of one     *)
(* command line all name one path, which somebody may let name another     *)
(* file at any time, and another process may open the same files.  A file  *)
(* is known by its inode; flock belongs to an open file, so that the disks *)
(* of one process exclude each other too.  Reading and writing an image is *)
(* in module Disk.                                                         *)
(***************************************************************************)
EXTENDS Naturals

CONSTANTS
  DiskCount,   \* --disk may be repeated
  Images       \* what the two files may hold: the headers of qcow2 images

Inodes == {"First", "Second"}
Disks == 1..DiskCount

Defects == {"magic", "backing", "clusters", "encryption", "snapshots", "capacity",
            "features", "length"}

ASSUME DiskAssumption ==
  /\ DiskCount \in Nat
  /\ Images \subseteq [Inodes -> [version : Nat, defects : SUBSET Defects, size : Nat]]

VARIABLES
  images,   \* the headers of the files
  path,     \* the file that the path names
  disk,     \* per disk: how far it is, the files of lock and I/O, size, unsynced writes
  other,    \* what the other process has open
  lost      \* a flush has failed for good

imageVars == <<images, path, disk, other, lost>>

Modes == {"Shared", "Exclusive"}
Nobody == [lock |-> "None", mode |-> "Shared"]
Closed == [stage |-> "Closed", lock |-> "None", io |-> "None", size |-> 0, dirty |-> FALSE]

ImageTypeOK ==
  /\ images \in Images /\ path \in Inodes /\ lost \in BOOLEAN
  /\ other \in [lock : Inodes \cup {"None"}, mode : Modes]
  /\ disk \in [Disks -> [stage : {"None", "Opened", "Locked", "Open", "Closed"},
                         lock : Inodes \cup {"None"}, io : Inodes \cup {"None"},
                         size : Nat, dirty : BOOLEAN]]

ImageInit ==
  /\ images \in Images /\ path = "First" /\ other = Nobody /\ lost = FALSE
  /\ disk = [d \in Disks |-> [Closed EXCEPT !.stage = "None"]]

\* The disks are opened in the order of their names.
AllOpen == \A d \in Disks : disk[d].stage = "Open"
Opening(d) ==
  /\ disk[d].stage \in {"None", "Opened", "Locked"}
  /\ \A e \in Disks : e < d => disk[e].stage = "Open"
AllClosed == \A d \in Disks : disk[d].stage \in {"None", "Closed"}

SetDisk(d, new) == disk' = [disk EXCEPT ![d] = new] /\ UNCHANGED <<images, path, other, lost>>

(***************************************************************************)
(* Disk::open.  Any of its steps may fail, which closes the file.          *)
(***************************************************************************)
\* open and metadata.
OpenFile(d) ==
  /\ Opening(d) /\ disk[d].stage = "None"
  /\ SetDisk(d, [disk[d] EXCEPT !.stage = "Opened", !.lock = path])

\* MUTANT: a disk that is written to takes a shared lock.
Mode_Shared(readonly) == "Shared"
Mode(readonly) == IF readonly THEN "Shared" ELSE "Exclusive"

\* External: flock with LOCK_NB.  `mine` are the modes of the command's own locks.
Conflict(inode, mode, mine) ==
  LET held == {mine : d \in {e \in Disks : disk[e].stage \in {"Locked", "Open"}
                                             /\ disk[e].lock = inode}}
                \cup (IF other.lock = inode THEN {other.mode} ELSE {})
  IN  held # {} /\ "Exclusive" \in held \cup {mode}

LockFile(d, readonly) ==
  /\ Opening(d) /\ disk[d].stage = "Opened"
  /\ ~Conflict(disk[d].lock, Mode(readonly), Mode(readonly))
  /\ SetDisk(d, [disk[d] EXCEPT !.stage = "Locked"])

\* The header is read from the locked file; a version 2 header ends before the
\* fields of version 3.
validate_header(h) ==
  /\ h.version \in {2, 3}
  /\ h.defects \cap {"magic", "backing", "clusters", "encryption", "snapshots", "capacity"} = {}
  /\ h.version = 3 => h.defects \cap {"features", "length"} = {}

\* MUTANT: the image is opened by its path, not through the locked file.
IoFile_ByPath(d) == path
IoFile(d) == disk[d].lock

\* From the header to the image, whose size must be the header's.
OpenImage(d) ==
  LET header == images[disk[d].lock]
  IN  /\ Opening(d) /\ disk[d].stage = "Locked"
      /\ validate_header(header) /\ images[IoFile(d)].size = header.size
      /\ SetDisk(d, [disk[d] EXCEPT !.stage = "Open", !.io = IoFile(d), !.size = header.size])

OpenFails(d) == Opening(d) /\ SetDisk(d, Closed)

(***************************************************************************)
(* Its use and its end.                                                    *)
(***************************************************************************)
\* A write of the guest that no flush has followed.
WriteDisk(d) == disk[d].stage = "Open" /\ SetDisk(d, [disk[d] EXCEPT !.dirty = TRUE])

\* MUTANT: neither cleanup nor Drop flushes.
FlushedOnDrop_Never == FALSE
FlushedOnDrop == TRUE

\* Cleanup flushes and Drop for Disk flushes again: one step, as nothing is written
\* between them.  Then the files, and with the last of them the lock, are closed.
CloseDisk(d) ==
  /\ disk[d].stage = "Open" /\ \A e \in Disks : e < d => disk[e].stage # "Open"
  /\ \E synced \in BOOLEAN :
       /\ disk' = [disk EXCEPT ![d] = [Closed EXCEPT !.dirty = disk[d].dirty
                                                              /\ ~(synced /\ FlushedOnDrop)]]
       /\ lost' = (lost \/ (disk[d].dirty /\ ~synced))
  /\ UNCHANGED <<images, path, other>>

(***************************************************************************)
(* Outside.                                                                *)
(***************************************************************************)
\* Another file is moved to the path.
Rename ==
  /\ path = "First" /\ path' = "Second" /\ UNCHANGED <<images, disk, other, lost>>

\* Another run opens the image and closes it again.
OtherOpens(mode, mine) ==
  /\ other = Nobody /\ ~Conflict(path, mode, mine)
  /\ other' = [lock |-> path, mode |-> mode]
  /\ UNCHANGED <<images, path, disk, lost>>

OtherCloses ==
  /\ other # Nobody /\ other' = Nobody /\ UNCHANGED <<images, path, disk, lost>>

(***************************************************************************)
(* Properties.                                                             *)
(***************************************************************************)
\* "A duplicated descriptor keeps validation, the advisory lock and I/O on the
\* same inode": an open disk reads and writes the file whose header was accepted,
\* and while it may be written to nobody else has that file open.
DisksExclusive(readonly) ==
  \A d \in Disks : disk[d].stage = "Open" =>
    /\ disk[d].io = disk[d].lock
    /\ validate_header(images[disk[d].io]) /\ disk[d].size = images[disk[d].io].size
    /\ \A e \in Disks \ {d} : disk[e].io = disk[d].io => readonly
    /\ other.lock = disk[d].io => readonly /\ other.mode = "Shared"
=============================================================================
