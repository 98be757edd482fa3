------------------------------ MODULE FatImage ------------------------------
(***************************************************************************)
(* FAT12Writer: files written one by one into the root directory of a      *)
(* FAT12 or FAT16 image.  The tables are kept as the bytes they are, the   *)
(* data area as a sequence of bytes that grows as a Python slice does when *)
(* it is written past its end, the directory as its 32-byte slots.  What a *)
(* FAT driver makes of the image (FilesReadBack) is written from the FAT   *)
(* format, not from the writer.                                            *)
(***************************************************************************)
EXTENDS FatEntry, Sequences, FiniteSets

CONSTANTS
  BootSectors,   \* the boot sectors of the images
  DirEntrySize,  \* 32
  Fat12Limit,    \* 4085: volumes of fewer clusters are FAT12
  Fat16Limit,    \* 65525
  Files,         \* what may be written: [name, chunks, short, len], the chunks
                 \* being the 13-character pieces of a long name
  Sum(_),        \* _calculate_lfn_checksum, any function of the short name
  OldFile,       \* a file that may be on the image already
  MaxWrites      \* bound: files written to one image

VARIABLES
  boot,     \* the BootSector
  fat,      \* the bytes of the tables, one after the other
  dir,      \* the slots of the root directory
  data,     \* the bytes from the first data sector on
  last,     \* the last write_file and what came of it
  written,  \* the files on the image
  overrun   \* a write was given clusters past the end of the volume

vars == <<boot, fat, dir, data, last, written, overrun>>

-----------------------------------------------------------------------------
(* The layout *)

CeilDiv(a, b) == (a + b - 1) \div b
Least(a, b) == IF a < b THEN a ELSE b
Greatest(a, b) == IF a < b THEN b ELSE a

RootDirSectors(b) == CeilDiv(b.root_entries * DirEntrySize, b.bytes_per_sector)
FirstRootDirSector(b) == b.reserved_sectors + b.num_fats * b.sectors_per_fat
FirstDataSector(b) == FirstRootDirSector(b) + RootDirSectors(b)
Clusters(b) == (b.total_sectors - FirstDataSector(b)) \div b.sectors_per_cluster

FatType(b) == IF Clusters(b) < Fat12Limit THEN 12
              ELSE IF Clusters(b) < Fat16Limit THEN 16 ELSE 32

ClusterSize(b) == b.bytes_per_sector * b.sectors_per_cluster
FatBytes(b) == b.sectors_per_fat * b.bytes_per_sector

\* Mutant: the search ends one cluster early.
EndsEarly(b) == IF FatType(b) = 12 THEN Fat12Limit - 1 ELSE Fat16Limit - 1

SearchEnd(b) == IF FatType(b) = 12 THEN Fat12Limit ELSE Fat16Limit

\* The last cluster there is; the writer never asks.
LastCluster(b) == Clusters(b) + 1

\* Where cluster c begins in the data area.
DataOffset(b, c) == (c - 2) * ClusterSize(b)

\* A volume with room for its own tables, each with an entry for every cluster.
WellFormed(b) ==
  /\ {b.bytes_per_sector, b.sectors_per_cluster, b.num_fats} \subseteq Nat \ {0}
  /\ {b.reserved_sectors, b.root_entries, b.sectors_per_fat, b.total_sectors} \subseteq Nat
  /\ FirstDataSector(b) <= b.total_sectors
  /\ FatType(b) \in {12, 16}
  /\ Offset(FatType(b), 0, LastCluster(b)) + 2 <= FatBytes(b)

ASSUME LimitsAssumption ==
  /\ MaxWrites \in Nat
  /\ {DirEntrySize, Fat12Limit, Fat16Limit} \subseteq Nat
  /\ 2 <= Fat12Limit /\ Fat12Limit <= 4085
  /\ 2 <= Fat16Limit /\ Fat16Limit <= 65525

ASSUME BootAssumption == \A b \in BootSectors : WellFormed(b)

ASSUME FilesAssumption ==
  /\ \A f \in Files : Len(f.chunks) \in Nat \ {0} /\ f.chunks = [j \in 1..Len(f.chunks) |-> f.chunks[j]]
  /\ \A f \in Files \cup {OldFile} : f.len \in Nat
  /\ OldFile.chunks = <<>>
  /\ \A f, g \in Files \cup {OldFile} : f.chunks = g.chunks => f.name = g.name

-----------------------------------------------------------------------------
(* write_file *)

\* Contiguous slots of the directory that are free: the entries of the long
\* name and one for the short name go there.
FreeRuns(slots, k) ==
  {i \in 1..Len(slots) - k + 1 :
     \A j \in i..i + k - 1 : slots[j].kind \in {"end", "deleted"}}

FirstRun(slots, k) ==
  CHOOSE i \in FreeRuns(slots, k) : \A j \in FreeRuns(slots, k) : i <= j

ClustersNeeded(b, len) == CeilDiv(len, ClusterSize(b))

\* The lowest free clusters, read from the first table: count of them, or as many
\* as there are; at least one even for an empty file.  They are the only sequence
\* of the set.
FindFreeClusters(b, table, count) ==
  LET free == {c \in 2..SearchEnd(b) - 1 : ReadEntry(table, FatType(b), 0, c) = 0}
      n    == Least(Greatest(count, 1), Cardinality(free))
  IN {s \in [1..n -> free] :
        /\ \A i, j \in 1..n : i < j => s[i] < s[j]
        /\ \A c \in free : (\E i \in 1..n : s[i] = c) \/ (\A i \in 1..n : s[i] < c)}

\* data[o:o+n] = chunk: past the end of the bytes it appends.
Assign(bytes, o, chunk) ==
  LET from == Least(o, Len(bytes))
      to   == from + Len(chunk)
  IN [p \in 1..Greatest(Len(bytes), to) |->
        IF from < p /\ p <= to THEN chunk[p - from] ELSE bytes[p]]

Content(f) == [i \in 1..f.len |-> <<f.name, i>>]

\* The part of a file that its i-th cluster holds.
Part(b, f, i) ==
  [r \in 1..Least(ClusterSize(b), f.len - (i - 1) * ClusterSize(b)) |->
     Content(f)[(i - 1) * ClusterSize(b) + r]]

WriteData(b, bytes, f, clusters) ==
  LET after[i \in 0..Len(clusters)] ==
        IF i = 0 THEN bytes
        ELSE Assign(after[i - 1], DataOffset(b, clusters[i]), Part(b, f, i))
  IN after[Len(clusters)]

\* The entry of the i-th cluster of a chain leads to the next one or ends it.
Link(b, table, at, clusters, i) ==
  WriteEntry(table, FatType(b), at, clusters[i],
             IF i < Len(clusters) THEN clusters[i + 1] ELSE Eoc(FatType(b)))

ChainCopy(b, table, at, clusters) ==
  LET after[i \in 0..Len(clusters)] ==
        IF i = 0 THEN table ELSE Link(b, after[i - 1], at, clusters, i)
  IN after[Len(clusters)]

\* Mutant: only the first copy of the table is updated.
ChainFirstOnly(b, table, clusters) == ChainCopy(b, table, 0, clusters)

\* The chain goes into every copy of the table.
UpdateChain(b, table, clusters) ==
  LET after[n \in 0..b.num_fats] ==
        IF n = 0 THEN table ELSE ChainCopy(b, after[n - 1], (n - 1) * FatBytes(b), clusters)
  IN after[b.num_fats]

\* The pieces of the long name, the last one first, then the short name.
Entries(f, start) ==
  LET n == Len(f.chunks)
  IN [j \in 1..n |->
        [kind |-> "lfn", seq |-> n - j + 1, last |-> j = 1,
         sum |-> Sum(f.short), chunk |-> f.chunks[n - j + 1]]]
     \o <<[kind |-> "short", name |-> f.short, start |-> start, size |-> f.len]>>

PutEntries(slots, i, entries) ==
  [j \in 1..Len(slots) |->
     IF j \in i..i + Len(entries) - 1 THEN entries[j - i + 1] ELSE slots[j]]

Note(f, result) == last' = [file |-> f, result |-> result]

Refuse(f, result) ==
  /\ Note(f, result)
  /\ UNCHANGED <<boot, fat, dir, data, written, overrun>>

\* The image is read, changed and written back whole ...
Store(f, free) ==
  /\ data' = WriteData(boot, data, f, free)
  /\ fat' = UpdateChain(boot, fat, free)
  /\ dir' = PutEntries(dir, FirstRun(dir, Len(f.chunks) + 1), Entries(f, free[1]))
  /\ Note(f, "written")
  /\ written' = written \cup {f}
  /\ overrun' = (overrun \/ \E i \in DOMAIN free : free[i] > LastCluster(boot))
  /\ UNCHANGED boot

\* ... or left as it was.  An empty file on a full image raises at
\* free_clusters[0].
WriteFile(f) ==
  LET need == ClustersNeeded(boot, f.len)
      runs == FreeRuns(dir, Len(f.chunks) + 1)
  IN \E free \in FindFreeClusters(boot, fat, need) :
       \/ /\ runs = {}
          /\ Refuse(f, "no directory entries")
       \/ /\ runs # {}
          /\ Len(free) < need
          /\ Refuse(f, "not enough space")
       \/ /\ runs # {}
          /\ need = 0 /\ free = <<>>
          /\ Refuse(f, "IndexError")
       \/ /\ runs # {}
          /\ Len(free) >= need /\ free # <<>>
          /\ Store(f, free)

\* An image as a FAT driver leaves it: a volume label or a deleted entry in each
\* slot before an old file's, which has its clusters in the order of the table.
Formatted(b) ==
  [o \in 0..b.num_fats * FatBytes(b) - 1 |-> 0]

OldTables(b, chain) ==
  LET copy == ChainCopy(b, [o \in 0..FatBytes(b) - 1 |-> 0], 0, chain)
  IN [o \in 0..b.num_fats * FatBytes(b) - 1 |-> copy[o % FatBytes(b)]]

Blank(b) == [i \in 1..(b.total_sectors - FirstDataSector(b)) * b.bytes_per_sector |-> <<"blank", 0>>]

OldDir(b, slot, deleted, start) ==
  [j \in 1..b.root_entries |->
     IF j = slot THEN [kind |-> "short", name |-> OldFile.short, start |-> start, size |-> OldFile.len]
     ELSE IF j > slot THEN [kind |-> "end"]
     ELSE IF j \in deleted THEN [kind |-> "deleted"] ELSE [kind |-> "label"]]

Init ==
  /\ boot \in BootSectors
  /\ overrun = FALSE
  /\ last = [file |-> OldFile, result |-> "none"]
  /\ \/ /\ fat = Formatted(boot)
        /\ data = Blank(boot)
        /\ dir = [j \in 1..boot.root_entries |-> [kind |-> "end"]]
        /\ written = {}
     \/ \E chain \in [1..Greatest(ClustersNeeded(boot, OldFile.len), 1) -> 2..LastCluster(boot)],
           slot \in 1..boot.root_entries :
        \E deleted \in SUBSET (1..slot - 1) :
          /\ \A i, j \in DOMAIN chain : i < j => chain[i] < chain[j]
          /\ fat = OldTables(boot, chain)
          /\ data = WriteData(boot, Blank(boot), OldFile, chain)
          /\ dir = OldDir(boot, slot, deleted, chain[1])
          /\ written = {OldFile}

Next ==
  /\ Cardinality(written) < MaxWrites
  /\ \E f \in Files : (\A g \in written : g.name # f.name) /\ WriteFile(f)

Spec == Init /\ [][Next]_vars

-----------------------------------------------------------------------------
(* Properties *)

\* What a FAT driver sees: the short entries before the first end mark, each
\* with the long name that stands right before it.
ShortSlots ==
  {s \in DOMAIN dir : dir[s].kind = "short" /\ \A j \in 1..s : dir[j].kind # "end"}

Precedes(s, j, n) ==
  /\ dir[s - j].kind = "lfn"
  /\ dir[s - j].seq = j
  /\ dir[s - j].last = (j = n)
  /\ dir[s - j].sum = Sum(dir[s].name)

LongName(s) ==
  LET lengths == {n \in 1..s - 1 : \A j \in 1..n : Precedes(s, j, n)}
  IN IF lengths = {} THEN <<>>
     ELSE [j \in 1..(CHOOSE n \in lengths : TRUE) |-> dir[s - j].chunk]

EntryOf(c) == ReadEntry(fat, FatType(boot), 0, c)

\* The clusters of f, found from the start its slot s has, to the end of their
\* chain; they hold its bytes.
Holds(s, f) ==
  LET size == ClusterSize(boot)
      n    == Greatest(ClustersNeeded(boot, f.len), 1)
  IN \E chain \in [1..n -> 2..LastCluster(boot)] :
       /\ chain[1] = dir[s].start
       /\ \A i \in 1..n :
            EntryOf(chain[i]) = IF i < n THEN chain[i + 1] ELSE Eoc(FatType(boot))
       /\ \A i \in 1..n, r \in 1..size :
            (i - 1) * size + r <= f.len =>
              data[DataOffset(boot, chain[i]) + r] = Content(f)[(i - 1) * size + r]

(* The installer finds the config on the image: every file written, and the
   one that was there before, is found under its long name exactly once, with
   its size, a chain of its own that ends, and its bytes - however fragmented
   the tables and the directory were (write_file, _create_lfn_entries). *)
FilesReadBack ==
  ~overrun => \A f \in written :
    \E s \in ShortSlots :
      /\ LongName(s) = f.chunks /\ dir[s].name = f.short /\ dir[s].size = f.len
      /\ Holds(s, f)
      /\ \A t \in ShortSlots : LongName(t) = f.chunks => t = s

(* A driver may read any copy of the table: they never differ
   (_update_fat_chain writes the chain into all of them). *)
CopiesAgree ==
  ~overrun => \A n \in 1..boot.num_fats - 1, o \in 0..FatBytes(boot) - 1 :
    fat[n * FatBytes(boot) + o] = fat[o]

\* What the FAT format says of room: a volume has the clusters 2..LastCluster, the
\* largest of its type one cluster less than the type's limit, and those with
\* entry 0 are free.
TypeLimit(b) == IF FatType(b) = 12 THEN Fat12Limit ELSE Fat16Limit
Largest(b) == Clusters(b) = TypeLimit(b) - 1
FreeInVolume == {c \in 2..LastCluster(boot) : EntryOf(c) = 0}

\* The writer never uses the last cluster of the largest volume of a type: 4085 and
\* 65525, where range(2, 4085) and range(2, 65525) have stopped (fat_writer.py:200).
Usable == {c \in FreeInVolume : Largest(boot) => c < LastCluster(boot)}

HasRoom(f) ==
  /\ Cardinality(Usable) >= Greatest(ClustersNeeded(boot, f.len), 1)
  /\ \E i \in DOMAIN dir :
       /\ i + Len(f.chunks) <= Len(dir)
       /\ \A j \in i..i + Len(f.chunks) : dir[j].kind \in {"end", "deleted"}

UsesRoom ==
  LET f == last'.file
  IN IF HasRoom(f) THEN last'.result = "written" /\ overrun' = overrun
     ELSE LastCluster(boot) >= TypeLimit(boot) - 1 =>
            last'.result # "written" /\ UNCHANGED <<fat, dir, data>>

(* "Not enough free space" (fat_writer.py:171): a write for which the volume has
   free clusters and the directory slots is carried out and stays within the
   volume, save that one cluster is never used, the last of the largest volume of
   a type.  A write that has no room is refused, and then changes nothing, on the
   two largest sizes of a type: on a smaller volume, as the shipped image is,
   it may be given clusters past its end. *)
RoomIsUsed == [][UsesRoom]_vars

=============================================================================
