----------------------------- MODULE Fat32Disk -----------------------------
(***************************************************************************)
(* The functions of fat32.c as operators on a disk.  A function that       *)
(* writes more than one sector takes and returns a sequence of disks: the  *)
(* disk after each sector that was written, the present one last.  A crash *)
(* leaves one of them.                                                     *)
(*                                                                         *)
(* A cluster is one sector and the FAT is one sector, so each write of the *)
(* code is atomic.  The name of an entry is a pair: its first byte, which  *)
(* also says whether the slot is used, and the other ten.  Times are left  *)
(* out.                                                                    *)
(***************************************************************************)
EXTENDS Integers, SequencesExt

CONSTANTS
  TotalClusters,   \* clusters of the data area
  FatCount,        \* copies of the FAT
  ClusterSize,     \* bytes of a cluster
  SlotCount,       \* directory entries of a cluster
  Bytes,           \* values of a byte of a file; 0 is one
  NEWLINE,         \* one of them, or none
  LineChunk        \* the bytes that fat32_read_line reads at a time

ASSUME DiskAssumption ==
  /\ {TotalClusters, FatCount, ClusterSize, SlotCount, LineChunk} \subseteq Nat \ {0}
  /\ SlotCount > 2 /\ 0 \in Bytes

Clusters     == 2 .. TotalClusters + 1
root_cluster == 2
FAT32_EOC    == -1

ATTR_DIRECTORY == "directory"
ATTR_ARCHIVE   == "archive"
ATTR_VOLUME_ID == "volume"

\* First bytes that mean something; END ends a directory, and 0xE5, which
\* marks a deleted entry, is above every byte of a name.
END     == 0
DOT     == 1
DELETED == 9

Entry(name, attrs, first_cluster, size) ==
  [name |-> name, attributes |-> attrs, first_cluster |-> first_cluster, file_size |-> size]
ZeroEntry == Entry(<<END, 0>>, "none", 0, 0)
Used(e) == e.name[1] \notin {END, DELETED}
IsDir(e) == e.attributes = ATTR_DIRECTORY

ZeroData == [b \in 0 .. ClusterSize - 1 |-> 0]
ZeroDir  == [s \in 1 .. SlotCount |-> ZeroEntry]

\* The images of a function that starts on the disk d.
Unwritten(d) == <<d>>
WriteSector(images, d) == Append(images, d)

-----------------------------------------------------------------------------
(* The file allocation table *)

fat32_next_cluster(d, c) ==
  IF d.fat[1][c] = FAT32_EOC THEN 0 ELSE d.fat[1][c]

FreeClusters(d) == {c \in Clusters : d.fat[1][c] = 0}

find_free_cluster(d) == IF FreeClusters(d) = {} THEN 0 ELSE Min(FreeClusters(d))

\* Mutant: the loop over the copies ends one early.
CopyAllButLast(images, sector) ==
  FoldLeft(LAMBDA ims, i : WriteSector(ims, [Last(ims) EXCEPT !.fat[i] = sector]),
           images, [i \in 1 .. FatCount - 1 |-> i])

\* The sector of the first copy, changed, goes over every copy in turn.
CopySector(images, sector) ==
  FoldLeft(LAMBDA ims, i : WriteSector(ims, [Last(ims) EXCEPT !.fat[i] = sector]),
           images, [i \in 1 .. FatCount |-> i])

set_fat_entry(images, c, value) ==
  CopySector(images, [Last(images).fat[1] EXCEPT ![c] = value])

\* The clusters that next_cluster leads to from c, c first; no longer than a
\* chain can be, so a chain with a cycle is one that is too long.
NextOf(d, chain, next) == IF next = 0 THEN chain ELSE Append(chain, next)
Chain(d, c) ==
  IF c = 0 THEN <<>>
  ELSE FoldLeft(LAMBDA chain, i :
                  IF Len(chain) < i THEN chain
                  ELSE NextOf(d, chain, fat32_next_cluster(d, Last(chain))),
                <<c>>, [i \in 1 .. TotalClusters |-> i])

-----------------------------------------------------------------------------
(* Directories *)

\* The slots of the clusters of a directory, one after the other.
AllSlots(d, c) ==
  LET chain == Chain(d, c)
  IN  [k \in 1 .. SlotCount * Len(chain) |->
         d.dir[chain[((k - 1) \div SlotCount) + 1]][((k - 1) % SlotCount) + 1]]

\* The slots before the first that was never used.
BeforeEnd(slots) ==
  SubSeq(slots, 1, Min({i \in DOMAIN slots : slots[i].name[1] = END} \cup {Len(slots) + 1}) - 1)

\* The slots that repeated calls of fat32_read_dir look at: the last slot of
\* the last cluster is not among them, the end of the chain is seen first; and
\* those that these calls return.
Slots(d, c) == BeforeEnd(Front(AllSlots(d, c)))
Listing(d, c) == {k \in DOMAIN Slots(d, c) : Used(Slots(d, c)[k])}

EntryOr(slots, i) == IF i = 0 THEN ZeroEntry ELSE slots[i]
fat32_find_file(d, c, name) ==
  EntryOr(Slots(d, c),
          SelectInSeq(Slots(d, c),
                      LAMBDA e : Used(e) /\ e.attributes # ATTR_VOLUME_ID /\ e.name = name))

\* A handle; ctx is not NULL from fat32_open_file to fat32_close.
Handle(ctx, c, size, is_dir) ==
  [ctx |-> ctx, start_cluster |-> c, current_cluster |-> c, cluster_offset |-> 0,
   file_offset |-> 0, size |-> size, is_dir |-> is_dir]
NoFile == Handle(FALSE, 0, 0, FALSE)

\* One component of a path.  A file ends the walk, whatever follows it.
Enter(h, e) ==
  IF ~Used(e) THEN NoFile
  ELSE Handle(TRUE, e.first_cluster, IF IsDir(e) THEN 0 ELSE e.file_size, IsDir(e))
fat32_open_file(d, path) ==
  FoldLeft(LAMBDA h, name :
             IF h.ctx /\ h.is_dir THEN Enter(h, fat32_find_file(d, h.start_cluster, name)) ELSE h,
           Handle(TRUE, root_cluster, 0, TRUE), path)

SetSlot(images, c, i, e) == WriteSector(images, [Last(images) EXCEPT !.dir[c][i] = e])

\* The first slot of the cluster that a loop stops at, if there is one; slots
\* are those it would stop at, changed is what it would write there.
InFirstSlot(images, c, slots, changed) ==
  IF slots = {} THEN images ELSE SetSlot(images, c, Min(slots), changed[Min(slots)])

SlotsOf(images, c) == Last(images).dir[c]
FreeSlots(dir) == {i \in 1 .. SlotCount : ~Used(dir[i])}

\* Mutant: the last free slot is taken.
create_direntry_last(images, c, entry) ==
  IF FreeSlots(SlotsOf(images, c)) = {} THEN images
  ELSE SetSlot(images, c, Max(FreeSlots(SlotsOf(images, c))), entry)

create_direntry(images, c, entry) ==
  InFirstSlot(images, c, FreeSlots(SlotsOf(images, c)), [i \in 1 .. SlotCount |-> entry])

MakeEntry(d, parent, entry) ==
  IF parent.ctx /\ parent.is_dir
  THEN create_direntry(Unwritten(d), parent.current_cluster, entry)
  ELSE Unwritten(d)
fat32_create(d, path) ==
  MakeEntry(d, fat32_open_file(d, Front(path)), Entry(Last(path), ATTR_ARCHIVE, 0, 0))

\* The new cluster: its mark in the FAT, its two entries, its name in the
\* directory above, in that order.
DotEntries(new, parent) ==
  [ZeroDir EXCEPT ![1] = Entry(<<DOT, 0>>, ATTR_DIRECTORY, new, 0),
                  ![2] = Entry(<<DOT, DOT>>, ATTR_DIRECTORY, parent, 0)]
WriteDots(images, new, parent) ==
  WriteSector(images, [Last(images) EXCEPT !.dir[new] = DotEntries(new, parent)])

\* Mutant: the mark in the FAT is forgotten.
MakeUnmarked(d, parent, name, new) ==
  IF ~parent.ctx \/ ~parent.is_dir \/ new = 0 THEN Unwritten(d)
  ELSE create_direntry(WriteDots(Unwritten(d), new, parent.start_cluster),
                       parent.current_cluster, Entry(name, ATTR_DIRECTORY, new, 0))

MakeDirectory(d, parent, name, new) ==
  IF ~parent.ctx \/ ~parent.is_dir \/ new = 0 THEN Unwritten(d)
  ELSE create_direntry(WriteDots(set_fat_entry(Unwritten(d), new, FAT32_EOC),
                                 new, parent.start_cluster),
                       parent.current_cluster, Entry(name, ATTR_DIRECTORY, new, 0))

fat32_mkdir(d, path) ==
  MakeDirectory(d, fat32_open_file(d, Front(path)), Last(path), find_free_cluster(d))

\* memcmp of the library: its second test repeats the first, so it returns 0
\* when no byte of a is below the byte of b.
memcmp_is_zero(a, b) == a[1] >= b[1] /\ a[2] >= b[2]

MarkDeleted(e) == [e EXCEPT !.name[1] = DELETED]

Deleted(dir) == [i \in 1 .. SlotCount |-> MarkDeleted(dir[i])]

\* Mutant: the names are compared the other way round.
RemoveBelow(d, parent, entry) ==
  IF ~Used(entry) THEN Unwritten(d)
  ELSE InFirstSlot(Unwritten(d), parent.current_cluster,
                   {i \in 1 .. SlotCount :
                      memcmp_is_zero(entry.name, d.dir[parent.current_cluster][i].name)},
                   Deleted(d.dir[parent.current_cluster]))

RemoveEntry(d, parent, entry) ==
  IF ~Used(entry) THEN Unwritten(d)
  ELSE InFirstSlot(Unwritten(d), parent.current_cluster,
                   {i \in 1 .. SlotCount :
                      memcmp_is_zero(d.dir[parent.current_cluster][i].name, entry.name)},
                   Deleted(d.dir[parent.current_cluster]))

RemoveFrom(d, parent, name) ==
  IF ~parent.ctx THEN Unwritten(d)
  ELSE RemoveEntry(d, parent, fat32_find_file(d, parent.start_cluster, name))
fat32_remove(d, path) == RemoveFrom(d, fat32_open_file(d, Front(path)), Last(path))

\* Mutant: the first entry decides.
FirstIsDot(d, h) ==
  /\ Listing(d, h.start_cluster) # {}
  /\ Slots(d, h.start_cluster)[Min(Listing(d, h.start_cluster))].name[1] = DOT

EmptyDirectory(d, h) ==
  \A k \in Listing(d, h.start_cluster) : Slots(d, h.start_cluster)[k].name[1] = DOT

fat32_rmdir(d, path) ==
  IF fat32_open_file(d, path).is_dir /\ EmptyDirectory(d, fat32_open_file(d, path))
  THEN fat32_remove(d, path)
  ELSE Unwritten(d)

Updated(dir, start, size) ==
  [i \in 1 .. SlotCount |-> [dir[i] EXCEPT !.first_cluster = start, !.file_size = size]]

\* Mutant: the names are not compared.
UpdateFirst(d, parent, name, start, size) ==
  IF ~parent.ctx \/ ~parent.is_dir THEN Unwritten(d)
  ELSE InFirstSlot(Unwritten(d), parent.start_cluster,
                   {i \in 1 .. SlotCount : Used(d.dir[parent.start_cluster][i])},
                   Updated(d.dir[parent.start_cluster], start, size))

\* Only the first cluster of the directory is looked at.
UpdateIn(d, parent, name, start, size) ==
  IF ~parent.ctx \/ ~parent.is_dir THEN Unwritten(d)
  ELSE InFirstSlot(Unwritten(d), parent.start_cluster,
                   {i \in 1 .. SlotCount : Used(d.dir[parent.start_cluster][i])
                                           /\ d.dir[parent.start_cluster][i].name = name},
                   Updated(d.dir[parent.start_cluster], start, size))

fat32_update_file_entry(d, path, start, size) ==
  UpdateIn(d, fat32_open_file(d, Front(path)), Last(path), start, size)

-----------------------------------------------------------------------------
(* The contents of a file *)

InCluster(h) == h.file_offset % ClusterSize

\* fat32_read: h is the handle, out what was read so far, more what is wanted
\* still; -1 when the chain has ended.
Advance(r, d, n) ==
  [h |-> [r.h EXCEPT !.file_offset = @ + n, !.cluster_offset = @ + n],
   out |-> r.out \o [i \in 1 .. n |-> d.data[r.h.current_cluster][InCluster(r.h) + i - 1]],
   more |-> r.more - n]
CrossTo(r, next) ==
  IF next = 0 THEN [r EXCEPT !.h.current_cluster = 0, !.more = -1]
  ELSE [r EXCEPT !.h.current_cluster = next, !.h.cluster_offset = 0]

\* Mutant: off by one at the end of a cluster.
CrossLate(r, d) ==
  IF r.h.cluster_offset > ClusterSize
  THEN CrossTo(r, fat32_next_cluster(d, r.h.current_cluster)) ELSE r

CrossCluster(r, d) ==
  IF r.h.cluster_offset >= ClusterSize
  THEN CrossTo(r, fat32_next_cluster(d, r.h.current_cluster)) ELSE r

\* Mutant: the end of the file does not bound the chunk.
ReadWholeChunk(r, d) ==
  IF r.more <= 0 \/ r.h.file_offset >= r.h.size THEN r
  ELSE CrossCluster(Advance(r, d, Min({r.more, ClusterSize - InCluster(r.h)})), d)

ReadChunk(r, d) ==
  IF r.more <= 0 \/ r.h.file_offset >= r.h.size THEN r
  ELSE CrossCluster(Advance(r, d, Min({r.more, ClusterSize - InCluster(r.h),
                                       r.h.size - r.h.file_offset})), d)

fat32_read(d, file, n) ==
  FoldLeft(LAMBDA r, i : ReadChunk(r, d),
           [h |-> file, out |-> <<>>, more |-> n], [i \in 1 .. n |-> i])

\* The result of fat32_seek is the handle.  When it fails only the offset in
\* the file has changed.

\* Mutant: the offset in the cluster is left as it was.
SeekKeepsOffset(h, chain, k) ==
  IF k = 0 THEN [h EXCEPT !.current_cluster = h.start_cluster]
  ELSE IF k >= Len(chain) THEN h
  ELSE [h EXCEPT !.current_cluster = chain[k + 1]]

SeekIn(h, chain, k) ==
  IF k = 0 THEN [h EXCEPT !.current_cluster = h.start_cluster, !.cluster_offset = InCluster(h)]
  ELSE IF k >= Len(chain) THEN h
  ELSE [h EXCEPT !.current_cluster = chain[k + 1], !.cluster_offset = InCluster(h)]

fat32_seek(d, file, offset) ==
  SeekIn([file EXCEPT !.file_offset = offset], Chain(d, file.start_cluster),
         offset \div ClusterSize)

\* fat32_read_line: l.out is the line so far, r a chunk that was read after
\* it.  What was read behind the newline is given back with a seek; what did
\* not fit into the buffer is not.
GoBack(l, d, start) ==
  [l EXCEPT !.h = fat32_seek(d, l.h, start + Len(l.out)), !.done = TRUE]

\* Mutant: what was read before this chunk is dropped.
TakeFromChunk(l, r, d, taken, start) ==
  IF NEWLINE \in Range(taken)
  THEN GoBack([h |-> r.h, out |-> SubSeq(taken, 1, SelectInSeq(taken, LAMBDA b : b = NEWLINE)),
               done |-> TRUE], d, start)
  ELSE [h |-> r.h, out |-> l.out \o taken, done |-> taken = <<>>]

TakeLine(l, r, d, taken, start) ==
  IF NEWLINE \in Range(taken)
  THEN GoBack([h |-> r.h, done |-> TRUE,
               out |-> l.out \o SubSeq(taken, 1, SelectInSeq(taken, LAMBDA b : b = NEWLINE))],
              d, start)
  ELSE [h |-> r.h, out |-> l.out \o taken, done |-> taken = <<>>]

LineRound(l, r, d, room, start) ==
  TakeLine(l, r, d, SubSeq(r.out, 1, Min({room, Len(r.out)})), start)
fat32_read_line(d, file, size) ==
  FoldLeft(LAMBDA l, i :
             IF l.done \/ Len(l.out) >= size - 1 THEN l
             ELSE LineRound(l, fat32_read(d, l.h, LineChunk), d, size - 1 - Len(l.out),
                            file.file_offset),
           [h |-> file, out |-> <<>>, done |-> FALSE], [i \in 1 .. size |-> i])

\* fat32_write: the images, the handle and the bytes that are still to go; a
\* full disk drops them.
Link(w, new) ==
  IF w.h.current_cluster = 0 THEN [w EXCEPT !.h.start_cluster = new]
  ELSE [w EXCEPT !.images = set_fat_entry(@, w.h.current_cluster, new)]

\* Mutant: the new end of the chain is not marked.
NoMarkEnd(w, new) == [w EXCEPT !.h.current_cluster = new]

MarkEnd(w, new) ==
  [w EXCEPT !.images = set_fat_entry(@, new, FAT32_EOC), !.h.current_cluster = new]

Extend(w, new) ==
  IF new = 0 THEN [w EXCEPT !.todo = <<>>] ELSE MarkEnd(Link(w, new), new)
AtNewCluster(h) == InCluster(h) = 0 /\ h.file_offset >= h.size
Overwrite(data, at, bytes) ==
  [b \in DOMAIN data |-> IF b - at + 1 \in DOMAIN bytes THEN bytes[b - at + 1] ELSE data[b]]

\* Mutant: the bytes go to the start of the cluster.
PutAtStart(w, n) ==
  [images |-> WriteSector(w.images,
                [Last(w.images) EXCEPT !.data[w.h.current_cluster] =
                   Overwrite(@, 0, SubSeq(w.todo, 1, n))]),
   h |-> [w.h EXCEPT !.file_offset = @ + n, !.cluster_offset = @ + n,
                     !.size = Max({@, w.h.file_offset + n})],
   todo |-> SubSeq(w.todo, n + 1, Len(w.todo))]

PutBytes(w, n) ==
  [images |-> WriteSector(w.images,
                [Last(w.images) EXCEPT !.data[w.h.current_cluster] =
                   Overwrite(@, InCluster(w.h), SubSeq(w.todo, 1, n))]),
   h |-> [w.h EXCEPT !.file_offset = @ + n, !.cluster_offset = @ + n,
                     !.size = Max({@, w.h.file_offset + n})],
   todo |-> SubSeq(w.todo, n + 1, Len(w.todo))]

PutChunk(w) ==
  IF w.todo = <<>> THEN w
  ELSE PutBytes(w, Min({Len(w.todo), ClusterSize - InCluster(w.h)}))
WriteChunk(w) ==
  IF w.todo # <<>> /\ AtNewCluster(w.h)
  THEN PutChunk(Extend(w, find_free_cluster(Last(w.images)))) ELSE PutChunk(w)
WriteFrom(images, file, bytes) ==
  FoldLeft(LAMBDA w, i : WriteChunk(w), [images |-> images, h |-> file, todo |-> bytes], bytes)
fat32_write(d, file, bytes) == WriteFrom(Unwritten(d), file, bytes)

\* fat32_rewrite: the chain is freed from its head, then everything is written
\* anew.
FreeHead(s, next) == [images |-> set_fat_entry(s.images, s.c, 0), c |-> next]
FreeChain(d, start) ==
  FoldLeft(LAMBDA s, i : IF s.c = 0 THEN s
                         ELSE FreeHead(s, fat32_next_cluster(Last(s.images), s.c)),
           [images |-> Unwritten(d), c |-> start], [i \in 1 .. TotalClusters |-> i]).images

fat32_rewrite(d, file, bytes) ==
  WriteFrom(FreeChain(d, file.start_cluster), Handle(TRUE, 0, 0, FALSE), bytes)

=============================================================================
