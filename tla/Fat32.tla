------------------------------- MODULE Fat32 -------------------------------
(***************************************************************************)
(* The file system as its callers see it: one handle, the operations on    *)
(* it, the operations on paths, and a crash, which may fall between any    *)
(* two sector writes.                                                      *)
(*                                                                         *)
(* The callers enter what they wrote into the directory before they close  *)
(* (fat32_update_file_entry), read and write only through a handle that is *)
(* in its place (InSync), and change no directory while a file is open.    *)
(***************************************************************************)
EXTENDS Config

CONSTANTS
  InitialDisks,  \* disks as they may be mounted
  FilePaths,     \* paths of files
  DirPaths,      \* paths of directories
  Payloads,      \* byte sequences that are written
  ConfigKeys,    \* keys that are looked for in a file
  MaxSize,       \* bound: bytes of a file
  Crashes        \* whether the machine may crash

VARIABLES
  disk,
  file,    \* the handle
  path,    \* the path it was opened with
  dirty,   \* what the entry of the open file does not say: nothing, an
           \* extension, or that the old contents are gone
  torn     \* a crash, a failed update or a write over a boundary inside the
           \* file and on behind its end left the entry of a file, or its
           \* chain, wrong; the model ends there

vars == <<disk, file, path, dirty, torn>>

CLEAN     == "clean"
WRITTEN   == "written"
REWRITTEN == "rewritten"

\* The disk of mkfs.fat -n, and one whose root has grown to a second cluster
\* that holds the only file.
Label == Entry(<<4, 1>>, ATTR_VOLUME_ID, 0, 0)
EmptyDisk == [fat  |-> [i \in 1 .. FatCount |->
                          [c \in Clusters |-> IF c = root_cluster THEN FAT32_EOC ELSE 0]],
              dir  |-> [c \in Clusters |-> ZeroDir],
              data |-> [c \in Clusters |-> ZeroData]]
FreshDisk == [EmptyDisk EXCEPT !.dir[root_cluster][1] = Label]
GrownDisk(name) ==
  [EmptyDisk EXCEPT
    !.fat = [i \in 1 .. FatCount |->
               [@[i] EXCEPT ![root_cluster] = 3, ![3] = FAT32_EOC, ![4] = FAT32_EOC]],
    !.dir = [@ EXCEPT ![root_cluster] = [s \in 1 .. SlotCount |->
                                           Entry(<<DELETED, 1>>, ATTR_ARCHIVE, 0, 0)],
                      ![3][1] = Entry(name, ATTR_ARCHIVE, 4, 1)]]

Entries ==
  [name          : Nat \X Nat,
   attributes    : {"none", ATTR_ARCHIVE, ATTR_DIRECTORY, ATTR_VOLUME_ID},
   first_cluster : {0} \cup Clusters,
   file_size     : 0 .. MaxSize]
Disks ==
  [fat  : [1 .. FatCount -> [Clusters -> {0, FAT32_EOC} \cup Clusters]],
   dir  : [Clusters -> [1 .. SlotCount -> Entries]],
   data : [Clusters -> [0 .. ClusterSize - 1 -> Bytes]]]
Handles ==
  [ctx : BOOLEAN, start_cluster : {0} \cup Clusters, current_cluster : {0} \cup Clusters,
   cluster_offset : Nat, file_offset : Nat, size : 0 .. MaxSize, is_dir : BOOLEAN]

ASSUME Fat32Assumption ==
  /\ MaxSize \in Nat /\ Crashes \in BOOLEAN
  /\ InitialDisks \subseteq Disks
  /\ FilePaths \cup DirPaths \subseteq Seq(Nat \X Nat) \ {<<>>}
  /\ \A p \in FilePaths \cup DirPaths : \A k \in DOMAIN p : p[k][1] \notin {END, DELETED}
  /\ \A bytes \in Payloads : bytes \in Seq(Bytes) /\ Len(bytes) <= MaxSize

Init ==
  /\ disk \in InitialDisks
  /\ file = NoFile
  /\ path = <<>>
  /\ dirty = CLEAN
  /\ torn = FALSE

-----------------------------------------------------------------------------
(* What the handle says and what the disk says *)

\* The handle is where its offset is: the next byte that is read or written
\* is in current_cluster, or at the end of the file the last byte is; and the
\* chain has clusters for the size, as Sound says of every handle.
Holds(chain, size) == size <= ClusterSize * Len(chain)
InSync(d, h) ==
  /\ Holds(Chain(d, h.start_cluster), h.size)
  /\ h.file_offset < h.size =>
       /\ h.cluster_offset = InCluster(h)
       /\ h.current_cluster = Chain(d, h.start_cluster)[h.file_offset \div ClusterSize + 1]
  /\ h.file_offset = h.size =>
       h.current_cluster = IF h.size = 0 THEN h.start_cluster
                           ELSE Chain(d, h.start_cluster)[(h.size - 1) \div ClusterSize + 1]

\* The bytes of a chain.
Content(d, chain, size) ==
  [i \in 1 .. size |-> d.data[chain[(i - 1) \div ClusterSize + 1]][(i - 1) % ClusterSize]]
ContentOf(d, h) == Content(d, Chain(d, h.start_cluster), h.size)

\* The path leads to the start and the size of the handle.
EntryIsCurrent(d) ==
  /\ fat32_open_file(d, path).start_cluster = file.start_cluster
  /\ fat32_open_file(d, path).size = file.size

\* A link to a cluster that is free.
Dangling(d) ==
  \E c \in Clusters : d.fat[1][c] \in Clusters /\ d.fat[1][d.fat[1][c]] = 0

-----------------------------------------------------------------------------
(* What owns the clusters of a disk *)

\* The slots that name a file or a directory of its own.
EntrySlots(d) ==
  {s \in Clusters \X (1 .. SlotCount) :
     LET e == d.dir[s[1]][s[2]]
     IN  Used(e) /\ e.name[1] # DOT /\ e.attributes \in {ATTR_ARCHIVE, ATTR_DIRECTORY}}
EntryAt(d, s) == d.dir[s[1]][s[2]]
ChainAt(d, s) == Chain(d, EntryAt(d, s).first_cluster)

\* A chain ends, and no cluster of it is free.
ProperChain(d, chain) ==
  /\ Len(chain) <= TotalClusters
  /\ \A i \in DOMAIN chain : d.fat[1][chain[i]] # 0
Disjoint(c1, c2) == Range(c1) \cap Range(c2) = {}

\* The slots that are in use, and what fat32_open_file takes them for.
UsedSlots(d) == {s \in Clusters \X (1 .. SlotCount) : Used(EntryAt(d, s))}
Files(d) ==
  {s \in UsedSlots(d) : EntryAt(d, s).attributes \notin {ATTR_DIRECTORY, ATTR_VOLUME_ID}}
Dirs(d) == {s \in UsedSlots(d) : IsDir(EntryAt(d, s))}

\* Where the directories start, and those that have an entry of their own.
DirStarts(d) == {root_cluster} \cup {EntryAt(d, s).first_cluster : s \in Dirs(d)}
OwnDirs(d) == Dirs(d) \cap EntrySlots(d)

\* A disk as it is mounted.  Chains are proper, those of files are as long as
\* the files and shared with nothing, those of directories only with the dots,
\* which stand for whole directories.  Entries are in clusters that are taken,
\* though not by files, and none is in use behind the end of its directory.
WellFormed(d) ==
  /\ \A b \in DirStarts(d) :
       /\ ProperChain(d, Chain(d, b))
       /\ \A c \in DirStarts(d) : Chain(d, b) = Chain(d, c) \/ Disjoint(Chain(d, b), Chain(d, c))
       /\ \A j \in DOMAIN AllSlots(d, b) : \A i \in 1 .. j - 1 :
            AllSlots(d, b)[i].name[1] = END => ~Used(AllSlots(d, b)[j])
  /\ \A s \in OwnDirs(d) :
       /\ Disjoint(ChainAt(d, s), Chain(d, root_cluster))
       /\ \A t \in OwnDirs(d) \ {s} : Disjoint(ChainAt(d, s), ChainAt(d, t))
  /\ \A s \in Dirs(d) : EntryAt(d, s).file_size = 0
  /\ \A s \in Files(d) :
       /\ ProperChain(d, ChainAt(d, s)) /\ Holds(ChainAt(d, s), EntryAt(d, s).file_size)
       /\ EntryAt(d, s).file_size = 0 => EntryAt(d, s).first_cluster = 0
       /\ \A c \in DirStarts(d) : Disjoint(ChainAt(d, s), Chain(d, c))
       /\ \A t \in Files(d) \ {s} : Disjoint(ChainAt(d, s), ChainAt(d, t))
       /\ \A t \in UsedSlots(d) : t[1] \notin Range(ChainAt(d, s))
  /\ \A s \in UsedSlots(d) : d.fat[1][s[1]] # 0

ASSUME MountAssumption == \A d \in InitialDisks : WellFormed(d)

-----------------------------------------------------------------------------
(* Operations on the handle *)

Open(p) ==
  /\ ~torn /\ ~file.ctx
  /\ fat32_open_file(disk, p).ctx /\ ~fat32_open_file(disk, p).is_dir
  /\ file' = fat32_open_file(disk, p)
  /\ path' = p
  /\ UNCHANGED <<disk, dirty, torn>>

Close ==
  /\ ~torn /\ file.ctx /\ dirty = CLEAN
  /\ file' = NoFile
  /\ path' = <<>>
  /\ UNCHANGED <<disk, dirty, torn>>

Read(n) ==
  /\ ~torn /\ file.ctx /\ InSync(disk, file)
  /\ file' = fat32_read(disk, file, n).h
  /\ UNCHANGED <<disk, path, dirty, torn>>

ReadLine(size) ==
  /\ ~torn /\ file.ctx /\ InSync(disk, file)
  /\ file' = fat32_read_line(disk, file, size).h
  /\ UNCHANGED <<disk, path, dirty, torn>>

ConfigGetStr(key, size, buffer) ==
  /\ ~torn /\ file.ctx /\ InSync(disk, file)
  /\ file' = config_get_str(disk, file, key, size, buffer).h
  /\ UNCHANGED <<disk, path, dirty, torn>>

Seek(offset) ==
  /\ ~torn /\ file.ctx /\ offset <= file.size
  /\ file' = fat32_seek(disk, file, offset)
  /\ UNCHANGED <<disk, path, dirty, torn>>

\* A boundary of clusters inside the file, that a write from offset a to b
\* goes over or stops at.
InteriorBoundary(a, b, size) ==
  \E m \in a + 1 .. b : m % ClusterSize = 0 /\ m < size

\* fat32_write follows no links: a write that goes over such a boundary and on
\* to a new cluster behind the file links it to the cluster the write began in.
CutsShort(bytes) ==
  /\ file.file_offset + Len(bytes) > file.size
  /\ InteriorBoundary(file.file_offset, file.file_offset + Len(bytes), file.size)
  /\ disk'.fat[1] # disk.fat[1]

CanWrite(bytes) ==
  ~torn /\ file.ctx /\ InSync(disk, file) /\ file.file_offset + Len(bytes) <= MaxSize

AfterWrite(h) ==
  IF dirty = REWRITTEN \/ h.size = file.size THEN dirty ELSE WRITTEN

Write(bytes) ==
  /\ CanWrite(bytes)
  /\ disk' = Last(fat32_write(disk, file, bytes).images)
  /\ file' = fat32_write(disk, file, bytes).h
  /\ dirty' = AfterWrite(file')
  /\ torn' = CutsShort(bytes)
  /\ UNCHANGED path

Rewrite(bytes) ==
  /\ ~torn /\ file.ctx
  /\ disk' = Last(fat32_rewrite(disk, file, bytes).images)
  /\ file' = fat32_rewrite(disk, file, bytes).h
  /\ dirty' = REWRITTEN
  /\ UNCHANGED <<path, torn>>

\* The caller goes on as if the update had worked: it has no other way to
\* enter the file.
UpdateEntry ==
  /\ ~torn /\ file.ctx /\ dirty # CLEAN
  /\ disk' = Last(fat32_update_file_entry(disk, path, file.start_cluster, file.size))
  /\ dirty' = CLEAN
  /\ torn' = (dirty = REWRITTEN /\ ~EntryIsCurrent(disk'))
  /\ UNCHANGED <<file, path>>

-----------------------------------------------------------------------------
(* Operations on paths *)

OnPath(images) ==
  /\ ~torn /\ ~file.ctx
  /\ disk' = Last(images)
  /\ UNCHANGED <<file, path, dirty, torn>>

Create(p) == OnPath(fat32_create(disk, p))
Mkdir(p)  == OnPath(fat32_mkdir(disk, p))
RemovePath(p) == OnPath(fat32_remove(disk, p))
Rmdir(p)  == OnPath(fat32_rmdir(disk, p))

-----------------------------------------------------------------------------
(* A crash *)

\* The machine stops after one of the sector writes, and starts again.
CrashIn(images) ==
  /\ Crashes /\ ~torn
  /\ \E k \in DOMAIN images : disk' = images[k]
  /\ file' = NoFile
  /\ path' = <<>>
  /\ dirty' = CLEAN

Stale == dirty = REWRITTEN /\ ~EntryIsCurrent(disk)

CrashIdle == CrashIn(Unwritten(disk)) /\ torn' = Stale
CrashInWrite(bytes) ==
  /\ CanWrite(bytes)
  /\ CrashIn(fat32_write(disk, file, bytes).images)
  /\ torn' = (Stale \/ Dangling(disk') \/ CutsShort(bytes))
CrashInRewrite(bytes) ==
  /\ file.ctx
  /\ CrashIn(fat32_rewrite(disk, file, bytes).images)
  /\ torn' = (Stale \/ disk' # disk)
CrashInMkdir(p) ==
  ~file.ctx /\ CrashIn(fat32_mkdir(disk, p)) /\ torn' = FALSE

Crash ==
  \/ CrashIdle
  \/ \E bytes \in Payloads : CrashInWrite(bytes) \/ CrashInRewrite(bytes)
  \/ \E p \in DirPaths : CrashInMkdir(p)

Next ==
  \/ \E p \in FilePaths : Open(p) \/ Create(p)
  \/ \E p \in DirPaths : Mkdir(p) \/ Rmdir(p)
  \/ \E p \in FilePaths \cup DirPaths : RemovePath(p)
  \/ \E n \in 1 .. MaxSize : Read(n)
  \/ \E size \in 2 .. MaxSize + 1 : ReadLine(size)
  \/ \E key \in ConfigKeys, size, buffer \in {3, MaxSize + 1} : ConfigGetStr(key, size, buffer)
  \/ \E offset \in 0 .. MaxSize : Seek(offset)
  \/ \E bytes \in Payloads : Write(bytes) \/ Rewrite(bytes)
  \/ UpdateEntry
  \/ Close
  \/ Crash

Spec == Init /\ [][Next]_vars

-----------------------------------------------------------------------------
(* Properties *)

\* The state has its type.
TypeOK ==
  /\ disk \in Disks
  /\ file \in Handles /\ file.file_offset <= file.size
  /\ path \in FilePaths \cup {<<>>} /\ file.ctx = (path # <<>>)
  /\ dirty \in {CLEAN, WRITTEN, REWRITTEN} /\ (dirty # CLEAN => file.ctx)
  /\ torn \in BOOLEAN

\* The entries that the open handle may stand for: the path leads to their
\* directory and has their name next.
Mine(s) ==
  /\ file.ctx /\ ~IsDir(EntryAt(disk, s))
  /\ \E k \in DOMAIN path :
       LET parent == fat32_open_file(disk, SubSeq(path, 1, k - 1))
       IN  /\ parent.is_dir /\ s[1] \in Range(Chain(disk, parent.start_cluster))
           /\ EntryAt(disk, s).name = path[k]

\* The chains of the files, of the directories and of the open handle are
\* proper, no two share a cluster, and no chain is shorter than the size that
\* its entry or its handle says, so that a read never runs off it: neither
\* the order of the writes of fat32_mkdir, fat32_write and
\* fat32_update_file_entry, nor a full disk, nor a crash, outside of what torn
\* names, gives a cluster to two owners or a size without clusters.
Sound ==
  ~torn =>
    LET slots == {s \in EntrySlots(disk) : ~(Mine(s) /\ dirty # CLEAN)}
        mine  == Chain(disk, file.start_cluster)
    IN  /\ ProperChain(disk, Chain(disk, root_cluster))
        /\ \A s \in slots :
             /\ ProperChain(disk, ChainAt(disk, s))
             /\ Holds(ChainAt(disk, s), EntryAt(disk, s).file_size)
             /\ Disjoint(ChainAt(disk, s), Chain(disk, root_cluster))
             /\ \A t \in slots \ {s} : Disjoint(ChainAt(disk, s), ChainAt(disk, t))
             /\ Disjoint(ChainAt(disk, s), mine) \/ (Mine(s) /\ ChainAt(disk, s) = mine)
        /\ ProperChain(disk, mine) /\ Holds(mine, file.size)

\* Every change of the FAT ends with all its copies alike ("update all FAT
\* copies", fat32.c:200), even if a crash had left them apart.
CopiesAgree ==
  [][~Crash /\ disk'.fat[1] # disk.fat[1] =>
       \A i \in 1 .. FatCount : disk'.fat[i] = disk'.fat[1]]_vars

\* A read through a handle in its place returns the bytes of the file from
\* the offset on, as many as there are, over the ends of clusters.
ReadIsExact ==
  ~torn /\ file.ctx /\ InSync(disk, file) =>
    \A n \in 1 .. MaxSize :
      fat32_read(disk, file, n).out =
        SubSeq(ContentOf(disk, file), file.file_offset + 1, Min({file.file_offset + n, file.size}))

\* A line that fits into the buffer is read whole, and the handle is left
\* behind its newline, however many chunks and clusters were read for it.
LineEnd(bytes) ==
  IF NEWLINE \in Range(bytes) THEN SelectInSeq(bytes, LAMBDA b : b = NEWLINE) ELSE Len(bytes)
LinesAreWhole ==
  ~torn /\ file.ctx /\ InSync(disk, file) =>
    LET rest == SubSeq(ContentOf(disk, file), file.file_offset + 1, file.size)
    IN  \A size \in 2 .. MaxSize + 1 : LineEnd(rest) < size =>
          /\ fat32_read_line(disk, file, size).out = SubSeq(rest, 1, LineEnd(rest))
          /\ fat32_read_line(disk, file, size).h.file_offset = file.file_offset + LineEnd(rest)

\* The fields of a line: its longest runs of bytes without a separator.
Fields(bytes) ==
  {r \in (1 .. Len(bytes)) \X (1 .. Len(bytes)) :
     /\ r[1] <= r[2] /\ \A k \in r[1] .. r[2] : bytes[k] # EQUALS
     /\ r[1] = 1 \/ bytes[r[1] - 1] = EQUALS
     /\ r[2] = Len(bytes) \/ bytes[r[2] + 1] = EQUALS}
Field(bytes, n) ==
  {SubSeq(bytes, r[1], r[2]) : r \in {f \in Fields(bytes) :
     Cardinality({g \in Fields(bytes) : g[1] < f[1]}) = n - 1}}

\* The lines of the bytes, with their newlines.
LineStarts(bytes) ==
  {k \in DOMAIN bytes : k = 1 \/ bytes[k - 1] = NEWLINE}
LineAt(bytes, k) ==
  SubSeq(SubSeq(bytes, k, Len(bytes)), 1, LineEnd(SubSeq(bytes, k, Len(bytes))))

\* In a text file whose lines fit into the buffer, the value of a key is the
\* second field of the first line that has the key for its first and has a
\* second, newline included and cut to the size of the caller, wherever the
\* line lies in the chain of clusters; and there is no other value.
\* (config.c:9-20, strtok)
ConfigIsFound ==
  ~torn /\ file.ctx /\ InSync(disk, file) =>
    LET rest == SubSeq(ContentOf(disk, file), file.file_offset + 1, file.size)
        lines == LineStarts(rest)
    IN  \A key \in ConfigKeys, buffer, size \in {3, MaxSize + 1} :
          LET c == config_get_str(disk, file, key, size, buffer)
              with == {k \in lines : key \in Field(LineAt(rest, k), 1)
                                    /\ Field(LineAt(rest, k), 2) # {}}
          IN  0 \notin Range(rest) /\ (\A k \in lines : Len(LineAt(rest, k)) < buffer) =>
                /\ c.found = (with # {})
                /\ with # {} => {c.out} = {SubSeq(v, 1, Min({size - 1, Len(v)})) :
                                            v \in Field(LineAt(rest, Min(with)), 2)}

\* A handle in its place loses it in three ways only: it reads or seeks to
\* the end of a file that fills its last cluster, or overwrites up to a
\* boundary of clusters inside the file.
HandleStaysInSync ==
  [][file.ctx /\ file'.ctx /\ InSync(disk, file) =>
       \/ InSync(disk', file')
       \/ /\ disk' = disk /\ file'.file_offset = file.size
          /\ file.size % ClusterSize = 0
       \/ /\ \E bytes \in Payloads : Write(bytes)
          /\ InteriorBoundary(file.file_offset, file'.file_offset, file.size)]_vars

\* What a write leaves in the file is what was there with the bytes that were
\* taken written over it, all of them unless the disk is full; a rewrite
\* leaves only the bytes.
Taken == file'.file_offset - file.file_offset
WriteIsExact ==
  [][\A bytes \in Payloads :
       /\ Write(bytes) /\ ~InteriorBoundary(file.file_offset, file'.file_offset, file.size) =>
            /\ Taken = Len(bytes) \/ FreeClusters(disk') = {}
            /\ ContentOf(disk', file') =
                 [i \in 1 .. Max({file.size, file'.file_offset}) |->
                    IF i - file.file_offset \in 1 .. Taken THEN bytes[i - file.file_offset]
                    ELSE ContentOf(disk, file)[i]]
       /\ Rewrite(bytes) =>
            /\ file'.size = Len(bytes) \/ FreeClusters(disk') = {}
            /\ ContentOf(disk', file') = SubSeq(bytes, 1, file'.size)]_vars

\* Whatever is done through the handle or to a path, and wherever a crash
\* falls, the other files keep their bytes, and an entry that is not the
\* handle's is changed only by being deleted.
OthersUntouched ==
  [][\A s \in EntrySlots(disk) : ~Mine(s) =>
       /\ EntryAt(disk', s) \in {EntryAt(disk, s), MarkDeleted(EntryAt(disk, s))}
       /\ Content(disk', ChainAt(disk', s), EntryAt(disk, s).file_size) =
            Content(disk, ChainAt(disk, s), EntryAt(disk, s).file_size)]_vars

\* The slot that fat32_read_dir never returns: the last of the last cluster.
LastSlot(d, c) == <<Last(Chain(d, c)), SlotCount>>
ParentCluster(d, p) == fat32_open_file(d, Front(p)).start_cluster
Changed(s) == EntryAt(disk', s) # EntryAt(disk, s)

\* What was created is found, unless it went into the slot that no listing
\* reaches.
CreatedIsFound ==
  [][\A p \in FilePaths : disk' # disk /\ Create(p) =>
       \/ fat32_open_file(disk', p).ctx
       \/ Changed(LastSlot(disk, ParentCluster(disk, p)))]_vars

\* A remove deletes an entry of the name that was asked for, unless an earlier
\* slot of the directory, even a deleted one or the label, has a name that
\* memcmp of the library takes for it.
RemovesTheNamed ==
  [][\A p \in FilePaths \cup DirPaths : disk' # disk /\ RemovePath(p) =>
       \A s \in EntrySlots(disk) \cup {<<root_cluster, 1>>} : Changed(s) =>
         \/ EntryAt(disk, s).name = Last(p)
         \/ /\ s[1] = ParentCluster(disk, p)
            /\ memcmp_is_zero(EntryAt(disk, s).name, Last(p))
            /\ \A i \in 1 .. s[2] - 1 : EntryAt(disk, <<s[1], i>>).name # Last(p)]_vars

\* A directory that fat32_rmdir removes has no file that a listing of it
\* would show.
RmdirOnlyEmpty ==
  [][\A p \in DirPaths : disk' # disk /\ Rmdir(p) =>
       LET c == fat32_open_file(disk, p).start_cluster
       IN  \A s \in EntrySlots(disk) : s[1] \in Range(Chain(disk, c)) => s = LastSlot(disk, c)]_vars
=============================================================================
