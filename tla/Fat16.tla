------------------------------- MODULE Fat16 -------------------------------
(***************************************************************************)
(* The file system in the RAM disk (fat16/fs.c): the table of entries, the *)
(* FAT, and the clusters.  Every caller runs an operation to its end, so   *)
(* an operation is one action; one that returns an error and changes       *)
(* nothing is a stuttering step.  A file's bytes are what a write was      *)
(* given: each cluster remembers whose bytes it holds and which piece.     *)
(* The fields of an entry that is not used, which no function reads before *)
(* memset clears them, and the bytes of a cluster that no entry leads to   *)
(* are left out.                                                           *)
(***************************************************************************)
EXTENDS Integers, Sequences, FiniteSets, FiniteSetsExt

CONSTANTS
  FAT_ENTRIES,      \* clusters are numbered 2 .. FAT_ENTRIES - 1
  FS_MAX_ENTRIES,
  ClusterSize,      \* BYTES_PER_SECTOR * SECTORS_PER_CLUSTER
  Names,            \* the names of directories that callers use ...
  FileNames,        \* ... and of files, each with its extension, "" for none
  LongNames,        \* the names that do not fit into FS_NAME_MAX bytes
  Sizes,            \* the sizes of files that are written
  Values            \* what is written

\* Cut is what strncpy stores of a long name: a shorter name that callers may
\* use as well.
Cut == "cut"

EOF == 65535        \* 0xFFFF

ASSUME Fat16Assumption ==
  /\ FAT_ENTRIES \in Nat /\ 2 < FAT_ENTRIES /\ FAT_ENTRIES <= EOF
  /\ FS_MAX_ENTRIES \in Nat /\ 1 < FS_MAX_ENTRIES
  /\ ClusterSize \in Nat \ {0}
  /\ Cut \notin LongNames
  /\ Sizes \subseteq Nat

VARIABLES
  entries,
  fat,
  disk,             \* what the clusters hold
  written           \* for every entry, what was last written to it

vars == <<entries, fat, disk, written>>

Cluster == 2 .. FAT_ENTRIES - 1

Index == 0 .. FS_MAX_ENTRIES - 1

Free == 0

Root == 0           \* FS_ROOT_IDX

NoEntry == [used |-> FALSE, is_dir |-> FALSE, name |-> "", ext |-> "",
            parent |-> 0, first_cluster |-> 0, size |-> 0]

Nothing == [value |-> 0, piece |-> 0]

fs_init ==
  /\ entries = [i \in Index |->
                  IF i = Root
                  THEN [NoEntry EXCEPT !.used = TRUE, !.is_dir = TRUE,
                                       !.name = "/", !.parent = -1]
                  ELSE NoEntry]
  /\ fat = [c \in Cluster |-> Free]

Init ==
  /\ fs_init
  /\ disk = [c \in Cluster |-> Nothing]
  /\ written = [i \in Index |-> [value |-> 0, size |-> 0]]

-----------------------------------------------------------------------------
\* The clusters of the chain that starts at c, in order; none for a number
\* that is not a cluster's or whose cluster is free.
Chain(f, c) ==
  LET from[n \in 0 .. FAT_ENTRIES - 3] == [d \in Cluster |->
        IF f[d] = Free THEN <<>>
        ELSE IF f[d] = EOF \/ n = 0 THEN <<d>>
        ELSE <<d>> \o from[n - 1][f[d]]]
  IN  IF c \in Cluster THEN from[FAT_ENTRIES - 3][c] ELSE <<>>

\* What the clusters hold when the FAT becomes f and the table becomes e.
Kept(d, f, e) ==
  [c \in Cluster |->
     IF \E i \in Index : e[i].used /\ c \in Range(Chain(f, e[i].first_cluster)) THEN d[c]
     ELSE Nothing]

FreeClusters(f) == {c \in Cluster : f[c] = Free}

\* Mutant: the search does not look whether a cluster is free.
AllocFirst(f) == Min(Cluster)

\* The cluster found, or 0.  The caller's table has it marked EOF.
alloc_cluster(f) == IF FreeClusters(f) = {} THEN 0 ELSE Min(FreeClusters(f))

MarkEOF(f, c) == [f EXCEPT ![c] = EOF]

\* Mutant: only the first cluster is released.
FreeFirstCluster(f, first) == IF first \in Cluster THEN [f EXCEPT ![first] = Free] ELSE f

free_cluster_chain(f, first) ==
  LET chain == Range(Chain(f, first))
  IN  [c \in Cluster |-> IF c \in chain THEN Free ELSE f[c]]

find_free_entry ==
  LET unused == {i \in Index \ {Root} : ~ entries[i].used}
  IN  IF unused = {} THEN -1 ELSE Min(unused)

\* Mutant: only directories count as children.
HasDirectories(idx) ==
  \E i \in Index : entries[i].used /\ entries[i].is_dir /\ entries[i].parent = idx

has_children(idx) == \E i \in Index : entries[i].used /\ entries[i].parent = idx

\* What is stored of a name, and how a stored name compares with one that a
\* caller gives: over FS_NAME_MAX bytes, so that a long name differs from
\* whatever is stored.
Stored(name) == IF name \in LongNames THEN Cut ELSE name

nameeq(stored, name) == stored = name

IsDirectory(idx) == entries[idx].used /\ entries[idx].is_dir

In(i, parent) == entries[i].used /\ entries[i].parent = parent

fs_find_in_dir(name, ext, parent) ==
  LET found == {i \in Index :
                  /\ In(i, parent)
                  /\ nameeq(entries[i].name, name)
                  /\ IF entries[i].is_dir THEN ext = "" ELSE nameeq(entries[i].ext, ext)}
  IN  IF found = {} THEN -1 ELSE Min(found)

\* The number of clusters that size bytes need, one at least.
Pieces(size) == IF size = 0 THEN 1 ELSE (size + ClusterSize - 1) \div ClusterSize

Ascending(S) ==
  CHOOSE s \in [1 .. Cardinality(S) -> S] : \A i, j \in DOMAIN s : i < j => s[i] < s[j]

\* The clusters that the loop of fs_write with its alloc_cluster calls goes
\* through: those of the chain, and then the lowest free ones while there are
\* any.
Taken(f, first, size) ==
  LET chain == Chain(f, first) \o Ascending(FreeClusters(f))
  IN  IF first \notin Cluster THEN <<>>
      ELSE SubSeq(chain, 1, IF Pieces(size) < Len(chain) THEN Pieces(size) ELSE Len(chain))

\* The loop of fs_write: the chain ends after the last cluster it writes.
fs_write(f, first, value, size) ==
  LET s     == Taken(f, first, size)
      At(c) == CHOOSE i \in DOMAIN s : s[i] = c
  IN  [fat  |-> [c \in Cluster |-> IF c \notin Range(s) THEN f[c]
                                   ELSE IF At(c) = Len(s) THEN EOF ELSE s[At(c) + 1]],
       disk |-> [c \in Cluster |-> IF c \notin Range(s) THEN disk[c]
                                   ELSE [value |-> value, piece |-> At(c)]],
       written |-> IF Len(s) * ClusterSize < size THEN Len(s) * ClusterSize ELSE size]

\* Mutant: the last cluster is read only if it is full.
ReadFullPieces(first, size) ==
  [i \in 1 .. size \div ClusterSize |-> disk[Chain(fat, first)[i]]]

\* What fs_read copies, piece by piece.
fs_read(first, size) ==
  LET chain == Chain(fat, first)
      n     == IF Pieces(size) < Len(chain) THEN Pieces(size) ELSE Len(chain)
  IN  IF size = 0 THEN <<>> ELSE [i \in 1 .. n |-> disk[chain[i]]]
-----------------------------------------------------------------------------
NewDirectory(name, parent) ==
  [NoEntry EXCEPT !.used = TRUE, !.is_dir = TRUE, !.name = Stored(name), !.parent = parent]

NewFile(name, ext, parent, c) ==
  [NoEntry EXCEPT !.used = TRUE, !.name = Stored(name), !.ext = ext,
                  !.parent = parent, !.first_cluster = c]

Unwritten(i) == [written EXCEPT ![i] = [value |-> 0, size |-> 0]]

fs_mkdir(name, parent) ==
  LET idx == find_free_entry
  IN  /\ IsDirectory(parent)
      /\ ~ \E i \in Index : In(i, parent) /\ entries[i].is_dir /\ nameeq(entries[i].name, name)
      /\ idx # -1
      /\ entries' = [entries EXCEPT ![idx] = NewDirectory(name, parent)]
      /\ written' = Unwritten(idx)
      /\ UNCHANGED <<fat, disk>>

fs_rmdir(idx) ==
  /\ idx # Root
  /\ IsDirectory(idx)
  /\ ~ has_children(idx)
  /\ entries' = [entries EXCEPT ![idx] = NoEntry]
  /\ disk' = Kept(disk, fat, entries')
  /\ written' = Unwritten(idx)
  /\ UNCHANGED fat

\* Mutant: nobody looks for a duplicate.
CanCreateTwice(name, ext, parent) ==
  IsDirectory(parent) /\ find_free_entry # -1 /\ alloc_cluster(fat) # 0

\* The checks of fs_create_file.
CanCreate(name, ext, parent) ==
  /\ IsDirectory(parent)
  /\ ~ \E i \in Index : /\ In(i, parent) /\ ~ entries[i].is_dir
                        /\ nameeq(entries[i].name, name) /\ nameeq(entries[i].ext, ext)
  /\ find_free_entry # -1
  /\ alloc_cluster(fat) # 0

fs_create_file(name, ext, parent) ==
  LET idx == find_free_entry
      c   == alloc_cluster(fat)
  IN  /\ CanCreate(name, ext, parent)
      /\ entries' = [entries EXCEPT ![idx] = NewFile(name, ext, parent, c)]
      /\ fat' = MarkEOF(fat, c)
      /\ written' = Unwritten(idx)
      /\ UNCHANGED disk

\* For a directory it does what fs_rmdir does.
fs_remove_entry(idx) ==
  /\ idx # Root
  /\ entries[idx].used
  /\ entries[idx].is_dir => ~ has_children(idx)
  /\ fat' = IF entries[idx].is_dir THEN fat
            ELSE free_cluster_chain(fat, entries[idx].first_cluster)
  /\ entries' = [entries EXCEPT ![idx] = NoEntry]
  /\ disk' = Kept(disk, fat', entries')
  /\ written' = Unwritten(idx)

\* The last part of fs_write_file_in_dir: entry e, at idx, gets its bytes.
Fill(idx, e, f, value, size) ==
  LET w == fs_write(f, e.first_cluster, value, size)
  IN  IF size = 0
      THEN /\ entries' = [entries EXCEPT ![idx] = [e EXCEPT !.size = 0]]
           /\ fat' = MarkEOF(f, e.first_cluster)
           /\ disk' = Kept(disk, fat', entries')
           /\ written' = Unwritten(idx)
      ELSE /\ entries' = [entries EXCEPT ![idx] = [e EXCEPT !.size = w.written]]
           /\ fat' = w.fat
           /\ disk' = Kept(w.disk, w.fat, entries')
           /\ written' = [written EXCEPT ![idx] = [value |-> value, size |-> w.written]]

WriteNew(name, ext, parent, value, size) ==
  LET c == alloc_cluster(fat)
  IN  /\ CanCreate(name, ext, parent)
      /\ Fill(find_free_entry, NewFile(name, ext, parent, c), MarkEOF(fat, c), value, size)

\* The old chain is released before a first cluster is allocated.  If there is
\* none the entry keeps its old first_cluster.
WriteOld(idx, value, size) ==
  LET freed == free_cluster_chain(fat, entries[idx].first_cluster)
      c     == alloc_cluster(freed)
  IN  IF c = 0
      THEN fat' = freed /\ disk' = Kept(disk, freed, entries) /\ UNCHANGED <<entries, written>>
      ELSE Fill(idx, [entries[idx] EXCEPT !.first_cluster = c], MarkEOF(freed, c),
                value, size)

fs_write_file_in_dir(name, ext, parent, value, size) ==
  /\ IsDirectory(parent)
  /\ \E idx \in {fs_find_in_dir(name, ext, parent)} :
       \/ idx = -1 /\ WriteNew(name, ext, parent, value, size)
       \/ idx # -1 /\ WriteOld(idx, value, size)

Next ==
  \/ \E name \in Names, parent \in Index : fs_mkdir(name, parent)
  \/ \E idx \in Index : fs_rmdir(idx) \/ fs_remove_entry(idx)
  \/ \E file \in FileNames, parent \in Index :
       \/ fs_create_file(file.name, file.ext, parent)
       \/ \E value \in Values, size \in Sizes :
            fs_write_file_in_dir(file.name, file.ext, parent, value, size)

Spec == Init /\ [][Next]_vars

-----------------------------------------------------------------------------
Files == {i \in Index : entries[i].used /\ ~ entries[i].is_dir}

Owners == {i \in Index : entries[i].used}

ChainOf(i) == Chain(fat, entries[i].first_cluster)

\* The clusters that are not free and belong to no entry.
Lost == {c \in Cluster : fat[c] # Free /\ \A i \in Owners : c \notin Range(ChainOf(i))}

\* The tables of fs.c hold what their declarations say.
TypeOK ==
  /\ \A i \in Index :
       /\ entries[i].parent \in Index \cup {-1}
       /\ entries[i].first_cluster \in Cluster \cup {0}
       /\ entries[i].size \in Nat
  /\ fat \in [Cluster -> Cluster \cup {Free, EOF}]

\* From every entry in use the parents lead to the root, through directories
\* in use only, whatever was removed and whichever slots were used again: of
\* any entries without the root, one has its parent outside them.
TreeRooted ==
  /\ IsDirectory(Root)
  /\ \A i \in Owners \ {Root} : entries[i].parent \in Index /\ IsDirectory(entries[i].parent)
  /\ \A S \in SUBSET (Owners \ {Root}) : S # {} => \E i \in S : entries[i].parent \notin S

\* Every file has a chain that ends with EOF, and no cluster belongs to two
\* entries, whatever was written, shortened, cut off by a full disk or removed.
\* Directories count: a write without an extension finds the directory of that
\* name and gives it clusters.
ClustersOwnedOnce ==
  LET chain == [i \in Owners |-> ChainOf(i)]
  IN  /\ TypeOK
      /\ \A i \in Files : chain[i] # <<>>
      /\ \A i \in Owners : chain[i] # <<>> => fat[chain[i][Len(chain[i])]] = EOF
      /\ \A i, j \in Owners : i < j => Range(chain[i]) \cap Range(chain[j]) = {}

\* A cluster that is not free has an owner from which it can be released.  The
\* only operation after which it has none is the removal of a directory that
\* was written to, so without such a write no cluster is ever lost.
NoClusterLost ==
  [][\A c \in Lost' \ Lost :
       \E i \in Owners : IsDirectory(i) /\ ~ IsDirectory(i)' /\ c \in Range(ChainOf(i))]_vars

\* fs_read returns of every file all the bytes that its size promises, and
\* these are the ones last written to that file, in their order.
ReadsBack ==
  \A i \in Files :
    /\ entries[i].size = written[i].size
    /\ fs_read(entries[i].first_cluster, entries[i].size) =
         [k \in 1 .. (IF written[i].size = 0 THEN 0 ELSE Pieces(written[i].size)) |->
            [value |-> written[i].value, piece |-> k]]

\* "Check for a duplicate ... already exists" (fs_mkdir, fs_create_file): no
\* directory holds two files, or two directories, of the same name, unless the
\* name was cut when it was stored: such a name is never found again.
NoDuplicates ==
  \A i, j \in Index :
    /\ i # j /\ entries[i].used /\ entries[j].used /\ entries[i].name # Cut
    /\ entries[i].parent = entries[j].parent /\ entries[i].is_dir = entries[j].is_dir
    => entries[i].name # entries[j].name \/ entries[i].ext # entries[j].ext

\* An operation changes the contents of at most one file; in particular a
\* write that fills the disk leaves the other files as they are.
OtherFilesKept ==
  [][Cardinality({i \in Files :
       \/ i \notin Files'
       \/ \E n \in {entries[i].size} : fs_read(entries[i].first_cluster, n)' #
                                       fs_read(entries[i].first_cluster, n)}) <= 1]_vars
=============================================================================
