----------------------------- MODULE FileSystem -----------------------------
(***************************************************************************)
(* The FAT32 driver (kernel/fat32.c) behind the registry of kernel/VFS.c:  *)
(* mounting, path_walk with FAT32_lookup, writing a FAT entry and an inode *)
(* back, and giving the superblock up.  Every transfer puts its process to *)
(* sleep, so a step runs from the end of one transfer to the start of the  *)
(* next and processes interleave between them; what a step allocates and   *)
(* frees is recorded.                                                      *)
(***************************************************************************)
EXTENDS FatNames

CONSTANTS Procs,
          NULL,
          Volume,            \* the sectors of the disk when the kernel starts
          EntriesPerSector,  \* FAT entries in a sector (128)
          EndOfChain,        \* 0x0ffffff7: from here on a FAT entry ends a chain
          Paths,             \* the paths that are walked, as sequences of names
          FatWrites,         \* the <<entry, value>> pairs that are written
          Sizes,             \* the file sizes that are written
          Before, Slack,     \* what foreign memory in front of a cluster's buffer
                             \* and behind a name may hold
          MaxOps             \* bound: operations that are started

ASSUME FileSystemAssumption ==
    /\ EntriesPerSector \in Nat \ {0}
    /\ EndOfChain \in Nat
    /\ \A w \in FatWrites : w[2] \in Nat

VARIABLES disk,      \* content of every sector
          types,     \* the registered file systems behind the list head
          root_sb,   \* what read_superblock computed, or NULL
          tree,      \* the directory entries in memory, by number; 1 is the root
          objects,   \* the pieces of memory that are allocated
          pc, local, \* where every process is, and its local variables
          started,   \* operations started so far
          intended,  \* what was last written to a FAT entry or to a file's size
          collided   \* two writers have worked on one sector at the same time

vars == <<disk, types, root_sb, tree, objects, pc, local, started, intended, collided>>

Nothing == [op |-> "none"]

Init ==
    /\ disk = Volume
    /\ types = <<>>
    /\ root_sb = NULL
    /\ tree = <<>>
    /\ objects = {}
    /\ pc = [p \in Procs |-> "home"]
    /\ local = [p \in Procs |-> Nothing]
    /\ started = 0
    /\ intended = <<>>
    /\ collided = FALSE

\* p goes on at l with the local variables v.
Goto(p, l, v) == pc' = [pc EXCEPT ![p] = l] /\ local' = [local EXCEPT ![p] = v]

Mounted == root_sb # NULL

\* A caller starts an operation.
Starts(p) ==
    /\ Mounted /\ pc[p] = "home"
    /\ started < MaxOps /\ started' = started + 1

-----------------------------------------------------------------------------
(* Mounting.                                                               *)

\* register_filesystem: behind the list head, unless the name is taken.
Registered(list, name) ==
    IF name \in Range(list) \cup {"filesystem"} THEN list ELSE <<name>> \o list

\* DISK1_FAT32_FS_init: the registration, then the partition table.
FS_init(p) ==
    /\ types = <<>> /\ pc[p] = "home"
    /\ types' = Registered(types, "FAT32")
    /\ Goto(p, "boot", [op |-> "init", start_LBA |-> disk[0].start_LBA])
    /\ UNCHANGED <<disk, root_sb, tree, objects, started, intended, collided>>

\* fat32_read_superblock: where the parts of the volume lie.
SuperBlock(start, fbs) ==
    [sector_per_cluster |-> fbs.BPB_SecPerClus,
     Data_firstsector |-> start + fbs.BPB_RsvdSecCnt + fbs.BPB_FATSz32 * fbs.BPB_NumFATs,
     FAT1_firstsector |-> start + fbs.BPB_RsvdSecCnt,
     sector_per_FAT |-> fbs.BPB_FATSz32,
     NumFATs |-> fbs.BPB_NumFATs,
     first_cluster |-> fbs.BPB_RootClus]

\* The boot sector is read; mount_fs finds the file system and its
\* read_superblock asks for the information sector.
mount_fs(p) ==
    /\ pc[p] = "boot"
    /\ "FAT32" \in Range(types)
    /\ objects' = objects \cup {<<"super_block", 0>>, <<"sb_info", 0>>, <<"fsinfo", 0>>}
    /\ Goto(p, "fsinfo", [local[p] EXCEPT !.op = "mount"])
    /\ UNCHANGED <<disk, types, root_sb, tree, started, intended, collided>>

\* The pieces of memory of a directory entry with its inode.
Pieces(d) == {"dentry", "name", "inode", "inode_info"} \X {d}

\* The rest of read_superblock: the root directory.
fat32_read_superblock(p) ==
    /\ pc[p] = "fsinfo"
    /\ LET sb == SuperBlock(local[p].start_LBA, disk[local[p].start_LBA])
       IN  /\ root_sb' = sb
           /\ tree' = <<[parent |-> 0, name |-> <<>>, first_cluster |-> sb.first_cluster,
                         dentry_location |-> 0, dentry_position |-> 0, file_size |-> 0]>>
    /\ objects' = objects \cup Pieces(1)
    /\ Goto(p, "home", Nothing)
    /\ UNCHANGED <<disk, types, started, intended, collided>>

-----------------------------------------------------------------------------
(* Reading a directory.                                                    *)

\* The sectors of a cluster, and the entries in them.
ClusterSector(cluster) ==
    root_sb.Data_firstsector + (cluster - 2) * root_sb.sector_per_cluster
ClusterOn(sectors, cluster) ==
    FlattenSeq([s \in 1 .. root_sb.sector_per_cluster
                    |-> sectors[ClusterSector(cluster) + s - 1]])
Cluster(cluster) == ClusterOn(disk, cluster)

\* The sector of a FAT entry in copy i, and its place there.
FatSector(e, i) ==
    root_sb.FAT1_firstsector + root_sb.sector_per_FAT * i + (e \div EntriesPerSector)
FatPlace(e) == e % EntriesPerSector

\* DISK1_FAT32_read_FAT_Entry; the upper four bits are cut off.
read_FAT_Entry(e) == disk[FatSector(e, 0)][FatPlace(e)].value

-----------------------------------------------------------------------------
(* path_walk.                                                              *)

\* A number for a new directory entry.
Fresh == CHOOSE d \in 2 .. 99 : <<"dentry", d>> \notin objects
                             /\ \A c \in 2 .. d - 1 : <<"dentry", c>> \in objects

\* The entry and name of the next component, and the lookup's buffer.
LookupPieces(p, d) == {<<"dentry", d>>, <<"name", d>>, <<"buf", p>>}

\* path_walk up to the first transfer; "/" alone is the root.
path_walk(p) ==
    /\ Starts(p)
    /\ \E path \in Paths, wantParent \in BOOLEAN :
          IF path = <<>>
          THEN /\ Goto(p, "home", [op |-> "walked", path |-> path, answer |-> 1])
               /\ UNCHANGED objects
          ELSE /\ objects' = objects \cup LookupPieces(p, Fresh)
               /\ Goto(p, "cluster", [op |-> "walk", path |-> path, at |-> 1, parent |-> 1,
                                      me |-> Fresh, cluster |-> tree[1].first_cluster,
                                      wantParent |-> wantParent])
    /\ UNCHANGED <<disk, types, root_sb, tree, intended, collided>>

\* Variant: the directory entry's place is that of the first cluster.
PlaceInFirst(p, i) == <<tree[local[p].parent].first_cluster, i>>

\* finode->dentry_location and dentry_position of the entry that is found.
Place(p, i) == <<local[p].cluster, i>>

\* The inode FAT32_lookup makes of the entry e, and path_walk's entry with it.
\* The upper four bits of its first cluster (top) are cut off.
NewDentry(p, e, i) ==
    [parent |-> local[p].parent, name |-> local[p].path[local[p].at],
     first_cluster |-> e.first, file_size |-> e.size,
     dentry_location |-> Place(p, i)[1], dentry_position |-> Place(p, i)[2]]

\* What has become of the walk p was in.
Answer(p, d) ==
    [op |-> "walked", path |-> local[p].path, answer |-> d]

\* The transfer of a cluster ends: the scan, and what follows a success.  The
\* component is linked into its parent; the walk goes on in it or is over.
LookupCluster(p) ==
    /\ pc[p] = "cluster"
    /\ \E before \in Before, slack \in Slack :
          LET v == local[p]
              entries == Cluster(v.cluster)
              i == Scan(entries, before, v.path[v.at], slack)
              last == v.at = Len(v.path)
              next == Fresh
          IN  IF i = 0
              THEN /\ Goto(p, "fat", v)
                   /\ UNCHANGED <<tree, objects>>
              ELSE /\ tree' = [d \in DOMAIN tree \cup {v.me} |->
                                  IF d = v.me THEN NewDentry(p, entries[i], i) ELSE tree[d]]
                   /\ IF last
                      THEN /\ objects' = (objects \cup Pieces(v.me)) \ {<<"buf", p>>}
                           /\ Goto(p, "home", Answer(p, IF v.wantParent THEN v.parent ELSE v.me))
                      ELSE /\ objects' = objects \cup Pieces(v.me) \cup LookupPieces(p, next)
                           /\ Goto(p, "cluster",
                                   [v EXCEPT !.at = @ + 1, !.parent = v.me, !.me = next,
                                             !.cluster = entries[i].first])
    /\ UNCHANGED <<disk, types, root_sb, started, intended, collided>>

\* Variant: the entry and its name are not freed.
KeepPieces(p) == {<<"buf", p>>}

\* What a failed walk frees.
FailFrees(p) == LookupPieces(p, local[p].me)

\* The chain goes on.
InChain(cluster) == cluster < EndOfChain

\* The transfer of the FAT sector ends: the next cluster, or the walk fails and
\* frees its last component.
LookupNext(p) ==
    /\ pc[p] = "fat"
    /\ LET cluster == read_FAT_Entry(local[p].cluster)
       IN  IF InChain(cluster)
           THEN /\ Goto(p, "cluster", [local[p] EXCEPT !.cluster = cluster])
                /\ UNCHANGED objects
           ELSE /\ Goto(p, "home", Answer(p, NULL))
                /\ objects' = objects \ FailFrees(p)
    /\ UNCHANGED <<disk, types, root_sb, tree, started, intended, collided>>

-----------------------------------------------------------------------------
(* Writing.  Both operations read a sector or a cluster, change it in a    *)
(* buffer and write it back, with a transfer between.                      *)

\* A process is between its reading and its last writing of place s.
Writes(q, s) == pc[q] \in {"change", "copy"} /\ local[q].at = s

\* DISK1_FAT32_write_FAT_Entry up to the end of its reading transfer.
write_FAT_Entry(p) ==
    /\ Starts(p)
    /\ \E w \in FatWrites :
          LET s == FatSector(w[1], 0)
          IN  /\ Goto(p, "copy", [op |-> "fat", at |-> s, entry |-> w[1], value |-> w[2],
                                  copy |-> 0,
                                  buf |-> [disk[s] EXCEPT ![FatPlace(w[1])].value = w[2]]])
              /\ collided' = (collided \/ \E q \in Procs : Writes(q, s))
    /\ UNCHANGED <<disk, types, root_sb, tree, objects, intended>>

\* Variant: the first copy alone is written.
OneCopy == 1

Copies == root_sb.NumFATs

\* Its loop over the copies of the FAT.
WriteCopy(p) ==
    /\ pc[p] = "copy"
    /\ LET v == local[p]
       IN  /\ disk' = [disk EXCEPT ![FatSector(v.entry, v.copy)] = v.buf]
           /\ IF v.copy + 1 < Copies
              THEN Goto(p, "copy", [v EXCEPT !.copy = @ + 1]) /\ UNCHANGED intended
              ELSE /\ Goto(p, "home", Nothing)
                   /\ intended' = [x \in DOMAIN intended \cup {<<"fat", v.entry, 0>>} |->
                                      IF x = <<"fat", v.entry, 0>> THEN v.value ELSE intended[x]]
    /\ UNCHANGED <<types, root_sb, tree, objects, started, collided>>

\* What fat32_write_inode makes of a directory entry: the upper four bits of the
\* first cluster stay the entry's own.
Rewritten(entry, inode) ==
    [entry EXCEPT !.size = inode.file_size, !.first = inode.first_cluster, !.top = @]

\* The caller has set file_size; fat32_write_inode refuses the root, reads the
\* cluster of the directory entry and changes it.
write_inode(p) ==
    /\ Starts(p)
    /\ \E d \in DOMAIN tree, size \in Sizes :
          /\ tree' = [tree EXCEPT ![d].file_size = size]
          /\ IF tree[d].dentry_location = 0
             THEN Goto(p, "home", Nothing) /\ UNCHANGED <<objects, collided>>
             ELSE LET c == tree[d].dentry_location
                  IN  /\ objects' = objects \cup {<<"buf", p>>}
                      /\ Goto(p, "change",
                              [op |-> "inode", at |-> ClusterSector(c), dentry |-> d,
                               buf |-> [Cluster(c) EXCEPT ![tree[d].dentry_position] =
                                           Rewritten(@, tree'[d])]])
                      /\ collided' = (collided \/ \E q \in Procs : Writes(q, ClusterSector(c)))
    /\ UNCHANGED <<disk, types, root_sb, intended>>

\* Its writing transfer.
WriteCluster(p) ==
    /\ pc[p] = "change"
    /\ LET v == local[p]
           position == tree[v.dentry].dentry_position
           place == <<"size", tree[v.dentry].dentry_location, position>>
           sectors == root_sb.sector_per_cluster
           long == Len(v.buf) \div sectors
       IN  /\ disk' = [s \in DOMAIN disk |->
                          IF s \in v.at .. v.at + sectors - 1
                          THEN SubSeq(v.buf, (s - v.at) * long + 1, (s - v.at + 1) * long)
                          ELSE disk[s]]
           /\ intended' = [x \in DOMAIN intended \cup {place} |->
                              IF x = place THEN v.buf[position].size ELSE intended[x]]
    /\ objects' = objects \ {<<"buf", p>>}
    /\ Goto(p, "home", Nothing)
    /\ UNCHANGED <<types, root_sb, tree, started, collided>>

-----------------------------------------------------------------------------

\* fat32_put_superblock, when nobody uses the volume: it frees what hangs on
\* the superblock itself, and neither its name, nor the information sector, nor
\* the entries that walks have added.
put_superblock(p) ==
    /\ Starts(p) /\ \A q \in Procs : pc[q] = "home"
    /\ objects' = objects \ {<<"sb_info", 0>>, <<"inode_info", 1>>, <<"inode", 1>>,
                             <<"dentry", 1>>, <<"super_block", 0>>}
    /\ root_sb' = NULL
    /\ tree' = <<>>
    /\ local' = [q \in Procs |-> Nothing]
    /\ UNCHANGED <<disk, types, pc, intended, collided>>

Step(p) ==
    \/ FS_init(p) \/ mount_fs(p) \/ fat32_read_superblock(p)
    \/ path_walk(p) \/ LookupCluster(p) \/ LookupNext(p)
    \/ write_FAT_Entry(p) \/ WriteCopy(p) \/ write_inode(p) \/ WriteCluster(p)
    \/ put_superblock(p)

Next == \E p \in Procs : Step(p)

Spec == Init /\ [][Next]_vars

-----------------------------------------------------------------------------
(* Properties.                                                             *)

\* The clusters of a chain, in the FAT as it stands.
Chain(first) ==
    LET Follow[n \in Nat] ==
            IF n = 0 THEN {first}
            ELSE Follow[n - 1] \cup
                 {c \in {read_FAT_Entry(d) : d \in Follow[n - 1]} : c < EndOfChain}
    IN  Follow[4]

\* The places in directory first that are called name, and those of them for
\* which the comparison is exact.
Holding(first, name) ==
    {<<c, i>> \in Chain(first) \X (1 .. Len(Cluster(first))) : Called(Cluster(c), i, name)}
SurelyHolding(first, name) ==
    {place \in Holding(first, name) : Plain(Cluster(place[1]), place[2], name)}

\* path_walk answers right: every entry it has made is called by the name it
\* was made for, in the directory it was looked up in, and sits where
\* write_inode will write it back; a walk that fails had no such entry to find.
\* Left out is what Plain leaves out.
WalkAnswersRight ==
    Mounted =>
        /\ \A d \in DOMAIN tree \ {1} :
              LET t == tree[d]
                  entries == Cluster(t.dentry_location)
              IN  /\ entries[t.dentry_position].first = t.first_cluster
                  /\ Plain(entries, t.dentry_position, t.name) =>
                        <<t.dentry_location, t.dentry_position>>
                            \in Holding(tree[t.parent].first_cluster, t.name)
        /\ \A p \in Procs :
              LET v == local[p]
              IN  (v.op = "walked" /\ v.answer = NULL /\ Len(v.path) = 1) =>
                      SurelyHolding(tree[1].first_cluster, v.path[1]) = {}

\* While nobody is inside an operation, every piece of memory is one the tree
\* or the superblock leads to (the kfree calls of path_walk and FAT32_lookup).
NothingLeaked ==
    (Mounted /\ \A p \in Procs : pc[p] = "home") =>
        objects = UNION {Pieces(d) : d \in DOMAIN tree}
                    \cup {<<"super_block", 0>>, <<"sb_info", 0>>, <<"fsinfo", 0>>}

\* What was written stays: unless two writers of one sector have overlapped
\* (collided), all copies of a FAT entry and the size in a directory entry are
\* what was last written; every other entry of the FAT and of every directory,
\* and all upper bits, are what they were when the volume was mounted (the
\* read, change and write of write_FAT_Entry and fat32_write_inode).
WrittenStays ==
    (Mounted /\ ~collided /\ \A p \in Procs : pc[p] = "home") =>
        /\ \A i \in 0 .. root_sb.NumFATs - 1 :
              \A s \in FatSector(0, i) .. FatSector(0, i) + root_sb.sector_per_FAT - 1 :
                  \A x \in 0 .. EntriesPerSector - 1 :
                      LET e == (s - FatSector(0, i)) * EntriesPerSector + x
                      IN  disk[s][x] = [Volume[s][x] EXCEPT !.value =
                                           IF <<"fat", e, 0>> \in DOMAIN intended
                                           THEN intended[<<"fat", e, 0>>] ELSE @]
        /\ \A c \in 2 .. root_sb.sector_per_FAT * EntriesPerSector - 1 :
              \A i \in 1 .. Len(Cluster(c)) :
                  LET x == <<"size", c, i>>
                      before == ClusterOn(Volume, c)[i]
                  IN  Cluster(c)[i] = IF x \in DOMAIN intended
                                      THEN [before EXCEPT !.size = intended[x]]
                                      ELSE before

\* DISK1_FAT32_FS_init prints "Find 89AIOlejk.TXT" for any entry path_walk
\* returns: the entry is taken to be the one that was asked for.
FoundIsCalled ==
    \A p \in Procs :
        (Mounted /\ local[p].op = "walked" /\ local[p].answer # NULL) =>
            \A d \in DOMAIN tree \ {1} :
                LET t == tree[d]
                IN  Called(Cluster(t.dentry_location), t.dentry_position, t.name)

=============================================================================
