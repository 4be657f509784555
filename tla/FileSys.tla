------------------------------- MODULE FileSys ------------------------------
(***************************************************************************)
(* The file system of kernel/file.c: the disk, the directory all tasks     *)
(* stand in, and the table of open files.  A system call runs alone, but   *)
(* the machine may be reset between two of its writes to the disk: each    *)
(* handler is the sequence of disks that its writes leave one after the    *)
(* other.  The buffers of inodes equal the disk between calls; a directory *)
(* is the sequence of its first dentry_num entries, since the cells behind *)
(* them are never read before they are written.  The bytes of files are    *)
(* left out: no call that returns ever stores one.                         *)
(***************************************************************************)
EXTENDS Sequences, SequencesExt, Integers, FiniteSets

CONSTANTS
  INODE_NUM, DATABLOCK_NUM,  \* the bits of the two maps that programs use
  BITS,                      \* how many of them share a byte: 8
  INODE_PER_SECTOR,
  SECTOR_SIZE,
  NOFILE,                    \* slots of FD_table
  Name,                      \* what programs call their files and directories
  Sizes, Offsets,            \* how much they read and write, where they seek
  Accesses,                  \* how they open files: R, W, RW
  FsRules,                   \* the rules they keep to
  Interruptible,             \* the calls that a reset may interrupt
  DIR_MAX,                   \* bound: the entries of a directory
  FILE_MAX                   \* bound: the blocks of a file

Ino  == 0..(INODE_NUM - 1)
Blk  == 0..(DATABLOCK_NUM - 1)
ROOTINO == 0
NULL == -1
Rules == {"last", "dots", "links"}
Calls == {"mkfs", "mkdir", "touch", "ln", "rmdir", "rm", "write"}
LINKS_MOD == 4               \* stands for 2^32: `links` is unsigned

ASSUME FileSysAssumption ==
  /\ INODE_NUM \in Nat \ {0} /\ DATABLOCK_NUM \in Nat \ {0}
  /\ BITS \in Nat \ {0} /\ INODE_PER_SECTOR \in Nat \ {0} /\ SECTOR_SIZE \in Nat \ {0}
  /\ NOFILE \in Nat /\ DIR_MAX \in Nat \ {0, 1} /\ FILE_MAX \in Nat \ {0}
  /\ Name \cap {".", ".."} = {}
  /\ Accesses \subseteq {"R", "W", "RW"}
  /\ Sizes \subseteq Nat /\ Offsets \subseteq Nat
  /\ FsRules \subseteq Rules /\ Interruptible \subseteq Calls

(***************************************************************************)
(* How far the code goes: the entries of one block, the pointers that      *)
(* set_file_block knows, the part of the map that alloc_datablock looks    *)
(* at, and the inodes that the stray memset of clear_inode cannot reach.   *)
(***************************************************************************)
DENTRY_PER_SECTOR == 18
NUM_DIR_PTR == 5
DATABLOCKS == 4096
STRIDE == 7                  \* INODE_SIZE * INODE_SIZE \div SECTOR_SIZE

ASSUME FileSysLimits ==
  /\ DIR_MAX <= DENTRY_PER_SECTOR /\ FILE_MAX <= NUM_DIR_PTR
  /\ DATABLOCK_NUM <= DATABLOCKS /\ INODE_NUM <= STRIDE * INODE_PER_SECTOR

Entry(n, t, i) == [name |-> n, type |-> t, ino |-> i]
ZeroEntry == Entry("", "FILE", 0)            \* after kmemset
Unset == [type |-> "FILE", links |-> 0, ptr |-> <<>>, ents |-> <<>>]   \* FILE is 0
Closed == [ino |-> 0, access |-> "R", read_point |-> 0, write_point |-> 0]
End == FILE_MAX * SECTOR_SIZE

NoWrite == [ino |-> 0, pos |-> 0, len |-> 0]

VARIABLES
  disk,            \* magic, imap and dmap (the bits set), inode
  current_inode,   \* the current directory, NULL after a reset
  FD_table,
  hung,            \* is the machine in a loop that never ends?
  wrote            \* history: the last write that returned

vars == <<disk, current_inode, FD_table, hung, wrote>>

NoFiles == [f \in 0..(NOFILE - 1) |-> Closed]

Init ==
  /\ disk = [magic |-> FALSE, imap |-> {}, dmap |-> {},
             inode |-> [i \in Ino |-> Unset]]
  /\ current_inode = NULL
  /\ FD_table = NoFiles
  /\ hung = FALSE
  /\ wrote = NoWrite

-----------------------------------------------------------------------------
(* The writes: what each leaves of the disk d. *)
set_imap(d, i) == [d EXCEPT !.imap = @ \cup {i}]
set_dmap(d, b) == [d EXCEPT !.dmap = @ \cup {b}]

(* clear_imap and clear_dmap mask the byte with 0xfe << (7 - k): what stands *)
(* behind bit k of the byte is cleared with it.                            *)
ClearedBy(i) == {j \in i..(i + BITS) : j \div BITS = i \div BITS}
clear_imap(d, i) == [d EXCEPT !.imap = @ \ ClearedBy(i)]
clear_dmap(d, b) == [d EXCEPT !.dmap = @ \ ClearedBy(b)]

write_inode(d, i, r) == [d EXCEPT !.inode[i] = r]

(* clear_datablock zeroes what lies at the physical address of the buffer   *)
(* instead of the buffer: the block of directory i gets the sector that     *)
(* was handled before, of which i shows as many entries as it counted.     *)
clear_datablock(d, i, buffer) ==
  [d EXCEPT !.inode[i].ents = [k \in DOMAIN @ |-> buffer[k]]]

(* clear_inode scales its offset twice: from the k-th place of a sector it  *)
(* is STRIDE * k sectors off, and what it zeroes in memory is the buffer of *)
(* a sector in which no inode is in use (FileSysLimits, StrayMisses).      *)
Strayed(i) == i \div INODE_PER_SECTOR + STRIDE * (i % INODE_PER_SECTOR)
clear_inode(d, i) ==
  IF Strayed(i) = i \div INODE_PER_SECTOR THEN write_inode(d, i, Unset) ELSE d

(* alloc_inode and alloc_datablock take the first free bit.  They return    *)
(* nothing in particular when there is none: programs never fill the disk. *)
alloc_inode(d) == {i \in Ino \ d.imap : \A j \in Ino \ d.imap : i <= j}
alloc_datablock(d) == {b \in Blk \ d.dmap : \A c \in Blk \ d.dmap : b <= c}

(* search_dir: the first entry of that name and type, in a directory. *)
Places(d, i, n, t) == {k \in DOMAIN d.inode[i].ents :
                         d.inode[i].ents[k].name = n /\ d.inode[i].ents[k].type = t}
search_dir(d, i, n, t) ==
  {d.inode[i].ents[k].ino : k \in
     {k \in Places(d, i, n, t) : d.inode[i].type = "DIR" /\ \A l \in Places(d, i, n, t) : k <= l}}

-----------------------------------------------------------------------------
(***************************************************************************)
(* A call that leaves the disks ds one after the other.  It runs to its    *)
(* end, or the machine is reset before the last write: then the memory is  *)
(* lost, and with it the current directory and the open files.             *)
(***************************************************************************)
Off == current_inode' = NULL /\ FD_table' = NoFiles /\ hung' = FALSE

Call(name, ds) ==
  \/ disk' = Last(ds) /\ UNCHANGED <<current_inode, FD_table, hung>>
  \/ name \in Interruptible /\ disk' \in Range(Front(ds)) /\ Off

Cur(d) == d.inode[current_inode]
Enter(d, e) == [d EXCEPT !.inode[current_inode].ents = Append(@, e)]

(* The entries s without the k-th, before dentry_num says so: the last one  *)
(* is there twice, or it is zero.                                          *)
Shifted(s, k) ==
  [j \in DOMAIN s |-> IF j < k THEN s[j] ELSE IF j < Len(s) THEN s[j + 1]
                      ELSE IF k = Len(s) THEN ZeroEntry ELSE s[j]]

(* Both halves of removing the first entry of inode i, whatever its name. *)
PlaceOfIno(d, i) == {k \in DOMAIN Cur(d).ents : Cur(d).ents[k].ino = i
                       /\ \A l \in 1..(k - 1) : Cur(d).ents[l].ino # i}
Leave(d, i) ==
  LET k == CHOOSE k \in PlaceOfIno(d, i) : TRUE
  IN <<[d EXCEPT !.inode[current_inode].ents = Shifted(@, k)],
       [d EXCEPT !.inode[current_inode].ents = RemoveAt(@, k)]>>

Dots(i, parent) == <<Entry(".", "DIR", i), Entry("..", "DIR", parent)>>
Directory(b, es) == [type |-> "DIR", links |-> 0, ptr |-> <<b>>, ents |-> es]

(* do_mkfs of a disk that carries none: the magic number is on the disk     *)
(* before the root directory is.                                           *)
do_mkfs_new ==
  LET d1 == [disk EXCEPT !.imap = {ROOTINO}]
      d2 == [d1 EXCEPT !.magic = TRUE, !.dmap = {}]
      d3 == set_dmap(d2, 0)
      d4 == write_inode(d3, ROOTINO, Directory(0, <<ZeroEntry, ZeroEntry>>))
      d5 == write_inode(d4, ROOTINO, Directory(0, Dots(ROOTINO, ROOTINO)))
  IN <<d1, d2, d3, d4, d5>>

do_mkdir_root(n, i, b) ==                               \* mutant
  LET d1 == set_imap(disk, i)
      d2 == set_dmap(d1, b)
      d3 == write_inode(d2, i, Directory(b, Dots(i, ROOTINO)))
  IN <<d1, d2, d3, Enter(d3, Entry(n, "DIR", i))>>

do_mkdir_early(n, i, b) ==                              \* mutant
  LET d1 == Enter(disk, Entry(n, "DIR", i))
      d2 == set_imap(d1, i)
      d3 == set_dmap(d2, b)
  IN <<d1, d2, d3, write_inode(d3, i, Directory(b, Dots(i, current_inode)))>>

do_mkdir(n, i, b) ==
  LET d1 == set_imap(disk, i)
      d2 == set_dmap(d1, b)
      d3 == write_inode(d2, i, Directory(b, <<ZeroEntry, ZeroEntry>>))
      d4 == write_inode(d3, i, Directory(b, Dots(i, current_inode)))
  IN <<d1, d2, d3, d4, Enter(d4, Entry(n, "DIR", i))>>

do_rmdir(i) ==
  LET b  == disk.inode[i].ptr[1]
      ds == Leave(disk, i)
      d3 == clear_datablock(ds[2], i, Cur(ds[1]).ents)
      d4 == clear_dmap(d3, b)
      d5 == clear_imap(d4, i)
  IN ds \o <<d3, d4, d5, clear_inode(d5, i)>>

do_touch_unmarked(n, i, b) ==                           \* mutant
  LET d1 == set_imap(disk, i)
      d3 == write_inode(d1, i, [type |-> "FILE", links |-> 0, ptr |-> <<b>>, ents |-> <<>>])
  IN <<d1, d3, Enter(d3, Entry(n, "FILE", i))>>

do_touch(n, i, b) ==
  LET d1 == set_imap(disk, i)
      d2 == set_dmap(d1, b)
      d3 == write_inode(d2, i, [type |-> "FILE", links |-> 0, ptr |-> <<b>>, ents |-> <<>>])
  IN <<d1, d2, d3, Enter(d3, Entry(n, "FILE", i))>>

do_ln(m, i) ==
  LET d1 == Enter(disk, Entry(m, "FILE", i))
  IN <<d1, [d1 EXCEPT !.inode[i].links = (@ + 1) % LINKS_MOD]>>

do_rm_signed(i) ==                                      \* mutant
  LET ds == Leave(disk, i)
  IN ds \o <<[ds[2] EXCEPT !.inode[i].links = @ - 1]>>

do_rm(i) ==
  LET ds  == Leave(disk, i)
      d3  == [ds[2] EXCEPT !.inode[i].links = (@ + LINKS_MOD - 1) % LINKS_MOD]
      d4  == FoldLeft(clear_dmap, d3, d3.inode[i].ptr)
      d5  == clear_imap(d4, i)
  IN IF d3.inode[i].links = 0 THEN ds \o <<d3, d4, d5, clear_inode(d5, i)>>
                              ELSE ds \o <<d3>>

(* find_path: directories from the current one, at most three. *)
find_path(path) ==
  LET dir[k \in 0..Len(path)] ==
        IF k = 0 THEN {current_inode}
                 ELSE UNION {search_dir(disk, i, path[k], "DIR") : i \in dir[k - 1]}
  IN dir[Len(path)]

-----------------------------------------------------------------------------
(***************************************************************************)
(* The blocks of a transfer of n bytes at position pos: the loops stop      *)
(* before block Stop, also when the last byte lies in it.  In a block they  *)
(* go over the bytes while (j < end_in_this_block) ? .. : SECTOR_SIZE,     *)
(* which is SECTOR_SIZE whatever j is: a transfer that enters a block never *)
(* leaves it.  Interrupts are off, so the machine hangs until it is reset; *)
(* what the loop does to memory is lost then, and it writes no sector.     *)
(***************************************************************************)
Start(pos)      == pos \div SECTOR_SIZE
Stop(pos, n)    == (pos + n) \div SECTOR_SIZE
Returns(pos, n) == Stop(pos, n) <= Start(pos)

(* The places of the bytes that the loop over the blocks gets to. *)
Moved(pos, n) == {p \in pos..(pos + n - 1) : p \div SECTOR_SIZE < Stop(pos, n)}

Alloc(d, i) ==
  LET b == CHOOSE b \in alloc_datablock(d) : TRUE
  IN set_dmap([d EXCEPT !.inode[i].ptr = Append(@, b)], b)

Blocks(d, i) == Len(d.inode[i].ptr)
Shows(d, i, n) == [d EXCEPT !.inode[i].ptr = SubSeq(@, 1, n)]

(* A file that grows: the disks so far, and the disk as it would be with    *)
(* the inode buffer written out.  set_file_block writes the pointer before *)
(* block_num counts it, so the disk shows one block less.                  *)
Grow(s, i) ==
  LET d == Alloc(s.buf, i)
  IN [buf |-> d, ds |-> s.ds \o <<Shows(d, i, Blocks(Last(s.ds), i)), Shows(d, i, Blocks(s.buf, i))>>]

(* The disks that file i leaves on its way to n blocks, if it has less. *)
Grown(i, n) ==
  LET done[k \in 0..n] == IF k <= Blocks(disk, i) THEN [buf |-> disk, ds |-> <<disk>>]
                                                  ELSE Grow(done[k - 1], i)
  IN Append(done[n].ds, done[n].buf)

do_file_open(n, access) ==
  \E i \in search_dir(disk, current_inode, n, "FILE"), f \in DOMAIN FD_table :
    /\ FD_table[f].ino = 0 /\ \A g \in 0..(f - 1) : FD_table[g].ino # 0
    /\ FD_table' = [FD_table EXCEPT ![f] = [Closed EXCEPT !.ino = i, !.access = access]]
    /\ UNCHANGED <<disk, current_inode, hung, wrote>>

do_file_close(f) == /\ FD_table' = [FD_table EXCEPT ![f] = Closed]
                    /\ UNCHANGED <<disk, current_inode, hung, wrote>>

do_file_read(f, n) ==
  /\ FD_table[f].ino # 0 /\ FD_table[f].access # "W"
  /\ IF Returns(FD_table[f].read_point, n)
       THEN FD_table' = [FD_table EXCEPT ![f].read_point = @ + n] /\ UNCHANGED hung
       ELSE hung' = TRUE /\ UNCHANGED FD_table
  /\ UNCHANGED <<disk, current_inode, wrote>>

(* The blocks before the first of the transfer are allocated in any case,   *)
(* the first one itself when the transfer enters it.                       *)
Needed(pos, n) == IF Returns(pos, n) THEN Start(pos) ELSE Start(pos) + 1

do_file_write(f, n) ==
  LET i == FD_table[f].ino  pos == FD_table[f].write_point
  IN /\ i # 0 /\ FD_table[f].access # "R"
     /\ Needed(pos, n) <= Blocks(disk, i) + Cardinality(Blk \ disk.dmap)
     /\ \/ /\ disk' = Last(Grown(i, Needed(pos, n)))
           /\ IF Returns(pos, n)
                THEN /\ FD_table' = [FD_table EXCEPT ![f].write_point = pos + n]
                     /\ wrote' = [ino |-> i, pos |-> pos, len |-> n]
                     /\ UNCHANGED hung
                ELSE hung' = TRUE /\ wrote' = NoWrite /\ UNCHANGED FD_table
           /\ UNCHANGED current_inode
        \/ /\ "write" \in Interruptible
           /\ disk' \in Range(Front(Grown(i, Needed(pos, n))))
           /\ wrote' = NoWrite
           /\ Off

do_lseek(f, offset, whence) ==
  LET s     == FD_table[f]
      at(p) == IF whence = "SEEK_SET" THEN offset ELSE p + offset
  IN /\ s.ino # 0
     /\ FD_table' = [FD_table EXCEPT ![f] = [s EXCEPT !.read_point  = at(s.read_point),
                                                      !.write_point = at(s.write_point)]]
     /\ UNCHANGED <<disk, current_inode, hung, wrote>>

-----------------------------------------------------------------------------
(***************************************************************************)
(* Who calls what: the machine runs, the disk is mounted, there is room.   *)
(*   "last"   what is freed is the last in use of its byte of the map      *)
(*   "dots"   nobody removes "." or ".."                                   *)
(*   "links"  a file that was linked is never removed                      *)
(***************************************************************************)
Mounted == ~hung /\ disk.magic /\ current_inode # NULL
Room    == Len(Cur(disk).ents) < DIR_MAX
Found(n, t) == IF Mounted THEN search_dir(disk, current_inode, n, t) ELSE {}

MayFree(i) ==
  "last" \in FsRules => /\ ClearedBy(i) \cap disk.imap = {i}
                        /\ \A k \in DOMAIN disk.inode[i].ptr :
                             LET b == disk.inode[i].ptr[k] IN ClearedBy(b) \cap disk.dmap = {b}

MkfsOld == /\ ~hung /\ disk.magic
           /\ current_inode' = ROOTINO
           /\ UNCHANGED <<disk, FD_table, hung, wrote>>

MkfsNew == /\ ~hung /\ ~disk.magic
           /\ \/ /\ disk' = Last(do_mkfs_new) /\ current_inode' = ROOTINO
                 /\ UNCHANGED <<FD_table, hung>>
              \/ "mkfs" \in Interruptible /\ disk' \in Range(Front(do_mkfs_new)) /\ Off
           /\ UNCHANGED wrote

Mkdir == \E n \in Name, i \in alloc_inode(disk), b \in alloc_datablock(disk) :
           /\ Mounted /\ Room /\ Found(n, "DIR") = {}
           /\ Call("mkdir", do_mkdir(n, i, b))
           /\ UNCHANGED wrote

Rmdir == \E n \in Name \cup {".", ".."} : \E i \in Found(n, "DIR") :
           /\ Len(disk.inode[i].ents) <= 2 /\ MayFree(i)
           /\ "dots" \in FsRules => n \in Name
           /\ Call("rmdir", do_rmdir(i))
           /\ UNCHANGED wrote

Paths == UNION {[1..k -> Name \cup {".."}] : k \in 1..2}

Cd == /\ Mounted
      /\ \E path \in Paths : current_inode' \in find_path(path)
      /\ UNCHANGED <<disk, FD_table, hung, wrote>>

Touch == \E n \in Name, i \in alloc_inode(disk), b \in alloc_datablock(disk) :
           /\ Mounted /\ Room /\ Found(n, "FILE") = {}
           /\ Call("touch", do_touch(n, i, b))
           /\ wrote' = IF wrote.ino = i THEN NoWrite ELSE wrote

Ln == \E n, m \in Name : \E i \in Found(n, "FILE") :
        /\ Room /\ Found(m, "FILE") = {}
        /\ Call("ln", do_ln(m, i))
        /\ UNCHANGED wrote

Rm == \E n \in Name : \E i \in Found(n, "FILE") :
        /\ MayFree(i)
        /\ "links" \in FsRules => disk.inode[i].links = 0
        /\ Call("rm", do_rm(i))
        /\ UNCHANGED wrote

FileOpen  == \E n \in Name, a \in Accesses : Mounted /\ do_file_open(n, a)
FileClose == \E f \in DOMAIN FD_table : Mounted /\ do_file_close(f)
FileRead  == \E f \in DOMAIN FD_table, n \in Sizes :
               /\ Mounted /\ FD_table[f].read_point + n <= End
               /\ do_file_read(f, n)
FileWrite == \E f \in DOMAIN FD_table, n \in Sizes :
               /\ Mounted /\ FD_table[f].write_point + n <= End
               /\ do_file_write(f, n)
Lseek     == \E f \in DOMAIN FD_table, offset \in Offsets, whence \in {"SEEK_SET", "SEEK_CUR"} :
               /\ Mounted /\ do_lseek(f, offset, whence)
               /\ FD_table'[f].read_point <= End /\ FD_table'[f].write_point <= End

Reset == disk.magic /\ current_inode # NULL /\ Off /\ UNCHANGED <<disk, wrote>>

Next == \/ MkfsOld \/ MkfsNew \/ Mkdir \/ Rmdir \/ Cd \/ Touch \/ Ln \/ Rm
        \/ FileOpen \/ FileClose \/ FileRead \/ FileWrite \/ Lseek \/ Reset

Spec == Init /\ [][Next]_vars

-----------------------------------------------------------------------------
EntryType == [name : Name \cup {"", ".", ".."}, type : {"FILE", "DIR"}, ino : Ino]

FsTypeOK ==
  /\ disk.magic \in BOOLEAN /\ disk.imap \subseteq Ino /\ disk.dmap \subseteq Blk
  /\ \A i \in Ino : LET r == disk.inode[i]
                    IN /\ r.type \in {"FILE", "DIR"} /\ r.links \in 0..(LINKS_MOD - 1)
                       /\ Range(r.ptr) \subseteq Blk /\ Len(r.ptr) <= FILE_MAX
                       /\ Range(r.ents) \subseteq EntryType /\ Len(r.ents) <= DIR_MAX
  /\ current_inode \in Ino \cup {NULL}
  /\ FD_table \in [0..(NOFILE - 1) -> [ino : Ino, access : {"R", "W", "RW"},
                                       read_point : 0..End, write_point : 0..End]]
  /\ hung \in BOOLEAN
  /\ wrote \in [ino : Ino, pos : 0..End, len : Sizes \cup {0}]

(* The inodes that a path from the root leads to, with one name less than   *)
(* there are inodes, and those that are open.                              *)
EntriesOn(d, i) == IF d.inode[i].type = "DIR" THEN Range(d.inode[i].ents) ELSE {}
Leads(d, i)     == {e.ino : e \in EntriesOn(d, i)}
ReachableOn(d)  ==
  LET within[k \in 0..(INODE_NUM - 1)] ==
        IF k = 0 THEN {ROOTINO} ELSE within[k - 1] \cup UNION {Leads(d, i) : i \in within[k - 1]}
  IN IF d.magic THEN within[INODE_NUM - 1] ELSE {}
Entries(i) == EntriesOn(disk, i)
Reachable  == ReachableOn(disk)
Opened     == {FD_table[f].ino : f \in DOMAIN FD_table} \ {0}
InUse      == Reachable \cup Opened

(* No file or directory in use can be given away a second time: its inode   *)
(* and its blocks are marked, and no block is in two of them, or twice in  *)
(* one.  A reset in the middle of a call only leaves marks too many.       *)
NothingShared == \A used \in {InUse} : \A i \in used :
  LET p == disk.inode[i].ptr
  IN /\ i \in disk.imap /\ Range(p) \subseteq disk.dmap /\ IsInjective(p)
     /\ \A j \in used \ {i} : Range(p) \cap Range(disk.inode[j].ptr) = {}

(* A name leads to what it says: a directory entry to an inode of its type, *)
(* "." to the directory itself, ".." to the directory that lists it; and   *)
(* the current directory and the open files are there as long as used.     *)
NamesHold ==
  /\ \A i \in Reachable : \A e \in Entries(i) :
        /\ disk.inode[e.ino].type = e.type
        /\ e.name = "." => e.ino = i
        /\ (e.type = "DIR" /\ e.name \notin {".", ".."}) =>
              Entry("..", "DIR", i) \in Entries(e.ino)
  /\ current_inode # NULL => /\ current_inode \in Reachable
                             /\ disk.inode[current_inode].type = "DIR"
  /\ \A i \in Opened : disk.inode[i].type = "FILE"

(* What was written can be read: a descriptor that points to where the last *)
(* write began, one that returned, gets its bytes, all of them.            *)
ReadsBack ==
  \A f \in DOMAIN FD_table :
     (FD_table[f].ino = wrote.ino /\ FD_table[f].read_point = wrote.pos) =>
        Moved(wrote.pos, wrote.len) = wrote.pos..(wrote.pos + wrote.len - 1)

(* "Mark block `i` as **free**": of the inodes, a call frees one at most. *)
FreesOne == [][Cardinality(disk.imap \ disk'.imap) <= 1]_vars

(* Names form a tree, and a call changes it as it says or not at all, also  *)
(* when the machine is reset in the middle of it.                          *)
NamesIn(d, i) == {<<i, e.name, e.type, e.ino>> : e \in EntriesOn(d, i)}
Names(d)      == UNION {NamesIn(d, i) : i \in ReachableOn(d)}
Tree == INSTANCE FileTree WITH
          Object <- Ino, Root <- ROOTINO, Nowhere <- NULL,
          tree <- Names(disk), here <- current_inode
ImplementsFileTree == Tree!Spec

=============================================================================
