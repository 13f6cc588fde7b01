------------------------------- MODULE RamFs -------------------------------
(***************************************************************************)
(* The file system a running kernel has: ramfs (kernel/fs/ramfs.c), the    *)
(* path operations of the VFS that call it (kernel/fs/vfs.c) and the       *)
(* descriptor table of the system calls (kernel/syscall/syscall.c).  There *)
(* is one file system, mounted on "/".  A list of children, chained by     *)
(* sibling pointers in the code, is a sequence here.  Every call runs to   *)
(* its end without a switch and is one step.                               *)
(*                                                                         *)
(* An inode is the address of its struct; the heap hands out the lowest    *)
(* that is free, also one that was freed before.  A name is a sequence of  *)
(* components, because the boot-time helpers may store a whole path,       *)
(* slashes included, as one name.                                          *)
(* Allocating an inode fails when all addresses are in use, and any one of *)
(* the other allocations of a call may fail, the one that `fail' names;    *)
(* the failures that end as a missing name does are not listed again.      *)
(***************************************************************************)
EXTENDS Integers, Sequences, FiniteSets, SequencesExt

CONSTANTS
  Components,   \* the components paths are made of
  MaxDepth,     \* bound on the length of a path
  MAX_INODES,   \* bound: the heap has room for so many struct ramfs_inode
  MaxIno,       \* bound on next_ino
  MAX_FDS,      \* size of fd_table
  Block,        \* RAMFS_BLOCK_SIZE
  MaxSize,      \* bound on file positions
  Counts,       \* the byte counts of reads and writes
  Offsets,      \* the offsets of lseek
  Bytes, JUNK,  \* what is written, and what kmalloc'ed memory holds before
  NULL

ASSUME RamFsAssumption ==
  /\ MAX_INODES \in Nat \ {0} /\ MaxIno \in Nat \ {0} /\ NULL \notin Nat
  /\ MaxDepth \in Nat \ {0} /\ MAX_FDS \in Nat /\ Block \in Nat \ {0}
  /\ MaxSize \in Nat \ {0} /\ Counts \subseteq Nat /\ Offsets \subseteq Int
  /\ JUNK \notin Bytes
  /\ NULL \notin [inode : 1 .. MAX_INODES, pos : 0 .. MaxSize,
                 i_size : 0 .. MaxSize, dir : BOOLEAN]

VARIABLES
  kind,       \* "dir", "file", or "free" for an address that is not an inode
  name, parent,
  children,   \* each inode's list: its first child and that child's siblings
  data,       \* the buffer: positions below data_capacity to bytes
  size,
  next_ino, inode_count,
  fd_table,   \* each descriptor's struct file, or NULL
  stale,      \* history: descriptors whose inode was freed under them
  booting,    \* kernel_main still populates the file system
  call        \* history: the last call, its paths, inode, range and result

tree == <<kind, name, parent, children, next_ino, inode_count>>
vars == <<tree, data, size, fd_table, stale, booting, call>>

Inodes == 1 .. MAX_INODES
Files == [inode : Inodes, pos : 0 .. MaxSize, i_size : 0 .. MaxSize, dir : BOOLEAN]
Root == 1                      \* ramfs_sb.root
Paths == UNION {[1 .. n -> Components] : n \in 1 .. MaxDepth}
Fds == 3 .. MAX_FDS - 1        \* 0, 1 and 2 are reserved and name no file
Live == {i \in Inodes : kind[i] # "free"}
capacity(i) == Cardinality(DOMAIN data[i])
NoData == [p \in {} |-> JUNK]

\* The call that a step makes, for the properties.
Call(op, paths, fail, ret) ==
  [op |-> op, paths |-> paths, fail |-> fail, ret |-> ret,
   inode |-> NULL, from |-> 0, count |-> 0]

-----------------------------------------------------------------------------
(* ramfs: the list of a directory, and the helpers on it.                  *)

\* Mutant: only the first child is compared.
lookup_first(dir, nm) ==
  IF /\ kind[dir] = "dir" /\ children[dir] # <<>>
     /\ name[Head(children[dir])] = nm
  THEN Head(children[dir]) ELSE NULL

\* ramfs_lookup_child: the first child of that name
lookup_child(dir, nm) ==
  LET hits == {n \in DOMAIN children[dir] : name[children[dir][n]] = nm}
  IN  IF kind[dir] # "dir" \/ hits = {} THEN NULL ELSE children[dir][Min(hits)]

\* ramfs_alloc_inode, then ramfs_add_child, whose result its callers ignore:
\* under a parent that is a file the new inode is linked nowhere.
new_inode == IF Live = Inodes THEN NULL ELSE Min(Inodes \ Live)

alloc_and_add(dir, i, k, nm) ==
  /\ kind' = [kind EXCEPT ![i] = k]
  /\ name' = [name EXCEPT ![i] = nm]
  /\ next_ino <= MaxIno
  /\ next_ino' = next_ino + 1
  /\ inode_count' = inode_count + 1
  /\ parent' = [parent EXCEPT ![i] = IF kind[dir] = "dir" THEN dir ELSE NULL]
  /\ children' = [children EXCEPT ![i] = <<>>,
                                 ![dir] = IF kind[dir] = "dir" THEN <<i>> \o @ ELSE @]

\* Mutant: the list is cut where the inode was.
without_rest(dir, i) ==
  LET at == {n \in DOMAIN children[dir] : children[dir][n] = i}
  IN  [children EXCEPT ![dir] = SubSeq(@, 1, Min(at \cup {Len(@) + 1}) - 1)]

\* The lists after an inode is taken out of the one of a directory, where it
\* is found first.
without(dir, i) == [children EXCEPT ![dir] = RemoveFirst(@, i)]

\* ramfs_free_inode, after the unlinking that ramfs_unlink and ramfs_rmdir do.
\* Open files are not asked: those that point here are stale from now on.
unlink_and_free(dir, i) ==
  /\ kind' = [kind EXCEPT ![i] = "free"]
  /\ name' = [name EXCEPT ![i] = <<>>]
  /\ parent' = [parent EXCEPT ![i] = NULL]
  /\ children' = [without(dir, i) EXCEPT ![i] = <<>>]
  /\ inode_count' = inode_count - 1
  /\ UNCHANGED next_ino
  /\ data' = [data EXCEPT ![i] = NoData]
  /\ size' = [size EXCEPT ![i] = 0]
  /\ stale' = stale \cup {fd \in Fds : fd_table[fd] # NULL /\ fd_table[fd].inode = i}

-----------------------------------------------------------------------------
(* vfs: paths.  vfs_lookup_parent looks up every component but the last;   *)
(* it does not ask whether what it found is a directory.                   *)

lookup_parent(path) ==
  LET walk[n \in 0 .. Len(path) - 1] ==
        IF n = 0 THEN Root
        ELSE LET dir == walk[n - 1]
             IN  IF dir = NULL THEN NULL ELSE lookup_child(dir, <<path[n]>>)
  IN  walk[Len(path) - 1]

LastName(path) == <<path[Len(path)]>>

resolve(path) ==
  LET dir == lookup_parent(path)
  IN  IF dir = NULL THEN NULL ELSE lookup_child(dir, LastName(path))

-----------------------------------------------------------------------------
Init ==     \* vfs_mount("ramfs", "/"): ramfs_mount has made the root
  /\ kind = [i \in Inodes |-> IF i = Root THEN "dir" ELSE "free"]
  /\ name = [i \in Inodes |-> <<>>]
  /\ parent = [i \in Inodes |-> NULL]
  /\ children = [i \in Inodes |-> <<>>]
  /\ data = [i \in Inodes |-> NoData]
  /\ size = [i \in Inodes |-> 0]
  /\ next_ino = 2 /\ inode_count = 1
  /\ fd_table = [fd \in Fds |-> NULL]
  /\ stale = {}
  /\ booting = TRUE
  /\ call = Call("mount", {}, "none", "ok")

\* A call that changes nothing but its own record.
Return(op, paths, fail, ret) ==
  /\ call' = Call(op, paths, fail, ret)
  /\ UNCHANGED <<tree, data, size, fd_table, stale, booting>>

\* ramfs_create and ramfs_mkdir, called by vfs_create and vfs_mkdir: the name
\* is not looked up first.  When the VFS inode cannot be allocated the call
\* fails and the new child stays.
vfs_create(path, k) ==
  LET dir == lookup_parent(path)
  IN  IF dir = NULL THEN Return("create", {path}, "none", "ENOENT")
      ELSE IF new_inode = NULL THEN Return("create", {path}, "none", "ENOMEM")
      ELSE \E fail \in {"none", "vfs_inode"} :
             /\ alloc_and_add(dir, new_inode, k, LastName(path))
             /\ call' = Call("create", {path}, fail,
                             IF fail = "none" THEN "ok" ELSE "ENOMEM")
             /\ UNCHANGED <<data, size, fd_table, stale, booting>>

\* vfs_unlink and vfs_rmdir, with ramfs_unlink and ramfs_rmdir
vfs_unlink(path) ==
  LET i == resolve(path)
  IN  IF i = NULL THEN Return("unlink", {path}, "none", "ENOENT")
      ELSE IF kind[i] = "dir" THEN Return("unlink", {path}, "none", "EISDIR")
      ELSE /\ unlink_and_free(lookup_parent(path), i)
           /\ call' = Call("unlink", {path}, "none", "ok")
           /\ UNCHANGED <<fd_table, booting>>

vfs_rmdir(path) ==
  LET i == resolve(path)
  IN  IF i = NULL THEN Return("rmdir", {path}, "none", "ENOENT")
      ELSE IF kind[i] # "dir" THEN Return("rmdir", {path}, "none", "ENOTDIR")
      ELSE IF children[i] # <<>> THEN Return("rmdir", {path}, "none", "ENOTEMPTY")
      ELSE /\ unlink_and_free(lookup_parent(path), i)
           /\ call' = Call("rmdir", {path}, "none", "ok")
           /\ UNCHANGED <<fd_table, booting>>

\* ramfs_rename: out of the old list, to the front of the new one.  Neither
\* that the new parent is a directory nor that it lies outside the inode that
\* moves is asked.
relink(old_dir, new_dir, i, nm) ==
  /\ children' = [without(old_dir, i) EXCEPT ![new_dir] = <<i>> \o @]
  /\ parent' = [parent EXCEPT ![i] = new_dir]
  /\ name' = [name EXCEPT ![i] = nm]

\* Mutant: an inode that has the new name is replaced and freed.
vfs_rename_over(old, new) ==
  LET old_dir == lookup_parent(old)
      new_dir == lookup_parent(new)
      i == resolve(old)
      target == lookup_child(new_dir, LastName(new))
  IN  IF old_dir = NULL \/ new_dir = NULL \/ i = NULL
      THEN Return("rename", {old, new}, "none", "ENOENT")
      ELSE /\ target # NULL /\ target # i
           /\ kind' = [kind EXCEPT ![target] = "free"]
           /\ children' = without(new_dir, target)
           /\ inode_count' = inode_count - 1
           /\ call' = Call("rename", {old, new}, "none", "ok")
           /\ UNCHANGED <<name, parent, next_ino, data, size, fd_table, stale, booting>>

\* Mutant: the name is compared after the inode was taken out of its list.
vfs_rename_late(old, new) ==
  LET old_dir == lookup_parent(old)
      new_dir == lookup_parent(new)
      i == resolve(old)
  IN  IF old_dir = NULL \/ new_dir = NULL \/ i = NULL
      THEN Return("rename", {old, new}, "none", "ENOENT")
      ELSE /\ lookup_child(new_dir, LastName(new)) # NULL
           /\ children' = without(old_dir, i)
           /\ call' = Call("rename", {old, new}, "none", "EEXIST")
           /\ UNCHANGED <<kind, name, parent, next_ino, inode_count, data, size,
                          fd_table, stale, booting>>

vfs_rename(old, new) ==
  LET old_dir == lookup_parent(old)
      new_dir == lookup_parent(new)
      i == resolve(old)
  IN  IF old_dir = NULL \/ new_dir = NULL \/ i = NULL
      THEN Return("rename", {old, new}, "none", "ENOENT")
      ELSE IF lookup_child(new_dir, LastName(new)) # NULL
      THEN Return("rename", {old, new}, "none", "EEXIST")
      ELSE /\ relink(old_dir, new_dir, i, LastName(new))
           /\ call' = Call("rename", {old, new}, "none", "ok")
           /\ UNCHANGED <<kind, next_ino, inode_count, data, size, fd_table, stale, booting>>

-----------------------------------------------------------------------------
(* The system calls on descriptors.  A struct file remembers the inode and *)
(* the size that the inode had when it was looked up.                      *)

free_fds == {fd \in Fds : fd_table[fd] = NULL}
File(i, sz, dir) == [inode |-> i, pos |-> 0, i_size |-> sz, dir |-> dir]
install(file) == fd_table' = [fd_table EXCEPT ![Min(free_fds)] = file]

\* sys_openat and vfs_open: the descriptor is taken first and given back if
\* the file cannot be opened.  A lookup that cannot allocate its VFS inode
\* ("lookup") looks like a name that is not there; when the VFS inode or the
\* struct file of a new inode cannot be allocated ("late"), it stays.
sys_openat(path, creat) ==
  LET dir == lookup_parent(path)
      found == resolve(path)
      make(fail) ==
        /\ alloc_and_add(dir, new_inode, "file", LastName(path))
        /\ IF fail = "late" THEN UNCHANGED fd_table ELSE install(File(new_inode, 0, FALSE))
        /\ call' = Call("open", {path}, fail, IF fail = "late" THEN "ENOENT" ELSE "ok")
        /\ UNCHANGED <<data, size, stale, booting>>
  IN  IF free_fds = {} THEN Return("open", {path}, "none", "EMFILE")
      ELSE \/ /\ dir = NULL \/ (found = NULL /\ (~creat \/ new_inode = NULL))
              /\ Return("open", {path}, "none", "ENOENT")
           \/ /\ found # NULL
              /\ install(File(found, size[found], kind[found] = "dir"))
              /\ call' = Call("open", {path}, "none", "ok")
              /\ UNCHANGED <<tree, data, size, stale, booting>>
           \/ /\ dir # NULL /\ creat /\ new_inode # NULL
              /\ \/ found = NULL /\ (make("none") \/ make("late"))
                 \/ found # NULL /\ make("lookup")

\* sys_openat of "/", which vfs_open does not look up
sys_open_root ==
  /\ free_fds # {}
  /\ install(File(Root, 0, TRUE))
  /\ call' = Call("open", {}, "none", "ok")
  /\ UNCHANGED <<tree, data, size, stale, booting>>

\* sys_close and vfs_close: the only reference, so the file is freed
sys_close(fd) ==
  /\ fd_table[fd] # NULL
  /\ fd_table' = [fd_table EXCEPT ![fd] = NULL]
  /\ stale' = stale \ {fd}
  /\ call' = Call("close", {}, "none", "ok")
  /\ UNCHANGED <<tree, data, size, booting>>

\* The file behind a descriptor can be used: a regular file whose inode's
\* memory is an inode.  What an access to memory that is no longer one does is
\* undefined, and no behaviour of the model goes through it.
Usable(fd) ==
  /\ fd_table[fd] # NULL
  /\ ~fd_table[fd].dir
  /\ kind[fd_table[fd].inode] # "free"

\* sys_read, vfs_read, ramfs_read
sys_read(fd, count) ==
  LET f == fd_table[fd]
      got == Max({0, Min({count, size[f.inode] - f.pos})})
  IN  /\ Usable(fd)
      /\ fd_table' = [fd_table EXCEPT ![fd].pos = f.pos + got]
      /\ call' = [Call("read", {}, "none", "ok") EXCEPT !.inode = f.inode,
                                                       !.from = f.pos]
      /\ UNCHANGED <<tree, data, size, stale, booting>>

\* Mutant: the old contents are not copied.
grown_empty(i, new_size) ==
  LET cap == ((new_size + Block - 1) \div Block) * Block
  IN  IF new_size <= capacity(i) THEN data[i] ELSE [p \in 0 .. cap - 1 |-> JUNK]

\* The buffer that ramfs_write leaves: grown to a multiple of the block size
\* when needed, the old contents copied up to the file's size.
Grown(i, new_size) ==
  LET cap == ((new_size + Block - 1) \div Block) * Block
  IN  IF new_size <= capacity(i) THEN data[i]
      ELSE [p \in 0 .. cap - 1 |-> IF p < size[i] THEN data[i][p] ELSE JUNK]

\* sys_write, vfs_write, ramfs_write
sys_write(fd, count, byte) == \E fail \in {"none", "data"} :
  LET f == fd_table[fd]
      i == f.inode
      end == f.pos + count
  IN  /\ Usable(fd)
      /\ end <= MaxSize
      /\ IF fail = "data" /\ end > capacity(i)
         THEN Return("write", {}, fail, "ENOMEM")
         ELSE /\ fail = "none"
              /\ data' = [data EXCEPT ![i] =
                    [p \in DOMAIN Grown(i, end) |->
                       IF p \in f.pos .. end - 1 THEN byte ELSE Grown(i, end)[p]]]
              /\ size' = [size EXCEPT ![i] = Max({@, end})]
              /\ fd_table' = [fd_table EXCEPT ![fd].pos = end]
              /\ call' = [Call("write", {}, fail, "ok") EXCEPT
                            !.inode = i, !.from = f.pos, !.count = count]
              /\ UNCHANGED <<tree, stale, booting>>

\* sys_lseek, vfs_lseek: SEEK_END counts from the size at the lookup
sys_lseek(fd, offset, whence) ==
  LET f == fd_table[fd]
      new_pos == offset + CASE whence = "SET" -> 0
                            [] whence = "CUR" -> f.pos
                            [] whence = "END" -> f.i_size
  IN  /\ f # NULL
      /\ new_pos <= MaxSize
      /\ IF new_pos < 0 THEN Return("lseek", {}, "none", "EINVAL")
         ELSE /\ fd_table' = [fd_table EXCEPT ![fd].pos = new_pos]
              /\ call' = Call("lseek", {}, "none", "ok")
              /\ UNCHANGED <<tree, data, size, stale, booting>>

-----------------------------------------------------------------------------
(* The helpers kernel_main populates the file system with.  They look for  *)
(* the parent as one name in the root.                                     *)

get_parent_dir(path) ==
  IF Len(path) = 1 THEN Root
  ELSE lookup_child(Root, SubSeq(path, 1, Len(path) - 1))

\* ramfs_create_file with content, and ramfs_create_file_bytes (`bytes'),
\* which differ when there is no such parent and when the buffer cannot be
\* allocated: the first then makes a file of the whole path's name in the
\* root, and an empty file; the second makes none, and leaks the inode.
ramfs_create_file(path, byte, bytes) ==
  LET dir == get_parent_dir(path)
  IN  /\ booting
      /\ IF bytes /\ dir = NULL THEN Return("boot", {path}, "none", "ENOENT")
         ELSE IF new_inode = NULL THEN Return("boot", {path}, "none", "ENOMEM")
         ELSE \E fail \in {"none", "data"} :
           /\ IF bytes /\ fail = "data"
              THEN /\ kind' = [kind EXCEPT ![new_inode] = "file"]
                   /\ name' = [name EXCEPT ![new_inode] = LastName(path)]
                   /\ next_ino <= MaxIno
                   /\ next_ino' = next_ino + 1
                   /\ inode_count' = inode_count + 1
                   /\ UNCHANGED <<parent, children>>
              ELSE alloc_and_add(IF dir = NULL THEN Root ELSE dir, new_inode, "file",
                                 IF dir = NULL THEN path ELSE LastName(path))
           /\ data' = IF fail = "data" THEN data
                      ELSE [data EXCEPT ![new_inode] = [p \in {0} |-> byte]]
           /\ size' = IF fail = "data" THEN size ELSE [size EXCEPT ![new_inode] = 1]
           /\ call' = Call("boot", {path}, fail,
                           IF bytes /\ fail = "data" THEN "ENOMEM" ELSE "ok")
           /\ UNCHANGED <<fd_table, stale, booting>>

\* ramfs_create_dir
ramfs_create_dir(path) ==
  /\ booting
  /\ IF new_inode = NULL THEN Return("boot", {path}, "none", "ENOMEM")
     ELSE /\ alloc_and_add(Root, new_inode, "dir", path)
          /\ call' = Call("boot", {path}, "none", "ok")
          /\ UNCHANGED <<data, size, fd_table, stale, booting>>

\* kernel_main is done with the file system
Booted ==
  /\ booting
  /\ booting' = FALSE
  /\ call' = Call("booted", {}, "none", "ok")
  /\ UNCHANGED <<tree, data, size, fd_table, stale>>

Next ==
  \/ \E path \in Paths :
       \/ vfs_create(path, "file") \/ vfs_create(path, "dir")
       \/ vfs_unlink(path) \/ vfs_rmdir(path)
       \/ sys_openat(path, TRUE) \/ sys_openat(path, FALSE)
       \/ ramfs_create_dir(path)
       \/ \E byte \in Bytes : \/ ramfs_create_file(path, byte, TRUE)
                              \/ ramfs_create_file(path, byte, FALSE)
  \/ \E old, new \in Paths : vfs_rename(old, new)
  \/ \E fd \in Fds :
       \/ sys_close(fd)
       \/ \E count \in Counts : sys_read(fd, count)
       \/ \E count \in Counts, byte \in Bytes : sys_write(fd, count, byte)
       \/ \E offset \in Offsets, whence \in {"SET", "CUR", "END"} :
            sys_lseek(fd, offset, whence)
  \/ sys_open_root
  \/ Booted

Spec == Init /\ [][Next]_vars

-----------------------------------------------------------------------------
(* Properties. *)

\* Every variable keeps its type; a file's size fits its buffer, and
\* inode_count, which four operations change, is the number of inodes.
TypeOK ==
  /\ kind \in [Inodes -> {"dir", "file", "free"}]
  /\ name \in [Inodes -> Paths \cup {<<>>}]
  /\ parent \in [Inodes -> Inodes \cup {NULL}]
  /\ children \in [Inodes -> Seq(Inodes)]
  /\ \A i \in Inodes : /\ data[i] \in [0 .. capacity(i) - 1 -> Bytes \cup {JUNK}]
                       /\ size[i] <= capacity(i)
  /\ size \in [Inodes -> 0 .. MaxSize]
  /\ next_ino \in 2 .. MaxIno + 1 /\ inode_count = Cardinality(Live)
  /\ fd_table \in [Fds -> Files \cup {NULL}]
  /\ stale \subseteq {fd \in Fds : fd_table[fd] # NULL}
  /\ booting \in BOOLEAN

\* The inodes that paths from the root lead to, however long: those that are
\* in every set that has the root and, with a directory, its list.
ListOf(d) == IF kind[d] = "dir" THEN Range(children[d]) ELSE {}
Closed(S) == Root \in S /\ \A d \in S : ListOf(d) \subseteq S
Reachable == {i \in Inodes : \A S \in SUBSET Inodes : Closed(S) => i \in S}

\* What hangs below the root is a tree: no inode is in a list twice or in the
\* lists of two directories, and each is allocated and has the directory it is
\* in as its parent.  ramfs_readdir and ramfs_lookup_child follow the sibling
\* pointers with no other bound (ramfs.c:98, 262): a freed inode in a list, an
\* inode in two of them, or one below itself is what unlinking and relinking
\* in the wrong order or in the wrong list leaves.
TreeShape ==
  LET reach == Reachable
  IN  \A d \in reach :
        /\ kind[d] # "free"
        /\ Cardinality(ListOf(d)) = Len(children[d]) \/ kind[d] # "dir"
        /\ \A c \in ListOf(d) : parent[c] = d /\ c # Root
        /\ \A e \in reach \ {d} : ListOf(d) \cap ListOf(e) = {}

\* A descriptor that no unlink or rmdir has made stale names an allocated
\* inode of the kind it was opened as: nothing else that happens to the tree -
\* a rename over it, the removal of its directory, another descriptor's close,
\* a creation that fails half-way - takes the inode away from it.
HeldLive ==
  \A fd \in Fds : fd_table[fd] # NULL /\ fd \notin stale =>
    kind[fd_table[fd].inode] = IF fd_table[fd].dir THEN "dir" ELSE "file"

\* The tree and the open files stay whole through every sequence of calls.
TreeConsistent == TypeOK /\ TreeShape /\ HeldLive

\* A call changes what a path resolves to only if the path is one of its
\* operands or lies below one: removing the first of two children of one name,
\* moving a directory, and moving the head of a list leave every other path
\* as it was.
ResolutionStable ==
  [][\A p \in Paths : resolve(p)' # resolve(p) =>
        \E q \in call'.paths : IsPrefix(q, p)]_tree

\* A call that fails, and not for want of memory, leaves the tree and the
\* contents of files alone.  (A creation that runs out of memory after
\* ramfs_add_child leaves the new child behind, ramfs.c:320.)
ErrorIsNoOp ==
  [][call'.ret # "ok" /\ call'.fail = "none"
       => UNCHANGED <<tree, data, size, fd_table>>]_vars

\* The bytes below the size of a file that outlives the step change only where
\* a write to it wrote: growing the buffer (ramfs_write, ramfs.c:168) keeps
\* them, and so do all the other calls.
ContentKept ==
  [][\A i \in Live : kind'[i] # "free" =>
       /\ size'[i] >= size[i]
       /\ \A p \in 0 .. size[i] - 1 : data'[i][p] # data[i][p] =>
            /\ call'.op = "write" /\ call'.inode = i
            /\ p \in call'.from .. call'.from + call'.count - 1]_<<kind, data, size>>

\* The reachable inodes that share their directory and name with another.
Homonyms ==
  LET reach == Reachable
  IN  {c \in reach : \E e \in reach \ {c} : parent[e] = parent[c] /\ name[e] = name[c]}

\* vfs_open with O_CREAT and vfs_rename look the name up before they use it:
\* they never make a directory hold two children of one name.  (vfs_create,
\* vfs_mkdir and the boot-time helpers do not look, and do.)
OpenRenameKeepNamesUnique ==
  [][call'.op \in {"open", "rename"} /\ call'.fail # "lookup"
       => Homonyms' \subseteq Homonyms]_tree
=============================================================================
