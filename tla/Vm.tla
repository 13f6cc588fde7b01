--------------------------------- MODULE Vm ---------------------------------
(***************************************************************************)
(* Physical pages (mm/pmm.c), page tables and address spaces (mm/vmm.c)    *)
(* and what fork and exec do with them (sched/fork.c).                     *)
(*                                                                         *)
(* A virtual address is a page number of four digits in base VMM_ENTRIES,  *)
(* one for each level.  Page tables are memory: `mem.tab' maps a table to  *)
(* its entries, and a table is the kernel's pgd, one of the early tables   *)
(* or a physical page, so that sharing, reuse and loss of pages are seen.  *)
(* pmm stays in its early (bitmap) mode: nothing in the code leaves it.    *)
(* On x86_64 vmm_init returns before it builds anything: the model is that *)
(* of the arm64 build.                                                     *)
(* `call' is a history variable, what the last call was and did.           *)
(***************************************************************************)
EXTENDS Integers, FiniteSets, Sequences, FiniteSetsExt, SequencesExt

CONSTANTS
  NPages,               \* pages of physical memory
  KernelPages,          \* the pages that hold the kernel image
  HeapPages,            \* the pages of kmalloc's heap, at its fixed address
  VMM_ENTRIES,          \* entries of a table, 512 in the code
  EARLY_TABLES_COUNT,   \* static tables that are used before pmm's pages
  BlockEntries,         \* entries of the first L1 table that map 1 GB blocks
  MmPool, VmaPool,      \* sizes of mm_pool (64) and vma_pool (256)
  KernelText,           \* a page of the kernel's code, inside a block
  Ranges,               \* the [start, n] of programs' segments
  UserRanges,           \* the [start, n] user mappings are asked for
  Devices,              \* the [start, n] drivers map
  Stack,                \* the [start, n] of the user stack
  StackPages            \* pages of a task's kernel stack

Pages == 1 .. NPages
NoPage == 0
EarlyTables == NPages + 1 .. NPages + EARLY_TABLES_COUNT
kernel_pgd == NPages + EARLY_TABLES_COUNT + 1
Tables == Pages \cup EarlyTables \cup {kernel_pgd}
Index == 0 .. VMM_ENTRIES - 1

\* The pages that one entry of a level spans: 1 << VMM_LEVELi_SHIFT bytes.
EntrySpan(level) ==
  CASE level = 0 -> VMM_ENTRIES * VMM_ENTRIES * VMM_ENTRIES
    [] level = 1 -> VMM_ENTRIES * VMM_ENTRIES
    [] level = 2 -> VMM_ENTRIES
    [] level = 3 -> 1

VirtualPages == VMM_ENTRIES * EntrySpan(0)
USER_VMA_END == (VMM_ENTRIES \div 2) * EntrySpan(0)

Span(r) == r.start .. r.start + r.n - 1

\* The kernel's code, devices and the user stack are at addresses of the lower
\* half.  kmalloc's heap lies in the memory that pmm manages.
ASSUME VmAssumption ==
  /\ NPages \in Nat /\ KernelPages \subseteq Pages
  /\ HeapPages \subseteq Pages \ KernelPages
  /\ VMM_ENTRIES \in Nat \ {0} /\ VMM_ENTRIES % 2 = 0
  /\ EARLY_TABLES_COUNT \in Nat \ {0}
  /\ BlockEntries \subseteq Index
  /\ MmPool \in Nat /\ VmaPool \in Nat /\ StackPages \in Nat \ {0}
  /\ KernelText \in 0 .. USER_VMA_END - 1
  /\ \A r \in Ranges \cup UserRanges \cup Devices \cup {Stack} :
       r = [start |-> r.start, n |-> r.n] /\ r.start \in Nat /\ r.n \in Nat
  /\ \A r \in Devices \cup {Stack} : Span(r) \subseteq 0 .. USER_VMA_END - 1
  /\ \A r \in Ranges \cup UserRanges : Span(r) \subseteq 0 .. VirtualPages - 1

\* Programs are linked to addresses of the lower half.  load_elf_binary maps
\* whatever p_vaddr says (fork.c:138): the code does not see to it.
ProgramsInLowerHalf == \A r \in Ranges : Span(r) \subseteq 0 .. USER_VMA_END - 1

VARIABLES
  mem,                  \* [used, free, early, tab]: bitmap, free_pages_count,
                        \* early_table_index and the contents of the tables
  mms,                  \* mm_pool: the address spaces taken so far
  vma_index,
  held,                 \* [start, n] of the blocks drivers and tasks hold
  ttbr0,                \* the page tables the CPU translates with
  call

vars == <<mem, mms, vma_index, held, ttbr0, call>>

Entry == [kind : {"none", "table", "block", "page"}, to : Nat]
Nothing == [kind |-> "none", to |-> NoPage]
Empty == [i \in Index |-> Nothing]
TableEntry(t) == [kind |-> "table", to |-> t]
PageEntry(p) == [kind |-> "page", to |-> p]

\* Memory that is not RAM: a device's registers, mapped where they are.
Registers(v) == kernel_pgd + 1 + v

pte_index(v, level) == (v \div EntrySpan(level)) % VMM_ENTRIES

-----------------------------------------------------------------------------
(* pmm: first fit over the bitmap.  An allocation of order o is one of     *)
(* n = 1 << o pages (order_to_pages).                                      *)

Block(start, n) == start .. start + n - 1

pmm_alloc_pages(m, n) ==
  LET fits == {s \in Pages : Block(s, n) \subseteq Pages \ m.used}
  IN  IF fits = {} THEN [m |-> m, page |-> NoPage]
      ELSE [m |-> [m EXCEPT !.used = @ \cup Block(Min(fits), n), !.free = @ - n],
            page |-> Min(fits)]

pmm_alloc_page(m) == pmm_alloc_pages(m, 1)

pmm_free_pages(m, start, n) ==
  [m EXCEPT !.used = @ \ Block(start, n), !.free = @ + n]

-----------------------------------------------------------------------------
(* The tables.  An operation on memory yields the memory after it and      *)
(* whether it succeeded.                                                   *)

\* Mutant: early_table_index is not advanced.
alloc_page_table_same(m) ==
  IF m.early < EARLY_TABLES_COUNT
  THEN LET t == NPages + m.early + 1
       IN  [m |-> [m EXCEPT !.tab[t] = Empty], page |-> t]
  ELSE LET a == pmm_alloc_page(m)
       IN  IF a.page = NoPage THEN a ELSE [a EXCEPT !.m.tab[a.page] = Empty]

\* Static tables first, then pages; a new table is cleared.
alloc_page_table(m) ==
  IF m.early < EARLY_TABLES_COUNT
  THEN LET t == NPages + m.early + 1
       IN  [m |-> [m EXCEPT !.early = @ + 1, !.tab[t] = Empty], page |-> t]
  ELSE LET a == pmm_alloc_page(m)
       IN  IF a.page = NoPage THEN a ELSE [a EXCEPT !.m.tab[a.page] = Empty]

\* One level of the walk: an absent table is made if `allocate', a block ends it.
Descend(w, v, level, allocate) ==
  LET i == pte_index(v, level)
      e == w.m.tab[w.table][i]
      new == alloc_page_table(w.m)
  IN  CASE w.table = NoPage -> w
        [] w.table # NoPage /\ e.kind = "table" -> [w EXCEPT !.table = e.to]
        [] w.table # NoPage /\ e.kind = "none" /\ allocate ->
             IF new.page = NoPage THEN [w EXCEPT !.table = NoPage]
             ELSE [m |-> [new.m EXCEPT !.tab[w.table][i] = TableEntry(new.page)],
                   table |-> new.page]
        [] OTHER -> [w EXCEPT !.table = NoPage]

\* The level-3 table of v, NoPage if there is none.  What was allocated on the
\* way stays when a later level fails.
walk_page_table(m, pgd, v, allocate) ==
  FoldLeft(LAMBDA w, level : Descend(w, v, level, allocate),
           [m |-> m, table |-> pgd], <<0, 1, 2>>)

\* What v is mapped to (vmm_virt_to_phys).
Leaf(m, pgd, v) ==
  LET Below(t, level) ==
        LET e == m.tab[t][pte_index(v, level)]
        IN  IF e.kind = "table" THEN e.to ELSE NoPage
      l1 == Below(pgd, 0)
      l2 == IF l1 = NoPage THEN NoPage ELSE Below(l1, 1)
      l3 == IF l2 = NoPage THEN NoPage ELSE Below(l2, 2)
  IN  IF l3 = NoPage THEN Nothing ELSE m.tab[l3][pte_index(v, 3)]

vmm_map_page(m, v, p) ==
  LET w == walk_page_table(m, kernel_pgd, v, TRUE)
      i == pte_index(v, 3)
  IN  IF w.table = NoPage THEN [m |-> w.m, ok |-> FALSE]
      ELSE IF w.m.tab[w.table][i].kind # "none" THEN [m |-> w.m, ok |-> FALSE]
      ELSE [m |-> [w.m EXCEPT !.tab[w.table][i] = PageEntry(p)], ok |-> TRUE]

vmm_unmap_page(m, v) ==
  LET w == walk_page_table(m, kernel_pgd, v, FALSE)
  IN  IF w.table = NoPage THEN m
      ELSE [m EXCEPT !.tab[w.table][pte_index(v, 3)] = Nothing]

vmm_unmap_range(m, r) ==
  FoldLeft(LAMBDA a, k : vmm_unmap_page(a, r.start + k - 1), m, [k \in 1 .. r.n |-> k])

\* Mutant: the rollback includes the page that could not be mapped.
vmm_map_range_over(m, r) ==
  LET Map(a, k) ==
        LET v == r.start + k - 1
            after == vmm_map_page(a.m, v, Registers(v))
        IN  IF ~a.ok THEN a
            ELSE IF after.ok THEN after
            ELSE [m |-> vmm_unmap_range(after.m, [start |-> r.start, n |-> k]),
                  ok |-> FALSE]
  IN  FoldLeft(Map, [m |-> m, ok |-> TRUE], [k \in 1 .. r.n |-> k])

\* Maps page after page and, when one fails, unmaps those before it.
vmm_map_range(m, r) ==
  LET Map(a, k) ==
        LET v == r.start + k - 1
            after == vmm_map_page(a.m, v, Registers(v))
        IN  IF ~a.ok THEN a
            ELSE IF after.ok THEN after
            ELSE [m |-> vmm_unmap_range(after.m, [start |-> r.start, n |-> k - 1]),
                  ok |-> FALSE]
  IN  FoldLeft(Map, [m |-> m, ok |-> TRUE], [k \in 1 .. r.n |-> k])

-----------------------------------------------------------------------------
(* Address spaces.                                                         *)

NoMm == [pgd |-> NoPage, vma_list |-> {}]
Lower == {i \in Index : i < VMM_ENTRIES \div 2}

\* Mutant: the kernel's first entry is shared, and with it its tables.
vmm_create_sharing(m, pool) ==
  LET a == alloc_page_table(m)
  IN  IF Len(pool) = MmPool THEN [m |-> m, pool |-> pool, ok |-> FALSE]
      ELSE IF a.page = NoPage
      THEN [m |-> a.m, pool |-> Append(pool, NoMm), ok |-> FALSE]
      ELSE [m |-> [a.m EXCEPT !.tab[a.page] = m.tab[kernel_pgd]],
            pool |-> Append(pool, [NoMm EXCEPT !.pgd = a.page]), ok |-> TRUE]

\* A slot of mm_pool is spent even when its page table cannot be had.  The new
\* table takes the kernel's entries of the upper half.
vmm_create_address_space(m, pool) ==
  LET a == alloc_page_table(m)
  IN  IF Len(pool) = MmPool THEN [m |-> m, pool |-> pool, ok |-> FALSE]
      ELSE IF a.page = NoPage
      THEN [m |-> a.m, pool |-> Append(pool, NoMm), ok |-> FALSE]
      ELSE [m |-> [a.m EXCEPT !.tab[a.page] =
                     [i \in Index |-> IF i \in Lower THEN Nothing
                                      ELSE m.tab[kernel_pgd][i]]],
            pool |-> Append(pool, [NoMm EXCEPT !.pgd = a.page]), ok |-> TRUE]

\* Replaces what v was mapped to.
vmm_map_user_page(m, pgd, v, p) ==
  LET w == walk_page_table(m, pgd, v, TRUE)
  IN  IF v >= USER_VMA_END THEN [m |-> m, ok |-> FALSE]
      ELSE IF w.table = NoPage THEN [m |-> w.m, ok |-> FALSE]
      ELSE [m |-> [w.m EXCEPT !.tab[w.table][pte_index(v, 3)] = PageEntry(p)],
            ok |-> TRUE]

\* Mutant: the page that could not be mapped is not given back.
MapUserPagesKeep(m, pgd, r) ==
  LET Map(a, k) ==
        LET got == pmm_alloc_page(a.m)
            after == vmm_map_user_page(got.m, pgd, r.start + k - 1, got.page)
        IN  IF ~a.ok THEN a
            ELSE IF got.page = NoPage THEN [m |-> got.m, ok |-> FALSE]
            ELSE after
  IN  FoldLeft(Map, [m |-> m, ok |-> TRUE], [k \in 1 .. r.n |-> k])

\* A page for every address until one cannot be had or mapped; that one is
\* given back, those before it stay.
MapUserPages(m, pgd, r) ==
  LET Map(a, k) ==
        LET got == pmm_alloc_page(a.m)
            after == vmm_map_user_page(got.m, pgd, r.start + k - 1, got.page)
        IN  IF ~a.ok THEN a
            ELSE IF got.page = NoPage THEN [m |-> got.m, ok |-> FALSE]
            ELSE IF after.ok THEN after
            ELSE [m |-> pmm_free_pages(after.m, got.page, 1), ok |-> FALSE]
  IN  FoldLeft(Map, [m |-> m, ok |-> TRUE], [k \in 1 .. r.n |-> k])

-----------------------------------------------------------------------------
(* Exec: program and stack go into the kernel's tables, and the result of  *)
(* vmm_map_page is not looked at.                                          *)

\* `lost' says that a page was taken and not mapped.
MapProgram(m, r) ==
  LET Map(a, k) ==
        LET got == pmm_alloc_page(a.m)
            after == vmm_map_page(got.m, r.start + k - 1, got.page)
        IN  IF ~a.ok THEN a
            ELSE IF got.page = NoPage THEN [a EXCEPT !.ok = FALSE]
            ELSE [m |-> after.m, ok |-> TRUE, lost |-> a.lost \/ ~after.ok]
  IN  FoldLeft(Map, [m |-> m, ok |-> TRUE, lost |-> FALSE], [k \in 1 .. r.n |-> k])

\* The stack goes on without the pages it cannot have.
MapStack(m) ==
  LET Map(a, k) ==
        LET got == pmm_alloc_page(a.m)
            after == vmm_map_page(got.m, Stack.start + k - 1, got.page)
        IN  IF got.page = NoPage THEN a
            ELSE [m |-> after.m, lost |-> a.lost \/ ~after.ok]
  IN  FoldLeft(Map, [m |-> m, lost |-> FALSE], [k \in 1 .. Stack.n |-> k])

-----------------------------------------------------------------------------
(* The calls.                                                              *)

Called(op, ok, mm, range) == [op |-> op, ok |-> ok, mm |-> mm, range |-> range]
NoRange == [start |-> 0, n |-> 0]

\* alloc_stack of create_task, and drivers that want contiguous pages.
HoldPages(n) ==
  LET a == pmm_alloc_pages(mem, n)
  IN  /\ mem' = a.m
      /\ held' = IF a.page = NoPage THEN held
                 ELSE held \cup {[start |-> a.page, n |-> n]}
      /\ call' = Called("alloc", a.page # NoPage, 0, NoRange)
      /\ UNCHANGED <<mms, vma_index, ttbr0>>

ReleasePages(b) ==
  /\ b \in held
  /\ mem' = pmm_free_pages(mem, b.start, b.n)
  /\ held' = held \ {b}
  /\ call' = Called("free", TRUE, 0, NoRange)
  /\ UNCHANGED <<mms, vma_index, ttbr0>>

MapDevice(r) ==
  LET after == vmm_map_range(mem, r)
  IN  /\ mem' = after.m
      /\ call' = Called("map_range", after.ok, 0, r)
      /\ UNCHANGED <<mms, vma_index, held, ttbr0>>

\* A driver unmaps what it mapped.
UnmapDevice(r) ==
  /\ \A v \in Span(r) : Leaf(mem, kernel_pgd, v) = PageEntry(Registers(v))
  /\ mem' = vmm_unmap_range(mem, r)
  /\ call' = Called("unmap_range", TRUE, 0, r)
  /\ UNCHANGED <<mms, vma_index, held, ttbr0>>

\* do_fork of a task that has an address space.
copy_mm ==
  LET c == vmm_create_address_space(mem, mms)
  IN  /\ mem' = c.m
      /\ mms' = c.pool
      /\ call' = Called("create", c.ok, Len(c.pool), NoRange)
      /\ UNCHANGED <<vma_index, held, ttbr0>>

Live == {k \in DOMAIN mms : mms[k].pgd # NoPage}

vmm_destroy_address_space(k) ==
  /\ k \in Live /\ ttbr0 # mms[k].pgd
  /\ mem' = [mem EXCEPT !.tab[mms[k].pgd] =
               [i \in Index |-> IF i \in Lower THEN Nothing ELSE @[i]]]
  /\ mms' = [mms EXCEPT ![k] = NoMm]
  /\ call' = Called("destroy", TRUE, k, NoRange)
  /\ UNCHANGED <<vma_index, held, ttbr0>>

\* The VMA comes first, and a full pool does not stop the mapping.
vmm_map_user_range(k, r) ==
  LET after == MapUserPages(mem, mms[k].pgd, r)
      room == vma_index < VmaPool
  IN  /\ k \in Live
      /\ mms' = IF room THEN [mms EXCEPT ![k].vma_list = @ \cup {r}] ELSE mms
      /\ vma_index' = IF room THEN vma_index + 1 ELSE vma_index
      /\ mem' = after.m
      /\ call' = Called("map_user", after.ok, k, r)
      /\ UNCHANGED <<held, ttbr0>>

\* `first': the task has no address space yet.
do_execve(r, first) ==
  LET c == IF first THEN vmm_create_address_space(mem, mms)
           ELSE [m |-> mem, pool |-> mms, ok |-> TRUE]
      program == MapProgram(c.m, r)
      stack == MapStack(program.m)
      mapped == c.ok /\ program.ok
  IN  /\ mem' = IF ~c.ok THEN c.m ELSE IF ~program.ok THEN program.m ELSE stack.m
      /\ mms' = c.pool
      /\ call' = Called(IF c.ok /\ (program.lost \/ (mapped /\ stack.lost))
                        THEN "exec_lost" ELSE "exec", mapped, 0, r)
      /\ UNCHANGED <<vma_index, held, ttbr0>>

vmm_switch_address_space(k) ==
  /\ k \in Live
  /\ ttbr0' = mms[k].pgd
  /\ call' = Called("switch", TRUE, k, NoRange)
  /\ UNCHANGED <<mem, mms, vma_index, held>>

\* The kernel's pages are marked, the rest is counted; those of the heap are not
\* marked.
pmm_init == [used |-> KernelPages, free |-> Cardinality(Pages \ KernelPages)]

\* vmm_init takes the first early table as
\* L1 table of the lowest addresses and enters the blocks there.
Init ==
  LET l1 == NPages + 1
  IN  /\ mem = [used |-> pmm_init.used, free |-> pmm_init.free, early |-> 1,
                tab |-> [t \in Tables |->
                  [i \in Index |->
                    IF t = kernel_pgd /\ i = 0 THEN TableEntry(l1)
                    ELSE IF t = l1 /\ i \in BlockEntries
                    THEN [kind |-> "block", to |-> NoPage] ELSE Nothing]]]
      /\ mms = <<>>
      /\ vma_index = 0
      /\ held = {}
      /\ ttbr0 = kernel_pgd
      /\ call = Called("init", TRUE, 0, NoRange)

Next ==
  \/ HoldPages(StackPages)
  \/ \E b \in held : ReleasePages(b)
  \/ \E r \in Devices : MapDevice(r) \/ UnmapDevice(r)
  \/ copy_mm
  \/ \E k \in 1 .. MmPool :
       \/ vmm_destroy_address_space(k)
       \/ vmm_switch_address_space(k)
       \/ \E r \in UserRanges : vmm_map_user_range(k, r)
  \/ \E r \in Ranges, first \in BOOLEAN : do_execve(r, first)

Spec == Init /\ [][Next]_vars

-----------------------------------------------------------------------------
(* Properties.                                                             *)

\* The state has its type, and free_pages_count (pmm.c:37) is the number of
\* clear bits of the bitmap, whatever was allocated and freed.
TypeOK ==
  /\ mem.used \in SUBSET Pages
  /\ mem.free = Cardinality(Pages \ mem.used)
  /\ mem.early \in 1 .. EARLY_TABLES_COUNT
  /\ mem.tab \in [Tables -> [Index -> Entry]]
  /\ Len(mms) <= MmPool /\ vma_index \in 0 .. VmaPool
  /\ ttbr0 \in Tables

PointedTo(S) ==
  {mem.tab[x[1]][x[2]].to : x \in {y \in S \X Index : mem.tab[y[1]][y[2]].kind = "table"}}

Roots == {kernel_pgd} \cup {mms[k].pgd : k \in Live}
LiveTables ==
  LET l1 == PointedTo(Roots)
      l2 == PointedTo(l1)
  IN  Roots \cup l1 \cup l2 \cup PointedTo(l2)

\* The entries of live tables that refer to a page or an early table.
References ==
  {x \in LiveTables \X Index :
     mem.tab[x[1]][x[2]].kind # "none" /\ mem.tab[x[1]][x[2]].to \in Tables}

HeldPages == UNION {Block(b.start, b.n) : b \in held}

\* However calls succeed and fail, a page that pmm gave out has one purpose among
\* pmm's users: it is held by a driver or task, or an address space's top table,
\* or the table or page of exactly one entry, and then it is marked used
\* (walk_page_table and vmm_map_user_range, vmm.c:122 and 548).  So no page table
\* is handed out as memory, no page of the kernel image is, and no two address
\* spaces share a page.  The heap's pages are another matter: HeapApart.
OnePurpose ==
  LET Target(x) == mem.tab[x[1]][x[2]].to
  IN  /\ \A x, y \in References : Target(x) = Target(y) => x = y
      /\ \A x \in References :
           /\ Target(x) \notin Roots \cup HeldPages \cup KernelPages
           /\ Target(x) \in Pages => Target(x) \in mem.used
      /\ HeldPages \subseteq mem.used \ (Roots \cup KernelPages)
      /\ \A b, c \in held :
           b # c => Block(b.start, b.n) \cap Block(c.start, c.n) = {}
      /\ \A j, k \in Live : mms[j].pgd = mms[k].pgd => j = k

\* "Fixed heap location" (kmalloc.c:22): the pages of kmalloc's heap are not pmm's
\* to give.  They are, as pmm_init (pmm.c:184) marks the image only.
HeapApart ==
  HeapPages \cap (Roots \cup HeldPages \cup {mem.tab[x[1]][x[2]].to : x \in References}) = {}

Addresses == {KernelText} \cup UNION {Span(r) : r \in Ranges \cup UserRanges \cup Devices \cup {Stack}}

\* vmm_map_range maps all of a range or leaves every translation as it was
\* (vmm.c:347), and neither it nor an exec ever replaces a mapping that stands.
MapRangeAtomic ==
  [][/\ call'.op = "map_range" =>
          \A v \in Addresses :
            Leaf(mem', kernel_pgd, v) =
              IF call'.ok /\ v \in Span(call'.range) THEN PageEntry(Registers(v))
              ELSE Leaf(mem, kernel_pgd, v)
     /\ call'.op \in {"exec", "exec_lost"} =>
          \A v \in Addresses :
            Leaf(mem, kernel_pgd, v) \in {Nothing, Leaf(mem', kernel_pgd, v)}]_vars

\* What is done to one address space, or to the kernel's, changes no translation
\* of another: no step moves an address of a space that it is not about, though
\* the tables of all of them come from one pool (vmm.c:449).
SpacesIsolated ==
  [][\A v \in Addresses :
       /\ call'.mm # 0 => Leaf(mem', kernel_pgd, v) = Leaf(mem, kernel_pgd, v)
       /\ \A k \in Live : k # call'.mm =>
            Leaf(mem', mms[k].pgd, v) = Leaf(mem, mms[k].pgd, v)]_vars

\* While vma_pool has room, an address that vmm_map_user_range mapped lies in a
\* VMA of its address space, even if the call failed half way: vmm_find_vma
\* (vmm.c:533) knows every mapped page.
MappedInVma ==
  vma_index < VmaPool =>
    \A k \in Live : \A v \in Addresses :
      v < USER_VMA_END /\ Leaf(mem, mms[k].pgd, v).kind # "none"
        => \E r \in mms[k].vma_list : v \in Span(r)

\* The bitmap with its count, the page tables and the VMAs agree about every
\* page that pmm gave out, through allocations that fail half way.
MemoryConsistent == TypeOK /\ OnePurpose /\ MappedInVma

\* Used pages that nothing refers to.
Lost ==
  mem.used \ (KernelPages \cup Roots \cup HeldPages
              \cup {mem.tab[x[1]][x[2]].to : x \in References})

Overlaps ==
  \E v \in Span(call'.range) : Leaf(mem, mms[call'.mm].pgd, v).kind # "none"

\* Pages are lost only by destroying an address space, by mapping a user range
\* over one that is mapped, and by an exec whose mapping failed: every other
\* failing path gives back what it took or leaves it reachable.
LostOnlyByOverlap ==
  [][Lost' \subseteq Lost \/ call'.op \in {"destroy", "exec_lost"}
       \/ (call'.op = "map_user" /\ Overlaps)]_vars

\* An address space carries the kernel's mappings, as the comment in
\* vmm_create_address_space says (vmm.c:410): whichever one the CPU uses, the
\* kernel's code is mapped.  The kernel runs at its physical addresses, in the
\* lower half, and only the upper half is copied.
KernelMapped ==
  LET l0 == mem.tab[ttbr0][pte_index(KernelText, 0)]
  IN  l0.kind = "table" /\ mem.tab[l0.to][pte_index(KernelText, 1)].kind = "block"
=============================================================================
