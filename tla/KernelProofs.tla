---------------------------- MODULE KernelProofs ----------------------------
(***************************************************************************)
(* Proofs about Vm, for every size of memory, tables and pools, and about  *)
(* Locks, for every number of processes and every tree of parents, on both *)
(* builds.  The two share no variable; the definitions of Locks that every *)
(* module has carry its name.                                              *)
(*                                                                         *)
(* Vm: the invariant gives every table a level (Good), so that what the    *)
(* roots lead to is a forest of depth three and no entry refers to what    *)
(* another refers to, or to memory that somebody else has.  Each operation *)
(* on memory is shown to keep such a forest, from a single store to the    *)
(* loops over a range, where a first step that breaks it cannot exist.      *)
(* A step is then shown to keep the invariant and to map, and to lose,     *)
(* only what its kind of call may.                                         *)
(*                                                                         *)
(* Locks: the invariant joins the types to three facts: who is in the      *)
(* table's critical section has the CPU and masks interrupts; without      *)
(* preemption who does not have the CPU is outside of every critical       *)
(* section; and a thread that has been through process_schedule carries    *)
(* the right mask wherever it was interrupted.                             *)
(***************************************************************************)
EXTENDS Vm, Locks, SequenceTheorems, FiniteSetTheorems, WellFoundedInduction, TLAPS

-----------------------------------------------------------------------------
(* Virtual addresses. *)

\* Division with remainder.
LEMMA Division ==
  ASSUME NEW v \in Nat, NEW b \in Nat \ {0}
  PROVE  /\ v \div b \in Nat /\ v % b \in 0 .. b - 1
         /\ v = b * (v \div b) + (v % b)
<1>1. v % b = v - b * (v \div b)
  OBVIOUS
<1>2. v \div b \in Nat /\ v % b \in 0 .. b - 1
  OBVIOUS
<1>3. b * (v \div b) \in Int
  BY <1>2
<1> QED BY <1>1, <1>2, <1>3

\* A number is determined by quotient and remainder.
LEMMA Quotient ==
  ASSUME NEW b \in Nat \ {0}, NEW q \in Nat, NEW r \in 0 .. b - 1
  PROVE  (b * q + r) \div b = q /\ (b * q + r) % b = r
OBVIOUS

\* A product of numbers is one.
LEMMA Product ==
  ASSUME NEW a \in Nat, NEW b \in Nat
  PROVE  a * b \in Nat
OBVIOUS

\* Digits of a quotient.
LEMMA DivisionTwice ==
  ASSUME NEW v \in Nat, NEW a \in Nat \ {0}, NEW b \in Nat \ {0}
  PROVE  (v \div a) \div b = v \div (b * a)
<1> DEFINE q == v \div a
           p == q \div b
<1>1. q \in Nat /\ v % a \in 0 .. a - 1 /\ v = a * q + (v % a)
  BY Division
<1> HIDE DEF q
<1>2. p \in Nat /\ q % b \in 0 .. b - 1 /\ q = b * p + (q % b)
  BY <1>1, Division
<1> HIDE DEF p
<1>3. PICK s, t : s = v % a /\ t = q % b
  OBVIOUS
<1>4. s \in 0 .. a - 1 /\ t \in 0 .. b - 1 /\ t \in Nat
  BY <1>1, <1>2, <1>3
<1>5. a * t <= a * (b - 1)
  BY <1>4
<1>6. a * t \in Nat /\ a * b \in Nat /\ a * (b - 1) = a * b - a
  BY <1>4
<1>7. a * t + s \in 0 .. a * b - 1
  BY <1>4, <1>5, <1>6
<1>8. q = b * p + t /\ v = a * q + s
  BY <1>1, <1>2, <1>3
<1>9. a * (b * p + t) = (a * b) * p + a * t
  BY <1>2, <1>4
<1>10. (a * b) * p \in Nat
  BY <1>2, <1>6
<1>11. v = (a * b) * p + (a * t + s)
  <2>1. v = a * (b * p + t) + s
    BY <1>8
  <2> QED BY <1>4, <1>6, <1>9, <1>10, <2>1
<1>12. a * b = b * a /\ a * b # 0
  OBVIOUS
<1>13. v \div (a * b) = p
  <2>1. PICK c, e : c = a * b /\ e = a * t + s
    OBVIOUS
  <2>2. c \in Nat \ {0} /\ e \in 0 .. c - 1 /\ v = c * p + e
    BY <1>6, <1>7, <1>11, <1>12, <2>1
  <2>3. (c * p + e) \div c = p
    BY <1>2, <2>2, Quotient
  <2> QED BY <2>1, <2>2, <2>3
<1> QED BY <1>12, <1>13 DEF p, q

\* The tables have at least two entries, half of them in Lower.
LEMMA Entries ==
  /\ VMM_ENTRIES \in Nat \ {0} /\ VMM_ENTRIES \div 2 \in Nat
  /\ VMM_ENTRIES \div 2 <= VMM_ENTRIES
BY VmAssumption

\* What an entry of each level spans.
LEMMA Spans ==
  /\ EntrySpan(0) = VMM_ENTRIES * (VMM_ENTRIES * VMM_ENTRIES)
  /\ EntrySpan(1) = VMM_ENTRIES * VMM_ENTRIES
  /\ EntrySpan(2) = VMM_ENTRIES
  /\ EntrySpan(3) = 1
  /\ \A l \in 0 .. 3 : EntrySpan(l) \in Nat \ {0}
<1> DEFINE b == VMM_ENTRIES
<1>1. b \in Nat \ {0}
  BY Entries
<1> HIDE DEF b
<1>2. b * b \in Nat \ {0}
  BY <1>1
<1>3. (b * b) * b = b * (b * b) /\ b * (b * b) \in Nat \ {0}
  BY <1>1, <1>2
<1>4. EntrySpan(0) = b * (b * b) /\ EntrySpan(1) = b * b /\ EntrySpan(2) = b /\ EntrySpan(3) = 1
  BY <1>3 DEF EntrySpan, b
<1> QED BY <1>1, <1>2, <1>3, <1>4 DEF b

\* A table index is one, at every level.
LEMMA IndexOf ==
  ASSUME NEW v \in Nat, NEW l \in 0 .. 3
  PROVE  pte_index(v, l) \in Index
<1>1. PICK s : s = EntrySpan(l)
  OBVIOUS
<1>2. s \in Nat \ {0}
  BY <1>1, Spans
<1>3. v \div s \in Nat
  BY <1>2, Division
<1>4. (v \div s) % VMM_ENTRIES \in 0 .. VMM_ENTRIES - 1
  BY <1>3, Entries, Division
<1> QED BY <1>1, <1>4 DEF pte_index, Index

\* The indices of v, from the last to the first.
LEMMA Digits ==
  ASSUME NEW v \in Nat
  PROVE  \E w1, w2, w3 \in Nat :
           /\ v = VMM_ENTRIES * w1 + pte_index(v, 3)
           /\ w1 = VMM_ENTRIES * w2 + pte_index(v, 2)
           /\ w2 = VMM_ENTRIES * w3 + pte_index(v, 1)
           /\ w3 = v \div EntrySpan(0) /\ pte_index(v, 0) = w3 % VMM_ENTRIES
<1> DEFINE b == VMM_ENTRIES
           w1 == v \div b
           w2 == w1 \div b
           w3 == w2 \div b
<1>1. b \in Nat \ {0}
  BY Entries
<1>2. /\ w1 \in Nat /\ v = b * w1 + (v % b)
  BY <1>1, Division
<1>3. w2 \in Nat /\ w1 = b * w2 + (w1 % b)
  <2> HIDE DEF b, w1
  <2> QED BY <1>1, <1>2, Division
<1>4. w3 \in Nat /\ w2 = b * w3 + (w2 % b)
  <2> HIDE DEF b, w2
  <2> QED BY <1>1, <1>3, Division
<1>5. w2 = v \div (b * b)
  <2> HIDE DEF b
  <2> QED BY <1>1, DivisionTwice DEF w1, w2
<1>6. w3 = v \div (b * (b * b))
  <2>1. PICK c : c = b * b
    OBVIOUS
  <2>2. c \in Nat \ {0}
    BY <1>1, <2>1
  <2> HIDE DEF b
  <2>3. (v \div c) \div b = v \div (b * c)
    BY <1>1, <2>2, DivisionTwice
  <2> QED BY <1>5, <2>1, <2>3 DEF w3
<1>7. v \div 1 = v
  OBVIOUS
<1>8. /\ pte_index(v, 3) = v % b /\ pte_index(v, 2) = w1 % b
      /\ pte_index(v, 1) = w2 % b /\ pte_index(v, 0) = w3 % b
      /\ w3 = v \div EntrySpan(0)
  <2> HIDE DEF w2, w3
  <2> QED BY <1>5, <1>6, <1>7, Spans DEF pte_index
<1> HIDE DEF w1, w2, w3
<1> QED BY <1>2, <1>3, <1>4, <1>8

\* u and v have the same indices at every level.
SameAddress(u, v) == \A l \in 0 .. 3 : pte_index(u, l) = pte_index(v, l)

\* The first index of an address, below a multiple of what an entry spans.
LEMMA TopIndex ==
  ASSUME NEW k \in Nat, k <= VMM_ENTRIES, NEW v \in 0 .. k * EntrySpan(0) - 1
  PROVE  /\ v \in Nat /\ v \div EntrySpan(0) \in 0 .. k - 1
         /\ pte_index(v, 0) = v \div EntrySpan(0)
<1>1. PICK s : s = EntrySpan(0) /\ s \in Nat \ {0}
  BY Spans
<1>2. v \in Nat /\ v < k * s
  BY <1>1
<1>3. PICK q, r : q = v \div s /\ r = v % s
  OBVIOUS
<1>4. q \in Nat /\ r \in Nat /\ v = s * q + r
  <2>1. v \div s \in Nat /\ v % s \in 0 .. s - 1 /\ v = s * (v \div s) + (v % s)
    BY <1>1, <1>2, Division
  <2> QED BY <1>1, <1>3, <2>1
<1>5. q < k
  <2> SUFFICES ASSUME k <= q PROVE FALSE
    BY <1>4
  <2>1. s * k <= s * q
    BY <1>1, <1>4
  <2>2. s * q \in Nat /\ s * k = k * s /\ s * k \in Nat
    BY <1>1, <1>4
  <2> QED BY <1>2, <1>4, <2>1, <2>2
<1>6. q % VMM_ENTRIES = q
  BY <1>4, <1>5, Entries
<1> QED BY <1>1, <1>2, <1>3, <1>4, <1>5, <1>6 DEF pte_index

\* An address is determined by its indices.
LEMMA AddressOfDigits ==
  ASSUME NEW u \in 0 .. VirtualPages - 1, NEW v \in 0 .. VirtualPages - 1,
         SameAddress(u, v)
  PROVE  u = v
<1>1. u \in Nat /\ v \in Nat
  OBVIOUS
<1>2. u \div EntrySpan(0) = v \div EntrySpan(0)
  BY TopIndex, Entries DEF VirtualPages, SameAddress
<1>3. PICK a1, a2, a3 \in Nat :
           /\ u = VMM_ENTRIES * a1 + pte_index(u, 3)
           /\ a1 = VMM_ENTRIES * a2 + pte_index(u, 2)
           /\ a2 = VMM_ENTRIES * a3 + pte_index(u, 1)
           /\ a3 = u \div EntrySpan(0)
  BY <1>1, Digits
<1>4. PICK b1, b2, b3 \in Nat :
           /\ v = VMM_ENTRIES * b1 + pte_index(v, 3)
           /\ b1 = VMM_ENTRIES * b2 + pte_index(v, 2)
           /\ b2 = VMM_ENTRIES * b3 + pte_index(v, 1)
           /\ b3 = v \div EntrySpan(0)
  BY <1>1, Digits
<1>5. /\ pte_index(u, 3) = pte_index(v, 3) /\ pte_index(u, 2) = pte_index(v, 2)
      /\ pte_index(u, 1) = pte_index(v, 1)
  BY DEF SameAddress
<1>6. a3 = b3
  BY <1>2, <1>3, <1>4
<1>7. a2 = b2
  BY <1>3, <1>4, <1>5, <1>6
<1>8. a1 = b1
  BY <1>3, <1>4, <1>5, <1>7
<1> QED BY <1>3, <1>4, <1>5, <1>8

\* User space is what the lower half of a top table maps.
LEMMA LowerHalf ==
  ASSUME NEW v \in Nat, v < USER_VMA_END
  PROVE  pte_index(v, 0) \in Lower /\ v \in 0 .. VirtualPages - 1
<1>1. PICK h, s : h = VMM_ENTRIES \div 2 /\ s = EntrySpan(0)
  OBVIOUS
<1>2. h \in Nat /\ h <= VMM_ENTRIES /\ s \in Nat /\ VMM_ENTRIES \in Nat
  BY <1>1, Entries, Spans
<1>3. v \in 0 .. h * s - 1
  BY <1>1, <1>2 DEF USER_VMA_END
<1>4. pte_index(v, 0) \in 0 .. h - 1
  BY <1>1, <1>2, <1>3, TopIndex
<1>5. h * s <= VMM_ENTRIES * s /\ h * s \in Nat /\ VMM_ENTRIES * s \in Nat
  BY <1>2
<1> QED BY <1>1, <1>2, <1>3, <1>4, <1>5 DEF Lower, Index, VirtualPages

-----------------------------------------------------------------------------
(* The page tables as a forest.                                            *)

\* The type of mem, and of the results of the operations on it.
Memory ==
  [used : SUBSET Pages, free : Int, early : 1 .. EARLY_TABLES_COUNT,
   tab : [Tables -> [Index -> Entry]]]

\* The pages and tables that are handed out.
InUse(m) == m.used \cup {kernel_pgd} \cup (NPages + 1 .. NPages + m.early)

\* What an entry of the table t may be when lv gives the levels of the tables:
\* empty, a table of the next level, a page that nothing else uses and that is
\* not in H, registers, or a block.
GoodEntry(m, H, lv, t, e) ==
  \/ e = Nothing
  \/ /\ e.kind = "table" /\ e.to \in Tables
     /\ lv[t] <= 2 /\ lv[e.to] = lv[t] + 1
  \/ /\ e.kind = "page" /\ lv[t] = 3
     /\ e.to \in Pages => e.to \in m.used \ H /\ lv[e.to] = 4
     /\ e.to \in Pages \/ e.to > kernel_pgd
  \/ e.kind = "block" /\ e.to = NoPage

\* R are the top tables, H is memory that belongs to somebody else, and lv gives
\* every table its level, 4 when it is none that R leads to.
Good(m, R, H, lv) ==
  /\ m \in Memory /\ m.free = Cardinality(Pages \ m.used)
  /\ R \subseteq Tables /\ H \subseteq InUse(m)
  /\ lv \in [Tables -> 0 .. 4]
  /\ \A t \in Tables : /\ lv[t] = 0 <=> t \in R
                       /\ lv[t] <= 3 => t \in InUse(m) \ H
  /\ \A t \in Tables, i \in Index :
       lv[t] <= 3 => /\ GoodEntry(m, H, lv, t, m.tab[t][i])
                     /\ lv[t] = 0 /\ i \notin Lower => m.tab[t][i] = Nothing
  /\ \A t \in Tables : lv[t] \in 1 .. 3 =>
       \E u \in Tables, i \in Index :
         lv[u] = lv[t] - 1 /\ m.tab[u][i] = TableEntry(t)
  /\ \A t, u \in Tables, i, j \in Index :
       lv[t] <= 3 /\ lv[u] <= 3 /\ m.tab[t][i].to \in Tables
         /\ m.tab[t][i].to = m.tab[u][j].to
         => t = u /\ i = j

\* What an entry refers to, and the used pages that nothing refers to.
Referred(m, lv) ==
  {q \in Tables : \E t \in Tables, i \in Index : lv[t] <= 3 /\ m.tab[t][i].to = q}

\* The used pages that nothing refers to, R and H apart.
LostIn(m, R, H, lv) == m.used \ (R \cup H \cup Referred(m, lv))

\* Pages, early tables and kernel_pgd are different numbers, and none is NoPage.
LEMMA TableNumbers ==
  /\ NPages \in Nat /\ EARLY_TABLES_COUNT \in Nat \ {0}
  /\ kernel_pgd \in Nat /\ kernel_pgd \in Tables
  /\ Pages \subseteq Tables /\ Tables \subseteq Nat /\ NoPage \notin Tables
  /\ \A t \in Tables : t \in Pages \/ t \in EarlyTables \/ t = kernel_pgd
  /\ \A t \in Tables : t <= kernel_pgd
  /\ kernel_pgd \notin Pages
  /\ \A e \in EarlyTables : e \in Nat /\ e \notin Pages /\ e # kernel_pgd
BY VmAssumption DEF kernel_pgd, Tables, Pages, EarlyTables, NoPage

\* The empty entry.
LEMMA NothingIsNone ==
  /\ Nothing \in Entry /\ Nothing.kind = "none" /\ Nothing.to = NoPage
  /\ Nothing.to \notin Tables
BY TableNumbers DEF Nothing, Entry, NoPage

\* Memory that is taken away from nobody.
LEMMA Weaken ==
  ASSUME NEW m, NEW R, NEW H, NEW lv, Good(m, R, H, lv), NEW G \in SUBSET H
  PROVE  Good(m, R, G, lv)
BY DEF Good, GoodEntry

\* The memory m with the entry i of table t set to e.
Stored(m, t, i, e) == [m EXCEPT !.tab[t][i] = e]

\* n is m but for the entry i of table t, which is e.
EntrySet(m, n, t, i, e) ==
  /\ n \in Memory /\ n.used = m.used /\ n.free = m.free /\ n.early = m.early
  /\ \A u \in Tables, j \in Index :
       n.tab[u][j] = IF u = t /\ j = i THEN e ELSE m.tab[u][j]

\* Stored changes that entry and nothing else.
LEMMA SetEntry ==
  ASSUME NEW m \in Memory, NEW t \in Tables, NEW i \in Index, NEW e \in Entry,
         NEW n, n = Stored(m, t, i, e)
  PROVE  EntrySet(m, n, t, i, e)
BY DEF Memory, Stored, EntrySet

\* The memory m with the table q cleared.
Wiped(m, q) == [m EXCEPT !.tab[q] = Empty]

\* n is m but for the table q, which is empty.
Cleared(m, n, q) ==
  /\ n \in Memory /\ n.used = m.used /\ n.free = m.free /\ n.early = m.early
  /\ n.tab[q] = Empty /\ \A u \in Tables : u # q => n.tab[u] = m.tab[u]

\* Wiped clears that table and nothing else.
LEMMA SetTable ==
  ASSUME NEW m \in Memory, NEW q \in Tables, NEW n, n = Wiped(m, q)
  PROVE  Cleared(m, n, q)
<1>1. Empty \in [Index -> Entry]
  BY NothingIsNone DEF Empty
<1> QED BY <1>1 DEF Memory, Wiped, Cleared

-----------------------------------------------------------------------------
(* pmm.                                                                    *)

\* A block of n pages has n pages.
LEMMA BlockCount ==
  ASSUME NEW s \in Nat, NEW n \in Nat \ {0}
  PROVE  /\ IsFiniteSet(Block(s, n)) /\ Cardinality(Block(s, n)) = n
         /\ s \in Block(s, n)
<1>1. s \in Int /\ s + n - 1 \in Int /\ ~ (s > s + n - 1) /\ (s + n - 1) - s + 1 = n
  OBVIOUS
<1>2. IsFiniteSet(s .. s + n - 1) /\ Cardinality(s .. s + n - 1) = n
  BY <1>1, FS_Interval
<1> QED BY <1>2 DEF Block

\* Sets of pages are finite.
LEMMA PagesFinite ==
  ASSUME NEW S \in SUBSET Pages
  PROVE  IsFiniteSet(S) /\ Cardinality(S) \in Nat
<1>1. IsFiniteSet(Pages)
  BY TableNumbers, FS_Interval DEF Pages
<1> QED BY <1>1, FS_Subset, FS_CardinalityType

\* A set of numbers that holds 0 and with k also k + 1 holds all.
LEMMA AllNumbers ==
  ASSUME NEW n \in Nat, NEW S \in SUBSET (0 .. n), 0 \in S,
         \A k \in 0 .. n - 1 : k \in S => k + 1 \in S
  PROVE  S = 0 .. n
<1> SUFFICES ASSUME (0 .. n) \ S # {} PROVE FALSE
  OBVIOUS
<1> DEFINE T == (0 .. n) \ S
<1>1. T \subseteq Nat /\ T # {}
  OBVIOUS
<1>2. PICK x \in T : \A y \in T : ~ (<<y, x>> \in OpToRel(<, Nat))
  BY <1>1, NatLessThanWellFounded, WFMin
<1>3. \A y \in T : ~ (y < x)
  BY <1>1, <1>2 DEF OpToRel
<1>4. x # 0 /\ x - 1 \in 0 .. n - 1 /\ x - 1 \notin T
  BY <1>1, <1>3
<1> QED BY <1>4

\* A set of pages that is not empty has a least one.
LEMMA LeastPage ==
  ASSUME NEW S \in SUBSET Pages, S # {}
  PROVE  Min(S) \in S
<1>1. S \subseteq Nat /\ S # {}
  BY TableNumbers DEF Pages
<1>2. PICK x \in S : \A y \in S : ~ (<<y, x>> \in OpToRel(<, Nat))
  BY <1>1, NatLessThanWellFounded, WFMin
<1>3. \A y \in S : ~ (y < x)
  BY <1>1, <1>2 DEF OpToRel
<1>4. \A y \in S : x <= y
  BY <1>1, <1>3
<1> QED BY <1>4 DEF Min

\* The allocation a took a block of n free pages.
Allocated(m, n, a) ==
  /\ a = [m |-> a.m, page |-> a.page]
  /\ a.page \in Pages /\ Block(a.page, n) \subseteq Pages \ m.used
  /\ a.m \in Memory /\ a.m.used = m.used \cup Block(a.page, n)
  /\ a.m.free = Cardinality(Pages \ a.m.used)
  /\ a.m.tab = m.tab /\ a.m.early = m.early

\* pmm_alloc_pages fails and changes nothing, or takes a block of free pages.
LEMMA AllocBlock ==
  ASSUME NEW m \in Memory, NEW n \in Nat, n # 0, m.free = Cardinality(Pages \ m.used),
         NEW a, a = pmm_alloc_pages(m, n)
  PROVE  a = [m |-> m, page |-> NoPage] \/ Allocated(m, n, a)
<1> DEFINE fits == {s \in Pages : Block(s, n) \subseteq Pages \ m.used}
           s == Min(fits)
           B == Block(s, n)
<1>1. CASE fits = {}
  BY <1>1 DEF pmm_alloc_pages
<1>2. CASE fits # {}
  <2>1. s \in Pages /\ B \subseteq Pages \ m.used
    <3>1. fits \in SUBSET Pages
      OBVIOUS
    <3>2. s \in fits
      <4> HIDE DEF fits
      <4> QED BY <1>2, <3>1, LeastPage
    <3> QED BY <3>2
  <2>2. s \in Nat
    BY <2>1, TableNumbers
  <2>3. IsFiniteSet(B) /\ Cardinality(B) = n
    BY <2>2, BlockCount
  <2>4. m.used \in SUBSET Pages
    BY DEF Memory
  <2>5. IsFiniteSet(Pages \ m.used) /\ Cardinality(Pages \ m.used) \in Nat
    BY PagesFinite
  <2> DEFINE x == [m EXCEPT !.used = @ \cup B, !.free = @ - n]
  <2>6. pmm_alloc_pages(m, n) = [m |-> x, page |-> s]
    BY <1>2 DEF pmm_alloc_pages
  <2>7. /\ x \in Memory /\ x.used = m.used \cup B /\ x.free = m.free - n
        /\ x.tab = m.tab /\ x.early = m.early
    <3> HIDE DEF B
    <3>1. m.used \cup B \in SUBSET Pages /\ m.free - n \in Int
      BY <2>1, <2>4 DEF Memory
    <3> QED BY <3>1 DEF Memory
  <2>8. Cardinality((Pages \ m.used) \ B) = Cardinality(Pages \ m.used) - n
    <3>1. (Pages \ m.used) \cap B = B
      BY <2>1
    <3>2. Cardinality((Pages \ m.used) \ B)
            = Cardinality(Pages \ m.used) - Cardinality((Pages \ m.used) \cap B)
      BY <2>5, FS_Difference
    <3> QED BY <2>3, <3>1, <3>2
  <2>9. (Pages \ m.used) \ B = Pages \ x.used
    BY <2>7
  <2>10. x.free = Cardinality(Pages \ x.used)
    BY <2>7, <2>8, <2>9
  <2> HIDE DEF x, s, fits
  <2>11. a.m = x /\ a.page = s /\ a = [m |-> a.m, page |-> a.page]
    BY <2>6
  <2> QED BY <2>1, <2>7, <2>10, <2>11 DEF B, Allocated
<1> QED BY <1>1, <1>2

\* A block that is used is freed.
LEMMA FreeBlock ==
  ASSUME NEW m \in Memory, NEW s \in Nat, NEW n \in Nat \ {0},
         m.free = Cardinality(Pages \ m.used), NEW B, B = Block(s, n), B \subseteq m.used,
         NEW k, k = pmm_free_pages(m, s, n)
  PROVE  /\ k \in Memory /\ k.used = m.used \ B
         /\ k.free = Cardinality(Pages \ k.used)
         /\ k.tab = m.tab /\ k.early = m.early
<1> DEFINE x == [m EXCEPT !.used = @ \ B, !.free = @ + n]
<1>1. x = k
  BY DEF pmm_free_pages
<1>2. m.used \in SUBSET Pages
  BY DEF Memory
<1>3. /\ x \in Memory /\ x.used = m.used \ B /\ x.free = m.free + n
      /\ x.tab = m.tab /\ x.early = m.early
  <2>1. m.used \ B \in SUBSET Pages /\ m.free + n \in Int
    BY <1>2 DEF Memory
  <2> QED BY <2>1 DEF Memory
<1>4. IsFiniteSet(Pages \ x.used) /\ Cardinality(Pages \ x.used) \in Nat
  BY PagesFinite
<1>5. Cardinality(B) = n
  BY BlockCount
<1>6. Cardinality((Pages \ x.used) \ B)
        = Cardinality(Pages \ x.used) - Cardinality((Pages \ x.used) \cap B)
  <2> HIDE DEF x
  <2> QED BY <1>4, FS_Difference
<1>7. (Pages \ x.used) \ B = Pages \ m.used /\ (Pages \ x.used) \cap B = B
  BY <1>2, <1>3
<1>8. Cardinality(Pages \ x.used) = m.free + n
  <2>1. Cardinality(Pages \ m.used) = Cardinality(Pages \ x.used) - Cardinality(B)
    BY <1>6, <1>7
  <2> HIDE DEF x
  <2> QED BY <1>4, <1>5, <2>1
<1> QED BY <1>1, <1>3, <1>8

-----------------------------------------------------------------------------
(* Taking and giving back memory leaves the forest as it is.               *)

\* B is memory that is taken.
LEMMA Take ==
  ASSUME NEW m, NEW R, NEW H, NEW lv, Good(m, R, H, lv),
         NEW n \in Memory, NEW B \in SUBSET Tables,
         n.free = Cardinality(Pages \ n.used),
         InUse(n) = InUse(m) \cup B, B \cap InUse(m) = {},
         \A t \in Tables : lv[t] <= 3 => n.tab[t] = m.tab[t]
  PROVE  /\ Good(n, R, H \cup B, lv)
         /\ LostIn(n, R, H \cup B, lv) = LostIn(m, R, H, lv)
<1>1. m \in Memory /\ lv \in [Tables -> 0 .. 4]
  BY DEF Good
<1>2. \A t \in Tables, i \in Index : lv[t] <= 3 => n.tab[t][i] = m.tab[t][i]
  OBVIOUS
<1>3. Referred(n, lv) = Referred(m, lv)
  BY <1>2 DEF Referred
<1>4. n.used = m.used \cup (B \cap Pages) /\ m.used \subseteq Pages /\ B \cap m.used = {}
  <2>1. \A k, q : k \in Memory => (q \in k.used <=> q \in InUse(k) /\ q \in Pages)
    BY TableNumbers DEF Memory, InUse, Pages
  <2> QED BY <1>1, <2>1 DEF Memory
<1>5. LostIn(n, R, H \cup B, lv) = LostIn(m, R, H, lv)
  BY <1>3, <1>4 DEF LostIn
<1>6. R \subseteq Tables /\ H \cup B \subseteq InUse(n)
  BY DEF Good
<1>7. \A t \in Tables : /\ lv[t] = 0 <=> t \in R
                        /\ lv[t] <= 3 => t \in InUse(n) \ (H \cup B)
  BY DEF Good
<1>8. ASSUME NEW t \in Tables, NEW i \in Index, lv[t] <= 3
      PROVE  /\ GoodEntry(n, H \cup B, lv, t, n.tab[t][i])
             /\ lv[t] = 0 /\ i \notin Lower => n.tab[t][i] = Nothing
  <2>1. PICK e : e = m.tab[t][i] /\ e = n.tab[t][i]
    BY <1>2, <1>8
  <2>2. GoodEntry(m, H, lv, t, e) /\ (lv[t] = 0 /\ i \notin Lower => e = Nothing)
    BY <1>8, <2>1 DEF Good
  <2>3. GoodEntry(n, H \cup B, lv, t, e)
    BY <1>4, <2>2 DEF GoodEntry
  <2> QED BY <2>1, <2>2, <2>3
<1>9. \A t \in Tables : lv[t] \in 1 .. 3 =>
         \E u \in Tables, i \in Index :
           lv[u] = lv[t] - 1 /\ n.tab[u][i] = TableEntry(t)
  <2> SUFFICES ASSUME NEW t \in Tables, lv[t] \in 1 .. 3
               PROVE  \E u \in Tables, i \in Index :
                        lv[u] = lv[t] - 1 /\ n.tab[u][i] = TableEntry(t)
    OBVIOUS
  <2>1. PICK u \in Tables, i \in Index : lv[u] = lv[t] - 1 /\ m.tab[u][i] = TableEntry(t)
    BY DEF Good
  <2> QED BY <1>2, <2>1
<1>10. \A t, u \in Tables, i, j \in Index :
         lv[t] <= 3 /\ lv[u] <= 3 /\ n.tab[t][i].to \in Tables
           /\ n.tab[t][i].to = n.tab[u][j].to
           => t = u /\ i = j
  BY <1>2 DEF Good
<1> QED BY <1>1, <1>5, <1>6, <1>7, <1>8, <1>9, <1>10 DEF Good

\* B is memory that is given back.
Freed(m, n, B) ==
  /\ n \in Memory /\ n.free = Cardinality(Pages \ n.used)
  /\ n.used = m.used \ B /\ n.tab = m.tab /\ n.early = m.early

\* Memory that nobody refers to is given back.
LEMMA GiveBack ==
  ASSUME NEW m, NEW R, NEW H, NEW lv, NEW B \in SUBSET Pages,
         NEW G, G = H \cup B, Good(m, R, G, lv), H \cap B = {},
         NEW n, Freed(m, n, B)
  PROVE  /\ Good(n, R, H, lv)
         /\ LostIn(n, R, H, lv) = LostIn(m, R, G, lv)
<1>1. /\ n \in Memory /\ n.free = Cardinality(Pages \ n.used)
      /\ n.used = m.used \ B /\ n.tab = m.tab /\ n.early = m.early
      /\ Good(m, R, H \cup B, lv)
  BY DEF Freed
<1>2. m \in Memory /\ lv \in [Tables -> 0 .. 4]
  BY <1>1 DEF Good
<1>3. Referred(n, lv) = Referred(m, lv)
  BY <1>1 DEF Referred
<1>4. InUse(n) = InUse(m) \ B
  BY <1>1, <1>2, TableNumbers DEF InUse, Memory, Pages
<1>5. LostIn(n, R, H, lv) = LostIn(m, R, H \cup B, lv)
  BY <1>1, <1>3 DEF LostIn
<1>6. R \subseteq Tables /\ H \subseteq InUse(n)
  BY <1>1, <1>4 DEF Good
<1>7. \A t \in Tables : /\ lv[t] = 0 <=> t \in R
                        /\ lv[t] <= 3 => t \in InUse(n) \ H
  BY <1>1, <1>4 DEF Good
<1>8. ASSUME NEW t, NEW e, GoodEntry(m, H \cup B, lv, t, e) PROVE GoodEntry(n, H, lv, t, e)
  BY <1>1, <1>8 DEF GoodEntry
<1>9. \A t \in Tables, i \in Index :
         lv[t] <= 3 => /\ GoodEntry(n, H, lv, t, n.tab[t][i])
                       /\ lv[t] = 0 /\ i \notin Lower => n.tab[t][i] = Nothing
  <2>1. \A t \in Tables, i \in Index :
         lv[t] <= 3 => /\ GoodEntry(m, H \cup B, lv, t, n.tab[t][i])
                       /\ lv[t] = 0 /\ i \notin Lower => n.tab[t][i] = Nothing
    <3>1. \A t \in Tables, i \in Index :
         lv[t] <= 3 => /\ GoodEntry(m, H \cup B, lv, t, m.tab[t][i])
                       /\ lv[t] = 0 /\ i \notin Lower => m.tab[t][i] = Nothing
      BY <1>1, Zenon DEF Good
    <3> QED BY <1>1, Zenon, <3>1
  <2> QED BY <1>8, <2>1
<1>10. /\ \A t \in Tables : lv[t] \in 1 .. 3 =>
           \E u \in Tables, i \in Index :
             lv[u] = lv[t] - 1 /\ n.tab[u][i] = TableEntry(t)
      /\ \A t, u \in Tables, i, j \in Index :
           lv[t] <= 3 /\ lv[u] <= 3 /\ n.tab[t][i].to \in Tables
             /\ n.tab[t][i].to = n.tab[u][j].to
             => t = u /\ i = j
  BY <1>1 DEF Good
<1> QED BY <1>1, <1>2, <1>5, <1>6, <1>7, <1>9, <1>10 DEF Good

\* The table q is taken, and cleared; nothing else changes.
NewTable(m, n, R, H, lv, q) ==
  /\ q \in Tables \ H /\ lv[q] = 4 /\ n.tab[q] = Empty
  /\ \A t \in Tables \ {q} : n.tab[t] = m.tab[t]
  /\ Good(n, R, H \cup {q}, lv)
  /\ LostIn(n, R, H \cup {q}, lv) = LostIn(m, R, H, lv)

\* A table that nobody has: from the early ones or from pmm.
LEMMA NewTableFrom ==
  ASSUME NEW m, NEW R, NEW H, NEW lv, Good(m, R, H, lv),
         NEW k \in Memory, NEW q \in Tables,
         k.free = Cardinality(Pages \ k.used), k.tab = m.tab,
         InUse(k) = InUse(m) \cup {q}, q \notin InUse(m)
  PROVE  NewTable(m, Wiped(k, q), R, H, lv, q)
<1> DEFINE n == Wiped(k, q)
<1>1. /\ n \in Memory /\ n.used = k.used /\ n.free = k.free /\ n.early = k.early
      /\ n.tab[q] = Empty /\ \A u \in Tables : u # q => n.tab[u] = k.tab[u]
  <2> HIDE DEF n
  <2>1. PICK x : x = n
    OBVIOUS
  <2>2. Cleared(k, x, q)
    BY <2>1, SetTable DEF n
  <2> QED BY <2>1, <2>2 DEF Cleared
<1>2. InUse(n) = InUse(m) \cup {q}
  BY <1>1 DEF InUse
<1>3. H \subseteq InUse(m) /\ lv \in [Tables -> 0 .. 4] /\ lv[q] = 4
  <2>1. H \subseteq InUse(m) /\ lv \in [Tables -> 0 .. 4] /\ (lv[q] <= 3 => q \in InUse(m))
    BY DEF Good
  <2>2. lv[q] \in 0 .. 4
    BY <2>1
  <2> QED BY <2>1, <2>2
<1>4. \A t \in Tables : lv[t] <= 3 => n.tab[t] = m.tab[t]
  BY <1>1, <1>3
<1>5. /\ Good(n, R, H \cup {q}, lv)
      /\ LostIn(n, R, H \cup {q}, lv) = LostIn(m, R, H, lv)
  <2>1. n.free = Cardinality(Pages \ n.used)
    BY <1>1
  <2>2. PICK B : B = {q}
    OBVIOUS
  <2>3. B \in SUBSET Tables /\ B \cap InUse(m) = {} /\ InUse(n) = InUse(m) \cup B
    BY <1>2, <2>2
  <2> HIDE DEF n
  <2> QED BY <1>1, <1>4, <2>1, <2>2, <2>3, Take
<1>6. q \notin H
  BY <1>3
<1> HIDE DEF n
<1>7. NewTable(m, n, R, H, lv, q)
  BY <1>1, <1>3, <1>5, <1>6 DEF NewTable
<1> QED BY <1>7 DEF n

\* alloc_page_table fails and changes nothing, or yields a table that nobody has.
LEMMA AllocPageTable ==
  ASSUME NEW m, NEW R, NEW H, NEW lv, Good(m, R, H, lv),
         NEW x, x = alloc_page_table(m)
  PROVE  \/ x = [m |-> m, page |-> NoPage]
         \/ /\ x = [m |-> x.m, page |-> x.page]
            /\ NewTable(m, x.m, R, H, lv, x.page)
<1>1. m \in Memory /\ m.free = Cardinality(Pages \ m.used)
  BY DEF Good
<1>2. CASE m.early < EARLY_TABLES_COUNT
  <2> DEFINE t == NPages + m.early + 1
             k == [m EXCEPT !.early = @ + 1]
  <2>1. m.early \in Nat /\ m.early + 1 \in 1 .. EARLY_TABLES_COUNT
    BY <1>1, <1>2, TableNumbers DEF Memory
  <2>2. k \in Memory /\ k.used = m.used /\ k.free = m.free /\ k.tab = m.tab /\ k.early = m.early + 1
    BY <1>1, <2>1 DEF Memory
  <2>3. t \in Tables /\ t \in EarlyTables
    BY <2>1, TableNumbers DEF Tables, EarlyTables
  <2>4. m.used \subseteq Pages
    BY <1>1 DEF Memory
  <2>5. t \notin m.used /\ t # kernel_pgd /\ t \notin NPages + 1 .. NPages + m.early
    BY <2>1, <2>3, <2>4, TableNumbers
  <2>6. NPages + 1 .. NPages + k.early = (NPages + 1 .. NPages + m.early) \cup {t}
    BY <2>1, <2>2, TableNumbers
  <2>7. InUse(k) = InUse(m) \cup {t} /\ t \notin InUse(m)
    BY <2>2, <2>5, <2>6 DEF InUse
  <2>8. alloc_page_table(m) = [m |-> Wiped(k, t), page |-> t]
    <3>1. [m EXCEPT !.early = @ + 1, !.tab[t] = Empty] = [k EXCEPT !.tab[t] = Empty]
      BY <1>1 DEF Memory
    <3> QED BY <1>2, <3>1 DEF alloc_page_table, Wiped
  <2>9. NewTable(m, Wiped(k, t), R, H, lv, t)
    <3>1. k.free = Cardinality(Pages \ k.used)
      BY <1>1, <2>2
    <3> HIDE DEF k, t
    <3> QED BY <2>2, <2>3, <2>7, <3>1, NewTableFrom
  <2>10. PICK n : n = Wiped(k, t)
    OBVIOUS
  <2> HIDE DEF k, t
  <2>11. x = [m |-> n, page |-> t] /\ NewTable(m, n, R, H, lv, t)
    BY <2>8, <2>9, <2>10
  <2> QED BY <2>11
<1>3. CASE ~ (m.early < EARLY_TABLES_COUNT)
  <2>1. PICK a : a = pmm_alloc_page(m)
    OBVIOUS
  <2>2. a = pmm_alloc_pages(m, 1)
    BY <2>1 DEF pmm_alloc_page
  <2>3. alloc_page_table(m) = IF a.page = NoPage THEN a ELSE [a EXCEPT !.m.tab[a.page] = Empty]
    BY <1>3, <2>1 DEF alloc_page_table
  <2>4. a = [m |-> m, page |-> NoPage] \/ Allocated(m, 1, a)
    BY <1>1, <2>2, AllocBlock
  <2>5. CASE a = [m |-> m, page |-> NoPage]
    BY <2>3, <2>5
  <2>6. CASE a # [m |-> m, page |-> NoPage]
    <3>1. PICK k, q : k = a.m /\ q = a.page
      OBVIOUS
    <3>2. a = [m |-> k, page |-> q] /\ q \in Pages /\ k \in Memory
      BY <2>4, <2>6, <3>1 DEF Allocated
    <3>3. Block(q, 1) = {q}
      BY <3>2, TableNumbers DEF Block, Pages
    <3>4. q \notin m.used /\ k.used = m.used \cup {q} /\ k.tab = m.tab /\ k.early = m.early
          /\ k.free = Cardinality(Pages \ k.used)
      BY <2>4, <2>6, <3>1, <3>3 DEF Allocated
    <3>5. q \in Tables /\ q # NoPage /\ q # kernel_pgd /\ q \notin NPages + 1 .. NPages + m.early
      BY <3>2, TableNumbers DEF Pages, NoPage
    <3>6. InUse(k) = InUse(m) \cup {q} /\ q \notin InUse(m)
      BY <3>4, <3>5 DEF InUse
    <3>7. NewTable(m, Wiped(k, q), R, H, lv, q)
      BY <3>2, <3>4, <3>5, <3>6, NewTableFrom
    <3>8. alloc_page_table(m) = [m |-> Wiped(k, q), page |-> q]
      BY <2>3, <3>2, <3>5 DEF Wiped
    <3>9. PICK n : n = Wiped(k, q)
      OBVIOUS
    <3>10. x = [m |-> n, page |-> q] /\ NewTable(m, n, R, H, lv, q)
      BY <3>7, <3>8, <3>9
    <3> QED BY <3>10
  <2> QED BY <2>5, <2>6
<1> QED BY <1>2, <1>3

-----------------------------------------------------------------------------
(* What a store into a table does to the forest.                           *)

\* The table q is one level below t.
Deeper(lv, t, q) == [lv EXCEPT ![q] = lv[t] + 1]

\* A new table becomes the entry of another.
LEMMA Link ==
  ASSUME NEW m, NEW R, NEW H, NEW lv, NEW q \in Tables \ H,
         Good(m, R, H \cup {q}, lv), m.tab[q] = Empty,
         NEW t \in Tables, NEW i \in Index, lv[t] <= 2, m.tab[t][i] = Nothing,
         lv[t] = 0 => i \in Lower,
         NEW n, EntrySet(m, n, t, i, TableEntry(q)),
         NEW lw, lw = Deeper(lv, t, q)
  PROVE  Good(n, R, H, lw) /\ LostIn(n, R, H, lw) = LostIn(m, R, H \cup {q}, lv)
<1>1. m \in Memory /\ lv \in [Tables -> 0 .. 4] /\ n \in Memory
  BY DEF Good, EntrySet
<1>2. q \in InUse(m) /\ lv[q] = 4
  <2>1. q \in InUse(m) /\ (lv[q] <= 3 => q \notin H \cup {q})
    BY DEF Good
  <2> QED BY <1>1, <2>1
<1>3. t # q /\ lw \in [Tables -> 0 .. 4] /\ lw[q] = lv[t] + 1 /\ lw[q] \in 1 .. 3
      /\ \A u \in Tables \ {q} : lw[u] = lv[u]
  BY <1>1, <1>2 DEF Deeper
<1>4. /\ n.tab[t][i] = TableEntry(q)
      /\ \A j \in Index : n.tab[q][j] = Nothing
      /\ \A u \in Tables, j \in Index : u # t \/ j # i => n.tab[u][j] = m.tab[u][j]
      /\ InUse(n) = InUse(m) /\ n.used = m.used /\ n.free = m.free
  BY <1>3 DEF EntrySet, InUse, Empty
<1>5. TableEntry(q).kind = "table" /\ TableEntry(q).to = q /\ TableEntry(q) # Nothing
  BY DEF TableEntry, Nothing
\* No entry of m leads to q.
<1>6. ASSUME NEW u \in Tables, NEW j \in Index, lv[u] <= 3
      PROVE  m.tab[u][j].to # q
  <2>1. GoodEntry(m, H \cup {q}, lv, u, m.tab[u][j])
    BY <1>6 DEF Good
  <2> QED BY <1>1, <1>2, <2>1, NothingIsNone, TableNumbers DEF GoodEntry
<1>7. /\ R \subseteq Tables /\ H \subseteq InUse(n) /\ n.free = Cardinality(Pages \ n.used)
      /\ q \notin R
  BY <1>2, <1>4 DEF Good
<1>8. ASSUME NEW u \in Tables
      PROVE  /\ lw[u] = 0 <=> u \in R
             /\ lw[u] <= 3 => u \in InUse(n) \ H
  <2>1. CASE u = q
    BY <1>2, <1>3, <1>4, <1>7, <2>1
  <2>2. CASE u # q
    <3>1. (lv[u] = 0 <=> u \in R) /\ (lv[u] <= 3 => u \in InUse(m) \ H)
      BY DEF Good
    <3> QED BY <1>3, <1>4, <2>2, <3>1
  <2> QED BY <2>1, <2>2
<1>9. ASSUME NEW u \in Tables, NEW j \in Index, lw[u] <= 3
      PROVE  /\ GoodEntry(n, H, lw, u, n.tab[u][j])
             /\ lw[u] = 0 /\ j \notin Lower => n.tab[u][j] = Nothing
  <2>1. CASE u = q
    BY <1>4, <2>1 DEF GoodEntry
  <2>2. CASE u = t /\ j = i
    BY <1>3, <1>4, <1>5, <2>2 DEF GoodEntry
  <2>3. CASE u # q /\ (u # t \/ j # i)
    <3>1. lw[u] = lv[u] /\ lv[u] <= 3 /\ n.tab[u][j] = m.tab[u][j]
      BY <1>3, <1>4, <1>9, <2>3
    <3>2. PICK e : e = m.tab[u][j]
      OBVIOUS
    <3>3. GoodEntry(m, H \cup {q}, lv, u, e) /\ (lv[u] = 0 /\ j \notin Lower => e = Nothing)
      <4>1. \A x \in Tables, y \in Index : lv[x] <= 3 =>
              /\ GoodEntry(m, H \cup {q}, lv, x, m.tab[x][y])
              /\ lv[x] = 0 /\ y \notin Lower => m.tab[x][y] = Nothing
        BY DEF Good
      <4> QED BY <3>1, <3>2, <4>1, Zenon
    <3>4. e.to # q
      BY <1>6, <3>1, <3>2
    <3>5. GoodEntry(n, H, lw, u, e)
      BY <1>3, <1>4, <3>1, <3>3, <3>4, TableNumbers DEF GoodEntry
    <3> QED BY <3>1, <3>2, <3>3, <3>5
  <2> QED BY <2>1, <2>2, <2>3
<1>10. ASSUME NEW u \in Tables, lw[u] \in 1 .. 3
       PROVE  \E x \in Tables, j \in Index :
                lw[x] = lw[u] - 1 /\ n.tab[x][j] = TableEntry(u)
  <2>1. CASE u = q
    <3>1. lw[t] = lw[q] - 1
      BY <1>1, <1>3
    <3> QED BY <1>4, <2>1, <3>1
  <2>2. CASE u # q
    <3>1. lv[u] \in 1 .. 3 /\ lw[u] = lv[u]
      BY <1>3, <1>10, <2>2
    <3>2. PICK x \in Tables, j \in Index : lv[x] = lv[u] - 1 /\ m.tab[x][j] = TableEntry(u)
      BY <3>1 DEF Good
    <3>3. x # q
      BY <1>2, <3>1, <3>2
    <3>4. x # t \/ j # i
      BY <3>2 DEF TableEntry, Nothing
    <3> QED BY <1>3, <1>4, <3>1, <3>2, <3>3, <3>4
  <2> QED BY <2>1, <2>2
<1>11. ASSUME NEW u \in Tables, NEW x \in Tables, NEW j \in Index, NEW k \in Index,
              lw[u] <= 3, lw[x] <= 3, n.tab[u][j].to \in Tables,
              n.tab[u][j].to = n.tab[x][k].to
       PROVE  u = x /\ j = k
  <2>1. u # q /\ x # q
    BY <1>4, <1>11, NothingIsNone
  <2>2. lv[u] <= 3 /\ lv[x] <= 3
    BY <1>3, <1>11, <2>1
  <2>3. m.tab[u][j].to # q /\ m.tab[x][k].to # q
    BY <1>6, <2>2
  <2>4. CASE u = t /\ j = i
    BY <1>4, <1>5, <1>11, <2>3, <2>4
  <2>5. CASE x = t /\ k = i
    BY <1>4, <1>5, <1>11, <2>3, <2>5
  <2>6. CASE (u # t \/ j # i) /\ (x # t \/ k # i)
    <3>1. m.tab[u][j].to \in Tables /\ m.tab[u][j].to = m.tab[x][k].to
      BY <1>4, <1>11, <2>6
    <3> QED BY <2>2, <3>1 DEF Good
  <2> QED BY <2>4, <2>5, <2>6
<1>12. Referred(n, lw) = Referred(m, lv) \cup {q}
  <2>1. ASSUME NEW p \in Referred(n, lw) PROVE p \in Referred(m, lv) \cup {q}
    <3>1. PICK u \in Tables, j \in Index : lw[u] <= 3 /\ n.tab[u][j].to = p /\ p \in Tables
      BY DEF Referred
    <3>2. u # q
      BY <1>4, <3>1, NothingIsNone
    <3> QED BY <1>3, <1>4, <1>5, <3>1, <3>2 DEF Referred
  <2>2. ASSUME NEW p \in Referred(m, lv) PROVE p \in Referred(n, lw)
    <3>1. PICK u \in Tables, j \in Index : lv[u] <= 3 /\ m.tab[u][j].to = p /\ p \in Tables
      BY DEF Referred
    <3>2. u # q /\ lw[u] <= 3
      BY <1>2, <1>3, <3>1
    <3>3. u # t \/ j # i
      BY <3>1, NothingIsNone
    <3>4. n.tab[u][j].to = p
      BY <1>4, <3>1, <3>3
    <3> QED BY <3>1, <3>2, <3>4 DEF Referred
  <2>3. q \in Referred(n, lw)
    <3>1. lw[t] <= 3 /\ n.tab[t][i].to = q
      BY <1>3, <1>4, <1>5
    <3> QED BY <3>1 DEF Referred
  <2> QED BY <2>1, <2>2, <2>3
<1>13. LostIn(n, R, H, lw) = LostIn(m, R, H \cup {q}, lv)
  BY <1>4, <1>12 DEF LostIn
<1>14. Good(n, R, H, lw)
  <2>1. \A u \in Tables, j \in Index :
         lw[u] <= 3 => /\ GoodEntry(n, H, lw, u, n.tab[u][j])
                       /\ lw[u] = 0 /\ j \notin Lower => n.tab[u][j] = Nothing
    BY <1>9
  <2>2. \A u \in Tables : lw[u] \in 1 .. 3 =>
       \E x \in Tables, j \in Index :
         lw[x] = lw[u] - 1 /\ n.tab[x][j] = TableEntry(u)
    BY <1>10
  <2>3. \A u, x \in Tables, j, k \in Index :
       lw[u] <= 3 /\ lw[x] <= 3 /\ n.tab[u][j].to \in Tables
         /\ n.tab[u][j].to = n.tab[x][k].to
         => u = x /\ j = k
    BY <1>11
  <2>4. \A u \in Tables : /\ lw[u] = 0 <=> u \in R
                          /\ lw[u] <= 3 => u \in InUse(n) \ H
    BY <1>8
  <2> QED BY <1>1, <1>3, <1>7, <2>1, <2>2, <2>3, <2>4 DEF Good
<1> QED BY <1>13, <1>14

\* A last-level entry is set to nothing, to a page that was spare or to
\* registers; S is the spare page or empty.
Storable(S, e) ==
  /\ e \in Entry
  /\ \/ S = {} /\ e = Nothing
     \/ S = {} /\ e.kind = "page" /\ e.to > kernel_pgd
     \/ e.kind = "page" /\ S = {e.to}

\* A store into a last table keeps the forest; what the entry referred to is lost.
LEMMA Store ==
  ASSUME NEW m, NEW R, NEW H, NEW lv, NEW S \in SUBSET Pages, H \cap S = {},
         NEW G, G = H \cup S, Good(m, R, G, lv),
         NEW t \in Tables, NEW i \in Index, lv[t] = 3,
         NEW e, Storable(S, e), NEW n, EntrySet(m, n, t, i, e)
  PROVE  /\ Good(n, R, H, lv)
         /\ m.tab[t][i].to \notin Tables => LostIn(n, R, H, lv) = LostIn(m, R, G, lv)
<1>1. /\ Good(m, R, H \cup S, lv)
      /\ \/ S = {} /\ e = Nothing
         \/ S = {} /\ e.kind = "page" /\ e.to > kernel_pgd
         \/ e.kind = "page" /\ S = {e.to}
  BY DEF Storable
<1>2. m \in Memory /\ lv \in [Tables -> 0 .. 4] /\ n \in Memory
  BY <1>1 DEF Good, EntrySet
<1>3. /\ n.tab[t][i] = e
      /\ \A u \in Tables, j \in Index : u # t \/ j # i => n.tab[u][j] = m.tab[u][j]
      /\ InUse(n) = InUse(m) /\ n.used = m.used /\ n.free = m.free
  BY DEF EntrySet, InUse
<1>4. \A p \in S : p \in Pages /\ p \in n.used /\ p \notin H /\ lv[p] = 4
  <2>1. \A p \in S : p \in Pages /\ p \in InUse(m) /\ p \notin H /\ (lv[p] <= 3 => p \notin S)
    BY <1>1, TableNumbers DEF Good
  <2>2. \A p \in Pages : p \in InUse(m) => p \in m.used
    BY TableNumbers DEF InUse, Pages
  <2> QED BY <1>2, <1>3, <2>1, <2>2, TableNumbers
<1>5. /\ e.to \in Tables => S = {e.to}
      /\ e.to \notin Tables => S = {}
      /\ e # Nothing => e.kind = "page"
  <2>1. \A x : x \in Tables => x <= kernel_pgd /\ x \in Nat
    BY TableNumbers
  <2>2. \A x \in Tables : ~ (x > kernel_pgd)
    BY <2>1, TableNumbers
  <2> QED BY <1>1, <2>2, NothingIsNone, TableNumbers
\* No entry of m leads to the spare page.
<1>6. ASSUME NEW u \in Tables, NEW j \in Index, lv[u] <= 3
      PROVE  m.tab[u][j].to \notin S
  <2>1. GoodEntry(m, H \cup S, lv, u, m.tab[u][j])
    BY <1>1, <1>6 DEF Good
  <2> SUFFICES ASSUME m.tab[u][j].to \in S PROVE FALSE
    OBVIOUS
  <2>2. PICK x, p : x = m.tab[u][j] /\ p = x.to
    OBVIOUS
  <2>3. p \in Pages /\ p \in Tables /\ p # NoPage /\ lv[p] = 4 /\ p \in S
    BY <1>4, <2>2, TableNumbers
  <2>4. x # Nothing
    BY <2>2, <2>3, NothingIsNone
  <2>5. lv[u] \in 0 .. 4
    BY <1>2
  <2> QED BY <2>1, <2>2, <2>3, <2>4, <2>5 DEF GoodEntry
<1>7. /\ R \subseteq Tables /\ H \subseteq InUse(n) /\ n.free = Cardinality(Pages \ n.used)
      /\ \A u \in Tables : /\ lv[u] = 0 <=> u \in R
                           /\ lv[u] <= 3 => u \in InUse(n) \ H
  BY <1>1, <1>3 DEF Good
<1>8. ASSUME NEW u \in Tables, NEW j \in Index, lv[u] <= 3
      PROVE  /\ GoodEntry(n, H, lv, u, n.tab[u][j])
             /\ lv[u] = 0 /\ j \notin Lower => n.tab[u][j] = Nothing
  <2>1. CASE u = t /\ j = i
    <3>1. GoodEntry(n, H, lv, t, e)
      <4>1. CASE e = Nothing
        BY <4>1 DEF GoodEntry
      <4>2. CASE e # Nothing
        <5>1. e.kind = "page" /\ (e.to \in Pages \/ e.to > kernel_pgd)
          BY <1>1, <1>5, <4>2
        <5>2. e.to \in Pages => e.to \in n.used \ H /\ lv[e.to] = 4
          BY <1>4, <1>5, TableNumbers
        <5> QED BY <5>1, <5>2 DEF GoodEntry
      <4> QED BY <4>1, <4>2
    <3> QED BY <1>3, <2>1, <3>1
  <2>2. CASE u # t \/ j # i
    <3>1. n.tab[u][j] = m.tab[u][j]
      BY <1>3, <2>2
    <3>2. PICK x : x = m.tab[u][j]
      OBVIOUS
    <3>3. GoodEntry(m, H \cup S, lv, u, x) /\ (lv[u] = 0 /\ j \notin Lower => x = Nothing)
      BY <1>1, <1>8, <3>2 DEF Good
    <3>4. GoodEntry(n, H, lv, u, x)
      BY <1>3, <3>3 DEF GoodEntry
    <3> QED BY <3>1, <3>2, <3>3, <3>4
  <2> QED BY <2>1, <2>2
<1>9. ASSUME NEW u \in Tables, lv[u] \in 1 .. 3
      PROVE  \E x \in Tables, j \in Index :
                lv[x] = lv[u] - 1 /\ n.tab[x][j] = TableEntry(u)
  <2>1. PICK x \in Tables, j \in Index : lv[x] = lv[u] - 1 /\ m.tab[x][j] = TableEntry(u)
    BY <1>1, <1>9 DEF Good
  <2>2. x # t
    BY <1>9, <2>1
  <2> QED BY <1>3, <2>1, <2>2
<1>10. ASSUME NEW u \in Tables, NEW x \in Tables, NEW j \in Index, NEW k \in Index,
              lv[u] <= 3, lv[x] <= 3, n.tab[u][j].to \in Tables,
              n.tab[u][j].to = n.tab[x][k].to
       PROVE  u = x /\ j = k
  <2>1. m.tab[u][j].to \notin S /\ m.tab[x][k].to \notin S
    BY <1>6, <1>10
  <2>2. CASE u = t /\ j = i
    BY <1>3, <1>5, <1>10, <2>1, <2>2
  <2>3. CASE x = t /\ k = i
    BY <1>3, <1>5, <1>10, <2>1, <2>3
  <2>4. CASE (u # t \/ j # i) /\ (x # t \/ k # i)
    <3>1. m.tab[u][j].to \in Tables /\ m.tab[u][j].to = m.tab[x][k].to
      BY <1>3, <1>10, <2>4
    <3> QED BY <1>10, <3>1 DEF Good
  <2> QED BY <2>2, <2>3, <2>4
<1>11. ASSUME NEW p \in Tables, p # m.tab[t][i].to
       PROVE  p \in Referred(n, lv) <=> p \in Referred(m, lv) \cup S
  <2>1. ASSUME p \in Referred(n, lv) PROVE p \in Referred(m, lv) \cup S
    <3>1. PICK u \in Tables, j \in Index : lv[u] <= 3 /\ n.tab[u][j].to = p
      BY <2>1 DEF Referred
    <3> QED BY <1>3, <1>5, <3>1 DEF Referred
  <2>2. ASSUME p \in Referred(m, lv) PROVE p \in Referred(n, lv)
    <3>1. PICK u \in Tables, j \in Index : lv[u] <= 3 /\ m.tab[u][j].to = p
      BY <2>2 DEF Referred
    <3>2. u # t \/ j # i
      BY <1>11, <3>1
    <3>3. n.tab[u][j].to = p
      BY <1>3, <3>1, <3>2
    <3> QED BY <3>1, <3>3 DEF Referred
  <2>3. ASSUME p \in S PROVE p \in Referred(n, lv)
    <3>1. p = e.to
      BY <1>5, <2>3
    <3>2. lv[t] <= 3 /\ n.tab[t][i].to = p
      BY <1>3, <3>1
    <3> QED BY <3>2 DEF Referred
  <2> QED BY <2>1, <2>2, <2>3
<1>12. n.used \subseteq Tables
  BY <1>2, TableNumbers DEF Memory
<1>13. m.tab[t][i].to \notin Tables => LostIn(n, R, H, lv) = LostIn(m, R, G, lv)
  BY <1>3, <1>11, <1>12 DEF LostIn
<1>14. Good(n, R, H, lv)
  <2>1. \A u \in Tables, j \in Index :
         lv[u] <= 3 => /\ GoodEntry(n, H, lv, u, n.tab[u][j])
                       /\ lv[u] = 0 /\ j \notin Lower => n.tab[u][j] = Nothing
    BY <1>8
  <2>2. \A u \in Tables : lv[u] \in 1 .. 3 =>
       \E x \in Tables, j \in Index :
         lv[x] = lv[u] - 1 /\ n.tab[x][j] = TableEntry(u)
    BY <1>9
  <2>3. \A u, x \in Tables, j, k \in Index :
       lv[u] <= 3 /\ lv[x] <= 3 /\ n.tab[u][j].to \in Tables
         /\ n.tab[u][j].to = n.tab[x][k].to
         => u = x /\ j = k
    BY <1>10
  <2> QED BY <1>2, <1>7, <2>1, <2>2, <2>3 DEF Good
<1> QED BY <1>13, <1>14

-----------------------------------------------------------------------------
(* Levels, and the roots of the forest.                                    *)

\* The tables of a level.
LevelSet(lv, k) == {t \in Tables : lv[t] = k}

\* The tables that the tables of S point to.
Pointed(m, S) ==
  {m.tab[x[1]][x[2]].to : x \in {y \in S \X Index : m.tab[y[1]][y[2]].kind = "table"}}

\* The tables that the roots R lead to, within the three levels below them.
LiveIn(m, R) ==
  R \cup Pointed(m, R) \cup Pointed(m, Pointed(m, R))
    \cup Pointed(m, Pointed(m, Pointed(m, R)))

\* A table is pointed to by an entry.
LEMMA PointedBy ==
  ASSUME NEW m, NEW S, NEW p
  PROVE  p \in Pointed(m, S)
           <=> \E t \in S, i \in Index : m.tab[t][i].kind = "table" /\ m.tab[t][i].to = p
<1>1. ASSUME p \in Pointed(m, S)
      PROVE \E t \in S, i \in Index : m.tab[t][i].kind = "table" /\ m.tab[t][i].to = p
  <2>1. PICK x \in S \X Index : m.tab[x[1]][x[2]].kind = "table" /\ p = m.tab[x[1]][x[2]].to
    BY <1>1 DEF Pointed
  <2>2. x[1] \in S /\ x[2] \in Index
    OBVIOUS
  <2> QED BY <2>1, <2>2
<1>2. ASSUME NEW t \in S, NEW i \in Index, m.tab[t][i].kind = "table", m.tab[t][i].to = p
      PROVE p \in Pointed(m, S)
  <2>1. PICK x : x = <<t, i>>
    OBVIOUS
  <2>2. x \in S \X Index /\ x[1] = t /\ x[2] = i
    BY <2>1
  <2>3. x \in {y \in S \X Index : m.tab[y[1]][y[2]].kind = "table"}
    BY <1>2, <2>2
  <2>4. p = m.tab[x[1]][x[2]].to
    BY <1>2, <2>2
  <2> QED BY <2>3, <2>4 DEF Pointed
<1> QED BY <1>1, <1>2

\* The tables a level points to are at the next one.
LEMMA NextLevel ==
  ASSUME NEW m, NEW R, NEW H, NEW lv, Good(m, R, H, lv), NEW k \in 0 .. 2,
         NEW S \in SUBSET LevelSet(lv, k)
  PROVE  Pointed(m, S) \subseteq LevelSet(lv, k + 1)
<1> SUFFICES ASSUME NEW p \in Pointed(m, S) PROVE p \in LevelSet(lv, k + 1)
  OBVIOUS
<1>1. PICK t \in S, i \in Index : m.tab[t][i].kind = "table" /\ m.tab[t][i].to = p
  BY PointedBy
<1>2. t \in Tables /\ lv[t] = k
  BY DEF LevelSet
<1>3. GoodEntry(m, H, lv, t, m.tab[t][i])
  BY <1>2 DEF Good
<1> QED BY <1>1, <1>2, <1>3, NothingIsNone DEF GoodEntry, LevelSet

\* Each level is what the one above points to.
LEMMA Levels ==
  ASSUME NEW m, NEW R, NEW H, NEW lv, Good(m, R, H, lv)
  PROVE  /\ LevelSet(lv, 0) = R
         /\ Pointed(m, LevelSet(lv, 0)) = LevelSet(lv, 1)
         /\ Pointed(m, LevelSet(lv, 1)) = LevelSet(lv, 2)
         /\ Pointed(m, LevelSet(lv, 2)) = LevelSet(lv, 3)
<1>1. LevelSet(lv, 0) = R
  BY DEF Good, LevelSet
<1>2. ASSUME NEW k \in 0 .. 2
      PROVE  Pointed(m, LevelSet(lv, k)) = LevelSet(lv, k + 1)
  <2>1. Pointed(m, LevelSet(lv, k)) \subseteq LevelSet(lv, k + 1)
    BY NextLevel
  <2>2. ASSUME NEW t \in LevelSet(lv, k + 1) PROVE t \in Pointed(m, LevelSet(lv, k))
    <3>1. t \in Tables /\ lv[t] = k + 1
      BY <2>2 DEF LevelSet
    <3>2. PICK u \in Tables, i \in Index : lv[u] = lv[t] - 1 /\ m.tab[u][i] = TableEntry(t)
      BY <3>1 DEF Good
    <3>3. u \in LevelSet(lv, k) /\ m.tab[u][i].kind = "table" /\ m.tab[u][i].to = t
      BY <3>1, <3>2 DEF LevelSet, TableEntry
    <3> QED BY <3>3, PointedBy
  <2> QED BY <2>1, <2>2
<1>3. 0 \in 0 .. 2 /\ 1 \in 0 .. 2 /\ 2 \in 0 .. 2 /\ 0 + 1 = 1 /\ 1 + 1 = 2 /\ 2 + 1 = 3
  OBVIOUS
<1> QED BY <1>1, <1>2, <1>3

\* The live tables are those that have a level.
LEMMA LiveLevels ==
  ASSUME NEW m, NEW R, NEW H, NEW lv, Good(m, R, H, lv)
  PROVE  LiveIn(m, R) = {t \in Tables : lv[t] <= 3}
<1>1. LiveIn(m, R) = LevelSet(lv, 0) \cup LevelSet(lv, 1) \cup LevelSet(lv, 2) \cup LevelSet(lv, 3)
  BY Levels DEF LiveIn
<1>2. lv \in [Tables -> 0 .. 4]
  BY DEF Good
<1> QED BY <1>1, <1>2 DEF LevelSet

\* The table q is nobody's yet; it becomes a root; the root q is dropped.
Spare(m, R, H, q, lv) == Good(m, R, H \cup {q}, lv)

\* n has the root q besides those of R, and loses nothing.
RootAdded(m, n, R, H, q, lv, lw) ==
  /\ Good(n, R \cup {q}, H, lw)
  /\ LostIn(n, R \cup {q}, H, lw) = LostIn(m, R, H \cup {q}, lv)

\* n has lost the root q; the tables of the other roots are as they were.
RootDropped(m, n, R, H, q, lw) ==
  Good(n, R \ {q}, H, lw) /\ \A t \in Tables : lw[t] <= 3 => n.tab[t] = m.tab[t]

\* A spare table that is cleared can be a root.
LEMMA NewRoot ==
  ASSUME NEW m, NEW R, NEW H, NEW lv, NEW q \in Tables \ H,
         Spare(m, R, H, q, lv), NEW n, Cleared(m, n, q)
  PROVE  \E lw : RootAdded(m, n, R, H, q, lv, lw)
<1>1. PICK lw : lw = [lv EXCEPT ![q] = 0]
  OBVIOUS
<1>2. Good(m, R, H \cup {q}, lv)
  BY DEF Spare
<1> SUFFICES /\ Good(n, R \cup {q}, H, lw)
             /\ LostIn(n, R \cup {q}, H, lw) = LostIn(m, R, H \cup {q}, lv)
  BY DEF RootAdded
<1> USE <1>1, <1>2
<1>3. m \in Memory /\ lv \in [Tables -> 0 .. 4] /\ n \in Memory
  BY DEF Good, Cleared
<1>4. q \in InUse(m) /\ lv[q] = 4
  <2>1. q \in InUse(m) /\ (lv[q] <= 3 => q \notin H \cup {q})
    BY DEF Good
  <2> QED BY <1>3, <2>1
<1>5. lw \in [Tables -> 0 .. 4] /\ lw[q] = 0
      /\ \A u \in Tables \ {q} : lw[u] = lv[u]
  BY <1>3, <1>4
<1>6. /\ \A j \in Index : n.tab[q][j] = Nothing
      /\ \A u \in Tables \ {q} : n.tab[u] = m.tab[u]
      /\ InUse(n) = InUse(m) /\ n.used = m.used /\ n.free = m.free
  BY DEF Cleared, InUse, Empty
<1>7. ASSUME NEW u \in Tables, NEW j \in Index, lv[u] <= 3
      PROVE  m.tab[u][j].to # q
  <2>1. GoodEntry(m, H \cup {q}, lv, u, m.tab[u][j])
    BY <1>7 DEF Good
  <2> QED BY <1>3, <1>4, <2>1, NothingIsNone, TableNumbers DEF GoodEntry
<1>8. \A u \in Tables : lw[u] <= 3 => u = q \/ (u # q /\ lv[u] <= 3 /\ lw[u] = lv[u])
  BY <1>5
<1>9. /\ R \cup {q} \subseteq Tables /\ H \subseteq InUse(n) /\ n.free = Cardinality(Pages \ n.used)
      /\ \A u \in Tables : /\ lw[u] = 0 <=> u \in R \cup {q}
                           /\ lw[u] <= 3 => u \in InUse(n) \ H
  BY <1>4, <1>5, <1>6 DEF Good
<1>10. \A u \in Tables, j \in Index :
        lw[u] <= 3 => /\ GoodEntry(n, H, lw, u, n.tab[u][j])
                      /\ lw[u] = 0 /\ j \notin Lower => n.tab[u][j] = Nothing
  <2> SUFFICES ASSUME NEW u \in Tables, NEW j \in Index, lw[u] <= 3
               PROVE  /\ GoodEntry(n, H, lw, u, n.tab[u][j])
                      /\ lw[u] = 0 /\ j \notin Lower => n.tab[u][j] = Nothing
    OBVIOUS
  <2>1. CASE u = q
    BY <1>6, <2>1 DEF GoodEntry
  <2>2. CASE u # q
    <3>1. lv[u] <= 3 /\ lw[u] = lv[u] /\ n.tab[u][j] = m.tab[u][j]
      BY <1>5, <1>6, <2>2
    <3>2. PICK e : e = m.tab[u][j]
      OBVIOUS
    <3>3. GoodEntry(m, H \cup {q}, lv, u, e) /\ (lv[u] = 0 /\ j \notin Lower => e = Nothing)
      <4>1. \A x \in Tables, y \in Index : lv[x] <= 3 =>
              /\ GoodEntry(m, H \cup {q}, lv, x, m.tab[x][y])
              /\ lv[x] = 0 /\ y \notin Lower => m.tab[x][y] = Nothing
        BY DEF Good
      <4> QED BY <3>1, <3>2, <4>1, Zenon
    <3>4. e.to # q
      BY <1>7, <3>1, <3>2
    <3>5. GoodEntry(n, H, lw, u, e)
      BY <1>5, <1>6, <3>1, <3>3, <3>4, TableNumbers DEF GoodEntry
    <3> QED BY <3>1, <3>2, <3>3, <3>5
  <2> QED BY <2>1, <2>2
<1>11. \A u \in Tables : lw[u] \in 1 .. 3 =>
        \E x \in Tables, j \in Index : lw[x] = lw[u] - 1 /\ n.tab[x][j] = TableEntry(u)
  <2> SUFFICES ASSUME NEW u \in Tables, lw[u] \in 1 .. 3
               PROVE  \E x \in Tables, j \in Index :
                        lw[x] = lw[u] - 1 /\ n.tab[x][j] = TableEntry(u)
    OBVIOUS
  <2>1. u # q /\ lv[u] \in 1 .. 3 /\ lw[u] = lv[u]
    BY <1>5
  <2>2. PICK x \in Tables, j \in Index : lv[x] = lv[u] - 1 /\ m.tab[x][j] = TableEntry(u)
    BY <2>1 DEF Good
  <2>3. x # q
    BY <1>4, <2>1, <2>2
  <2> QED BY <1>5, <1>6, <2>1, <2>2, <2>3
<1>12. \A u, x \in Tables, j, k \in Index :
         lw[u] <= 3 /\ lw[x] <= 3 /\ n.tab[u][j].to \in Tables
           /\ n.tab[u][j].to = n.tab[x][k].to
           => u = x /\ j = k
  <2> SUFFICES ASSUME NEW u \in Tables, NEW x \in Tables, NEW j \in Index, NEW k \in Index,
                      lw[u] <= 3, lw[x] <= 3, n.tab[u][j].to \in Tables,
                      n.tab[u][j].to = n.tab[x][k].to
               PROVE  u = x /\ j = k
    OBVIOUS
  <2>1. u # q /\ x # q
    BY <1>6, NothingIsNone
  <2>2. lv[u] <= 3 /\ lv[x] <= 3 /\ n.tab[u] = m.tab[u] /\ n.tab[x] = m.tab[x]
    BY <1>5, <1>6, <2>1
  <2> QED BY <2>2 DEF Good
<1>13. Referred(n, lw) = Referred(m, lv)
  <2>1. \A u \in Tables, j \in Index, p \in Tables :
          lw[u] <= 3 /\ n.tab[u][j].to = p => lv[u] <= 3 /\ m.tab[u][j].to = p
    BY <1>5, <1>6, NothingIsNone
  <2>2. \A u \in Tables, j \in Index, p \in Tables :
          lv[u] <= 3 /\ m.tab[u][j].to = p => lw[u] <= 3 /\ n.tab[u][j].to = p
    BY <1>4, <1>5, <1>6
  <2>3. \A p : p \in Referred(n, lw) => p \in Referred(m, lv)
    BY <2>1 DEF Referred
  <2>4. \A p : p \in Referred(m, lv) => p \in Referred(n, lw)
    BY <2>2 DEF Referred
  <2> QED BY <2>3, <2>4
<1>14. LostIn(n, R \cup {q}, H, lw) = LostIn(m, R, H \cup {q}, lv)
  BY <1>6, <1>13 DEF LostIn
<1> QED BY <1>3, <1>5, <1>9, <1>10, <1>11, <1>12, <1>14 DEF Good

\* A root goes, and its tables with it.
LEMMA DropRoot ==
  ASSUME NEW m, NEW R, NEW H, NEW lv, NEW q \in R, Good(m, R, H, lv),
         NEW n, Cleared(m, n, q)
  PROVE  \E lw : RootDropped(m, n, R, H, q, lw)
<1> DEFINE T0 == R \ {q}
           T1 == Pointed(m, T0)
           T2 == Pointed(m, T1)
           T3 == Pointed(m, T2)
           lw == [t \in Tables |-> IF t \in T0 \cup T1 \cup T2 \cup T3 THEN lv[t] ELSE 4]
<1>1. m \in Memory /\ lv \in [Tables -> 0 .. 4] /\ n \in Memory /\ lv[q] = 0 /\ R \subseteq Tables
  BY DEF Good, Cleared
<1>2. /\ T0 \subseteq LevelSet(lv, 0) /\ T1 \subseteq LevelSet(lv, 1)
      /\ T2 \subseteq LevelSet(lv, 2) /\ T3 \subseteq LevelSet(lv, 3)
  <2>1. T0 \subseteq LevelSet(lv, 0)
    BY Levels
  <2>2. T1 \subseteq LevelSet(lv, 0 + 1)
    <3> HIDE DEF T0
    <3> QED BY <2>1, NextLevel
  <2>3. T2 \subseteq LevelSet(lv, 1 + 1)
    <3> HIDE DEF T1
    <3> QED BY <2>2, NextLevel
  <2>4. T3 \subseteq LevelSet(lv, 2 + 1)
    <3> HIDE DEF T2
    <3> QED BY <2>3, NextLevel
  <2> QED BY <2>1, <2>2, <2>3, <2>4
\* The next level of a kept table is kept.
<1>3. /\ \A t : t \in T0 <=> t \in R /\ t # q
      /\ \A t \in Tables, i \in Index : m.tab[t][i].kind = "table" =>
           /\ t \in T0 => m.tab[t][i].to \in T1
           /\ t \in T1 => m.tab[t][i].to \in T2
           /\ t \in T2 => m.tab[t][i].to \in T3
  <2> HIDE DEF T0, T1, T2
  <2> QED BY PointedBy DEF T1, T2, T3, T0
<1>4. /\ \A t : t \in T1
             => \E u \in T0, i \in Index : m.tab[u][i].kind = "table" /\ m.tab[u][i].to = t
      /\ \A t : t \in T2
             => \E u \in T1, i \in Index : m.tab[u][i].kind = "table" /\ m.tab[u][i].to = t
      /\ \A t : t \in T3
             => \E u \in T2, i \in Index : m.tab[u][i].kind = "table" /\ m.tab[u][i].to = t
  <2> HIDE DEF T0, T1, T2
  <2> QED BY PointedBy DEF T1, T2, T3
<1>5. PICK l : l = lw
  OBVIOUS
<1> HIDE DEF T0, T1, T2, T3
<1>6. l \in [Tables -> 0 .. 4]
  BY <1>1, <1>5
<1>7. \A t \in Tables : /\ l[t] = 0 <=> t \in T0
                        /\ l[t] = 1 <=> t \in T1
                        /\ l[t] = 2 <=> t \in T2
                        /\ l[t] = 3 <=> t \in T3
                        /\ l[t] <= 3 => t # q /\ l[t] = lv[t]
  BY <1>1, <1>2, <1>3, <1>5 DEF LevelSet
<1>8. T0 \subseteq Tables /\ T1 \subseteq Tables /\ T2 \subseteq Tables /\ T3 \subseteq Tables
  BY <1>2 DEF LevelSet
<1>9. \A t \in Tables : l[t] <= 3 => n.tab[t] = m.tab[t]
  BY <1>7 DEF Cleared
<1>10. InUse(n) = InUse(m) /\ n.used = m.used /\ n.free = Cardinality(Pages \ n.used)
  BY DEF Cleared, InUse, Good
<1>11. R \ {q} \subseteq Tables /\ H \subseteq InUse(n)
      /\ \A u \in Tables : /\ l[u] = 0 <=> u \in R \ {q}
                           /\ l[u] <= 3 => u \in InUse(n) \ H
  BY <1>3, <1>7, <1>10 DEF Good
<1>12. \A u \in Tables, j \in Index :
        l[u] <= 3 => /\ GoodEntry(n, H, l, u, n.tab[u][j])
                     /\ l[u] = 0 /\ j \notin Lower => n.tab[u][j] = Nothing
  <2> SUFFICES ASSUME NEW u \in Tables, NEW j \in Index, l[u] <= 3
               PROVE  /\ GoodEntry(n, H, l, u, n.tab[u][j])
                      /\ l[u] = 0 /\ j \notin Lower => n.tab[u][j] = Nothing
    OBVIOUS
  <2>1. lv[u] <= 3 /\ l[u] = lv[u] /\ n.tab[u][j] = m.tab[u][j]
    BY <1>7, <1>9
  <2>2. PICK e : e = m.tab[u][j]
    OBVIOUS
  <2>3. GoodEntry(m, H, lv, u, e) /\ (lv[u] = 0 /\ j \notin Lower => e = Nothing)
    BY <2>1, <2>2 DEF Good
  <2>4. GoodEntry(n, H, l, u, e)
    <3>1. CASE e = Nothing
      BY <3>1 DEF GoodEntry
    <3>2. CASE e.kind = "table" /\ e # Nothing
      <4>1. e.to \in Tables /\ lv[u] <= 2
        BY <2>3, <3>2 DEF GoodEntry
      <4>2. l[u] \in 0 .. 2
        BY <1>6, <2>1, <4>1
      <4>3. l[e.to] = l[u] + 1
        BY <1>3, <1>7, <2>2, <3>2, <4>1, <4>2
      <4> QED BY <3>2, <4>1, <4>2, <4>3 DEF GoodEntry
    <3>3. CASE e.kind = "page" /\ e # Nothing
      <4>1. /\ lv[u] = 3
            /\ e.to \in Pages => e.to \in m.used \ H /\ lv[e.to] = 4
            /\ e.to \in Pages \/ e.to > kernel_pgd
        BY <2>3, <3>3 DEF GoodEntry
      <4>2. e.to \in Pages => l[e.to] = 4
        <5>1. PICK p : p = e.to
          OBVIOUS
        <5>2. p \in Pages => lv[p] = 4 /\ p \in Tables
          BY <4>1, <5>1, TableNumbers
        <5>3. p \in Tables => l[p] \in 0 .. 4
          BY <1>6
        <5>4. p \in Tables /\ l[p] <= 3 => l[p] = lv[p]
          BY <1>7
        <5>5. p \in Pages => l[p] = 4
          BY <5>2, <5>3, <5>4
        <5> QED BY <5>1, <5>5
      <4> QED BY <1>10, <2>1, <3>3, <4>1, <4>2 DEF GoodEntry
    <3>4. CASE e.kind = "block" /\ e # Nothing
      BY <2>3, <3>4 DEF GoodEntry
    <3> QED BY <2>3, <3>1, <3>2, <3>3, <3>4 DEF GoodEntry
  <2> QED BY <2>1, <2>2, <2>3, <2>4
<1>13. \A u \in Tables : l[u] \in 1 .. 3 =>
        \E x \in Tables, j \in Index : l[x] = l[u] - 1 /\ n.tab[x][j] = TableEntry(u)
  <2> SUFFICES ASSUME NEW u \in Tables, l[u] \in 1 .. 3
               PROVE  \E x \in Tables, j \in Index :
                        l[x] = l[u] - 1 /\ n.tab[x][j] = TableEntry(u)
    OBVIOUS
  <2>1. l[u] = 1 \/ l[u] = 2 \/ l[u] = 3
    OBVIOUS
  <2>2. PICK x \in Tables, j \in Index :
          l[x] = l[u] - 1 /\ m.tab[x][j].kind = "table" /\ m.tab[x][j].to = u
    BY <1>4, <1>7, <1>8, <2>1
  <2>3. n.tab[x][j] = m.tab[x][j] /\ m.tab[x][j] \in Entry
    <3>1. l[x] <= 3
      BY <2>1, <2>2
    <3> QED BY <1>1, <1>9, <3>1 DEF Memory
  <2>4. n.tab[x][j] = TableEntry(u)
    BY <2>2, <2>3 DEF Entry, TableEntry
  <2> QED BY <2>2, <2>4
<1>14. \A u, x \in Tables, j, k \in Index :
         l[u] <= 3 /\ l[x] <= 3 /\ n.tab[u][j].to \in Tables
           /\ n.tab[u][j].to = n.tab[x][k].to
           => u = x /\ j = k
  <2> SUFFICES ASSUME NEW u \in Tables, NEW x \in Tables, NEW j \in Index, NEW k \in Index,
                      l[u] <= 3, l[x] <= 3, n.tab[u][j].to \in Tables,
                      n.tab[u][j].to = n.tab[x][k].to
               PROVE  u = x /\ j = k
    OBVIOUS
  <2>1. lv[u] <= 3 /\ lv[x] <= 3 /\ n.tab[u] = m.tab[u] /\ n.tab[x] = m.tab[x]
    BY <1>7, <1>9
  <2> QED BY <2>1 DEF Good
<1>15. Good(n, R \ {q}, H, l)
  <2> HIDE DEF lw
  <2> QED BY <1>1, <1>6, <1>10, <1>11, <1>12, <1>13, <1>14 DEF Good
<1> QED BY <1>9, <1>15 DEF RootDropped

-----------------------------------------------------------------------------
(* The walk of an address: the table of each level, NoPage if there is none. *)

Child(m, t, v, l) ==
  IF t = NoPage THEN NoPage
  ELSE IF m.tab[t][pte_index(v, l)].kind = "table"
  THEN m.tab[t][pte_index(v, l)].to ELSE NoPage

Node1(m, r, v) == Child(m, r, v, 0)
Node2(m, r, v) == Child(m, Node1(m, r, v), v, 1)
Node3(m, r, v) == Child(m, Node2(m, r, v), v, 2)

\* What v is mapped to is the entry of its last table.
LEMMA LeafNode ==
  ASSUME NEW m, NEW r \in Tables, NEW v
  PROVE  Leaf(m, r, v) = IF Node3(m, r, v) = NoPage THEN Nothing
                         ELSE m.tab[Node3(m, r, v)][pte_index(v, 3)]
BY TableNumbers, Zenon DEF Leaf, Child, Node1, Node2, Node3

\* A walk goes down one level at a time.
LEMMA ChildLevel ==
  ASSUME NEW m, NEW R, NEW H, NEW lv, Good(m, R, H, lv),
         NEW l \in 0 .. 2, NEW t, t = NoPage \/ (t \in Tables /\ lv[t] = l), NEW v \in Nat
  PROVE  \/ Child(m, t, v, l) = NoPage
         \/ /\ Child(m, t, v, l) \in Tables /\ lv[Child(m, t, v, l)] = l + 1
            /\ t \in Tables /\ m.tab[t][pte_index(v, l)] = TableEntry(Child(m, t, v, l))
<1>1. CASE t = NoPage
  BY <1>1 DEF Child
<1>2. CASE t # NoPage
  <2>1. PICK e : e = m.tab[t][pte_index(v, l)]
    OBVIOUS
  <2>2. pte_index(v, l) \in Index /\ t \in Tables /\ lv[t] = l
    BY <1>2, IndexOf
  <2>3. GoodEntry(m, H, lv, t, e) /\ e \in Entry
    BY <2>1, <2>2 DEF Good, Memory
  <2>4. Child(m, t, v, l) = IF e.kind = "table" THEN e.to ELSE NoPage
    BY <1>2, <2>1 DEF Child
  <2>5. e.kind = "table" => e.to \in Tables /\ lv[e.to] = l + 1 /\ e = TableEntry(e.to)
    BY <2>2, <2>3, NothingIsNone DEF GoodEntry, Entry, TableEntry
  <2> QED BY <2>1, <2>2, <2>4, <2>5
<1> QED BY <1>1, <1>2

\* The tables on the way of v are at levels 1, 2 and 3.
LEMMA NodeLevels ==
  ASSUME NEW m, NEW R, NEW H, NEW lv, Good(m, R, H, lv), NEW r \in R, NEW v \in Nat
  PROVE  /\ r \in Tables /\ lv[r] = 0
         /\ Node1(m, r, v) = NoPage \/ (Node1(m, r, v) \in Tables /\ lv[Node1(m, r, v)] = 1)
         /\ Node2(m, r, v) = NoPage \/ (Node2(m, r, v) \in Tables /\ lv[Node2(m, r, v)] = 2)
         /\ Node3(m, r, v) = NoPage \/ (Node3(m, r, v) \in Tables /\ lv[Node3(m, r, v)] = 3)
<1>1. r \in Tables /\ lv[r] = 0
  BY DEF Good
<1>2. PICK a, b, c : a = Node1(m, r, v) /\ b = Node2(m, r, v) /\ c = Node3(m, r, v)
  OBVIOUS
<1>3. a = Child(m, r, v, 0) /\ b = Child(m, a, v, 1) /\ c = Child(m, b, v, 2)
  BY <1>2 DEF Node1, Node2, Node3
<1>4. 0 \in 0 .. 2 /\ 1 \in 0 .. 2 /\ 2 \in 0 .. 2 /\ 0 + 1 = 1 /\ 1 + 1 = 2 /\ 2 + 1 = 3
  OBVIOUS
<1>5. a = NoPage \/ (a \in Tables /\ lv[a] = 1)
  BY <1>1, <1>3, <1>4, ChildLevel
<1>6. b = NoPage \/ (b \in Tables /\ lv[b] = 2)
  BY <1>3, <1>4, <1>5, ChildLevel
<1>7. c = NoPage \/ (c \in Tables /\ lv[c] = 3)
  BY <1>3, <1>4, <1>6, ChildLevel
<1> QED BY <1>1, <1>2, <1>5, <1>6, <1>7

\* One entry leads to a table.
LEMMA ChildInjective ==
  ASSUME NEW m, NEW R, NEW H, NEW lv, Good(m, R, H, lv), NEW l \in 0 .. 2,
         NEW s, s = NoPage \/ (s \in Tables /\ lv[s] = l),
         NEW t, t = NoPage \/ (t \in Tables /\ lv[t] = l),
         NEW u \in Nat, NEW v \in Nat,
         Child(m, s, u, l) = Child(m, t, v, l), Child(m, t, v, l) # NoPage
  PROVE  s = t /\ t \in Tables /\ pte_index(u, l) = pte_index(v, l)
<1>1. PICK q : q = Child(m, t, v, l) /\ q = Child(m, s, u, l)
  OBVIOUS
<1>2. /\ q \in Tables /\ t \in Tables /\ m.tab[t][pte_index(v, l)] = TableEntry(q)
  BY <1>1, ChildLevel
<1>3. /\ s \in Tables /\ m.tab[s][pte_index(u, l)] = TableEntry(q)
  BY <1>1, <1>2, ChildLevel, TableNumbers
<1>4. pte_index(u, l) \in Index /\ pte_index(v, l) \in Index
  BY IndexOf
<1>5. lv[s] <= 3 /\ lv[t] <= 3
  BY <1>2, <1>3, TableNumbers
<1>6. m.tab[s][pte_index(u, l)].to = q /\ m.tab[t][pte_index(v, l)].to = q
  BY <1>2, <1>3 DEF TableEntry
<1> QED BY <1>2, <1>3, <1>4, <1>5, <1>6 DEF Good

\* A last table belongs to one root and to addresses that agree in three indices.
LEMMA NodeInjective ==
  ASSUME NEW m, NEW R, NEW H, NEW lv, Good(m, R, H, lv),
         NEW r \in R, NEW s \in R, NEW u \in Nat, NEW v \in Nat,
         Node3(m, r, u) = Node3(m, s, v), Node3(m, s, v) # NoPage
  PROVE  r = s /\ \A l \in 0 .. 2 : pte_index(u, l) = pte_index(v, l)
<1>1. PICK a, b, c : a = Node1(m, r, u) /\ b = Node2(m, r, u) /\ c = Node3(m, r, u)
  OBVIOUS
<1>2. PICK x, y, z : x = Node1(m, s, v) /\ y = Node2(m, s, v) /\ z = Node3(m, s, v)
  OBVIOUS
<1>3. /\ a = Child(m, r, u, 0) /\ b = Child(m, a, u, 1) /\ c = Child(m, b, u, 2)
      /\ x = Child(m, s, v, 0) /\ y = Child(m, x, v, 1) /\ z = Child(m, y, v, 2)
  BY <1>1, <1>2 DEF Node1, Node2, Node3
<1>4. /\ r \in Tables /\ lv[r] = 0 /\ s \in Tables /\ lv[s] = 0
      /\ a = NoPage \/ (a \in Tables /\ lv[a] = 1)
      /\ b = NoPage \/ (b \in Tables /\ lv[b] = 2)
      /\ x = NoPage \/ (x \in Tables /\ lv[x] = 1)
      /\ y = NoPage \/ (y \in Tables /\ lv[y] = 2)
  <2>1. /\ r \in Tables /\ lv[r] = 0
        /\ a = NoPage \/ (a \in Tables /\ lv[a] = 1)
        /\ b = NoPage \/ (b \in Tables /\ lv[b] = 2)
    BY <1>1, NodeLevels
  <2>2. /\ s \in Tables /\ lv[s] = 0
        /\ x = NoPage \/ (x \in Tables /\ lv[x] = 1)
        /\ y = NoPage \/ (y \in Tables /\ lv[y] = 2)
    BY <1>2, NodeLevels
  <2> QED BY <2>1, <2>2
<1>5. 0 \in 0 .. 2 /\ 1 \in 0 .. 2 /\ 2 \in 0 .. 2
  OBVIOUS
<1>6. b = y /\ y \in Tables /\ pte_index(u, 2) = pte_index(v, 2)
  <2>1. Child(m, b, u, 2) = Child(m, y, v, 2) /\ Child(m, y, v, 2) # NoPage
    BY <1>1, <1>2, <1>3
  <2> QED BY <1>4, <1>5, <2>1, ChildInjective
<1>7. a = x /\ x \in Tables /\ pte_index(u, 1) = pte_index(v, 1)
  <2>1. Child(m, a, u, 1) = Child(m, x, v, 1) /\ Child(m, x, v, 1) # NoPage
    BY <1>3, <1>6, TableNumbers
  <2> QED BY <1>4, <1>5, <2>1, ChildInjective
<1>8. r = s /\ pte_index(u, 0) = pte_index(v, 0)
  <2>1. Child(m, r, u, 0) = Child(m, s, v, 0) /\ Child(m, s, v, 0) # NoPage
    BY <1>3, <1>7, TableNumbers
  <2> QED BY <1>4, <1>5, <2>1, ChildInjective
<1> QED BY <1>6, <1>7, <1>8

\* Memory whose live tables are the same maps the same.
LEMMA SameLeaf ==
  ASSUME NEW m, NEW R, NEW H, NEW lv, Good(m, R, H, lv),
         NEW n, \A t \in Tables : lv[t] <= 3 => n.tab[t] = m.tab[t],
         NEW r \in R, NEW v \in Nat
  PROVE  /\ Node3(n, r, v) = Node3(m, r, v)
         /\ Leaf(n, r, v) = Leaf(m, r, v)
<1>1. \A t, l : t = NoPage \/ (t \in Tables /\ lv[t] <= 3) => Child(n, t, v, l) = Child(m, t, v, l)
  BY DEF Child
<1>2. /\ r \in Tables /\ lv[r] = 0
      /\ Node1(m, r, v) = NoPage \/ (Node1(m, r, v) \in Tables /\ lv[Node1(m, r, v)] = 1)
      /\ Node2(m, r, v) = NoPage \/ (Node2(m, r, v) \in Tables /\ lv[Node2(m, r, v)] = 2)
      /\ Node3(m, r, v) = NoPage \/ (Node3(m, r, v) \in Tables /\ lv[Node3(m, r, v)] = 3)
  BY NodeLevels
<1>3. Node1(n, r, v) = Node1(m, r, v)
  BY <1>1, <1>2 DEF Node1
<1>4. Node2(n, r, v) = Node2(m, r, v)
  BY <1>1, <1>2, <1>3 DEF Node2
<1>5. Node3(n, r, v) = Node3(m, r, v)
  BY <1>1, <1>2, <1>4 DEF Node3
<1>6. Node3(m, r, v) # NoPage => n.tab[Node3(m, r, v)] = m.tab[Node3(m, r, v)]
  BY <1>2
<1> QED BY <1>2, <1>5, <1>6, LeafNode

\* A new table changes no mapping.
LEMMA LinkLeaf ==
  ASSUME NEW m, NEW R, NEW H, NEW lv, NEW q \in Tables \ H,
         Good(m, R, H \cup {q}, lv), m.tab[q] = Empty,
         NEW t \in Tables, NEW i \in Index, lv[t] <= 2, m.tab[t][i] = Nothing,
         NEW n, EntrySet(m, n, t, i, TableEntry(q)),
         NEW r \in R, NEW v \in Nat
  PROVE  Leaf(n, r, v) = Leaf(m, r, v)
<1>1. lv[q] = 4 /\ \A u \in Tables : lv[u] <= 3 => u # q
  <2>1. lv \in [Tables -> 0 .. 4] /\ (lv[q] <= 3 => q \notin H \cup {q})
    BY DEF Good
  <2> QED BY <2>1
<1>2. PICK a, b, c : a = Node1(m, r, v) /\ b = Node2(m, r, v) /\ c = Node3(m, r, v)
  OBVIOUS
<1>3. PICK x, y, z : x = Node1(n, r, v) /\ y = Node2(n, r, v) /\ z = Node3(n, r, v)
  OBVIOUS
<1>4. /\ a = Child(m, r, v, 0) /\ b = Child(m, a, v, 1) /\ c = Child(m, b, v, 2)
      /\ x = Child(n, r, v, 0) /\ y = Child(n, x, v, 1) /\ z = Child(n, y, v, 2)
  BY <1>2, <1>3 DEF Node1, Node2, Node3
<1>5. /\ r \in Tables /\ lv[r] = 0
      /\ a = NoPage \/ (a \in Tables /\ lv[a] = 1)
      /\ b = NoPage \/ (b \in Tables /\ lv[b] = 2)
      /\ c = NoPage \/ (c \in Tables /\ lv[c] = 3)
  BY <1>2, NodeLevels
\* One level, from the same table or from the new one.
<1>6. ASSUME NEW l \in 0 .. 2, NEW u, NEW w, u = NoPage \/ (u \in Tables /\ lv[u] = l),
             w = u \/ (u = NoPage /\ w = q)
      PROVE  \/ Child(n, w, v, l) = Child(m, u, v, l)
             \/ Child(m, u, v, l) = NoPage /\ Child(n, w, v, l) = q
  <2>1. PICK j : j = pte_index(v, l) /\ j \in Index
    BY IndexOf
  <2>2. CASE w = u /\ u # NoPage
    <3>1. n.tab[u][j] = IF u = t /\ j = i THEN TableEntry(q) ELSE m.tab[u][j]
      BY <1>6, <2>1, <2>2 DEF EntrySet
    <3>2. CASE u = t /\ j = i
      BY <2>1, <2>2, <3>1, <3>2, NothingIsNone DEF Child, TableEntry
    <3>3. CASE ~ (u = t /\ j = i)
      BY <2>1, <2>2, <3>1, <3>3 DEF Child
    <3> QED BY <3>2, <3>3
  <2>3. CASE w = u /\ u = NoPage
    BY <2>3 DEF Child
  <2>4. CASE u = NoPage /\ w = q
    <3>1. q # t
      BY <1>1
    <3>2. n.tab[q][j] = Nothing
      BY <2>1, <3>1 DEF EntrySet, Empty
    <3> QED BY <2>1, <2>4, <3>2, NothingIsNone DEF Child
  <2> QED BY <1>6, <2>2, <2>3, <2>4
<1>7. 0 \in 0 .. 2 /\ 1 \in 0 .. 2 /\ 2 \in 0 .. 2
  OBVIOUS
<1>8. x = a \/ (a = NoPage /\ x = q)
  BY <1>4, <1>5, <1>6, <1>7
<1>9. y = b \/ (b = NoPage /\ y = q)
  BY <1>4, <1>5, <1>6, <1>7, <1>8
<1>10. z = c \/ (c = NoPage /\ z = q)
  BY <1>4, <1>5, <1>6, <1>7, <1>9
<1>11. PICK j : j = pte_index(v, 3) /\ j \in Index
  BY IndexOf
<1>12. Leaf(m, r, v) = IF c = NoPage THEN Nothing ELSE m.tab[c][j]
  BY <1>2, <1>5, <1>11, LeafNode
<1>13. Leaf(n, r, v) = IF z = NoPage THEN Nothing ELSE n.tab[z][j]
  BY <1>3, <1>5, <1>11, LeafNode
<1>14. CASE z = c /\ c # NoPage
  <2>1. c # t
    BY <1>5, <1>14
  <2> QED BY <1>5, <1>11, <1>12, <1>13, <1>14, <2>1 DEF EntrySet
<1>15. CASE z = c /\ c = NoPage
  BY <1>12, <1>13, <1>15
<1>16. CASE c = NoPage /\ z = q
  <2>1. n.tab[q][j] = Nothing
    BY <1>1, <1>11 DEF EntrySet, Empty
  <2> QED BY <1>12, <1>13, <1>16, <2>1, TableNumbers
<1> QED BY <1>10, <1>14, <1>15, <1>16

\* A store into the last table of v changes what v is mapped to, only.
LEMMA StoreLeaf ==
  ASSUME NEW m, NEW R, NEW H, NEW lv, Good(m, R, H, lv),
         NEW s \in R, NEW v \in Nat, NEW t, t = Node3(m, s, v), t # NoPage,
         NEW e, NEW n, EntrySet(m, n, t, pte_index(v, 3), e),
         NEW r \in R, NEW u \in Nat
  PROVE  Leaf(n, r, u) = IF r = s /\ SameAddress(u, v) THEN e ELSE Leaf(m, r, u)
<1>1. t \in Tables /\ lv[t] = 3 /\ s \in Tables
  BY NodeLevels
<1>2. PICK a, b, c : a = Node1(m, r, u) /\ b = Node2(m, r, u) /\ c = Node3(m, r, u)
  OBVIOUS
<1>3. /\ a = Child(m, r, u, 0) /\ b = Child(m, a, u, 1) /\ c = Child(m, b, u, 2)
  BY <1>2 DEF Node1, Node2, Node3
<1>4. /\ r \in Tables /\ lv[r] = 0
      /\ a = NoPage \/ (a \in Tables /\ lv[a] = 1)
      /\ b = NoPage \/ (b \in Tables /\ lv[b] = 2)
      /\ c = NoPage \/ (c \in Tables /\ lv[c] = 3)
  BY <1>2, NodeLevels
<1>5. \A l \in 0 .. 3 : pte_index(u, l) \in Index
  BY IndexOf
<1>6. \A x, l : l \in 0 .. 2 /\ (x = NoPage \/ (x \in Tables /\ lv[x] <= 2))
                  => Child(n, x, u, l) = Child(m, x, u, l)
  <2> SUFFICES ASSUME NEW x, NEW l \in 0 .. 2, x \in Tables, lv[x] <= 2
               PROVE  Child(n, x, u, l) = Child(m, x, u, l)
    BY DEF Child
  <2>1. n.tab[x][pte_index(u, l)] = m.tab[x][pte_index(u, l)]
    BY <1>1, <1>5 DEF EntrySet
  <2> QED BY <2>1 DEF Child
<1>7. Node1(n, r, u) = a
  BY <1>3, <1>4, <1>6 DEF Node1
<1>8. Node2(n, r, u) = b
  BY <1>3, <1>4, <1>6, <1>7 DEF Node2
<1>9. Node3(n, r, u) = c
  BY <1>3, <1>4, <1>6, <1>8 DEF Node3
<1>10. Leaf(m, r, u) = IF c = NoPage THEN Nothing ELSE m.tab[c][pte_index(u, 3)]
  BY <1>2, <1>4, LeafNode
<1>11. Leaf(n, r, u) = IF c = NoPage THEN Nothing ELSE n.tab[c][pte_index(u, 3)]
  BY <1>4, <1>9, LeafNode
<1>12. CASE r = s /\ SameAddress(u, v)
  <2>1. \A l \in 0 .. 3 : pte_index(u, l) = pte_index(v, l)
    BY <1>12 DEF SameAddress
  <2>2. \A x, l : l \in 0 .. 3 => Child(m, x, u, l) = Child(m, x, v, l)
    BY <2>1 DEF Child
  <2>3. c = t
    BY <1>12, <1>2, <2>2 DEF Node1, Node2, Node3
  <2>4. pte_index(u, 3) = pte_index(v, 3) /\ pte_index(u, 3) \in Index
    BY <1>5, <2>1
  <2> QED BY <1>1, <1>11, <1>12, <2>3, <2>4 DEF EntrySet
<1>13. CASE ~ (r = s /\ SameAddress(u, v))
  <2>1. CASE c = NoPage
    BY <1>10, <1>11, <1>13, <2>1
  <2>2. CASE c # NoPage
    <3>1. ~ (c = t /\ pte_index(u, 3) = pte_index(v, 3))
      <4> SUFFICES ASSUME c = t, pte_index(u, 3) = pte_index(v, 3) PROVE FALSE
        OBVIOUS
      <4>1. r = s /\ \A l \in 0 .. 2 : pte_index(u, l) = pte_index(v, l)
        <5>1. Node3(m, r, u) = Node3(m, s, v) /\ Node3(m, s, v) # NoPage
          BY <1>2
        <5> QED BY <5>1, NodeInjective
      <4>2. SameAddress(u, v)
        BY <4>1 DEF SameAddress
      <4> QED BY <1>13, <4>1, <4>2
    <3>2. n.tab[c][pte_index(u, 3)] = m.tab[c][pte_index(u, 3)]
      BY <1>4, <1>5, <2>2, <3>1 DEF EntrySet
    <3> QED BY <1>10, <1>11, <1>13, <2>2, <3>2
  <2> QED BY <2>1, <2>2
<1> QED BY <1>12, <1>13

-----------------------------------------------------------------------------
(* Folds over a range.                                                     *)

\* A set of numbers below a bound has a greatest one.
LEMMA MaxIn ==
  ASSUME NEW n \in Nat, NEW s \in SUBSET (1 .. n), s # {}
  PROVE  Max(s) \in s /\ \A x \in s : x <= Max(s)
<1> DEFINE T == {n - x : x \in s}
<1>1. T \subseteq Nat /\ T # {}
  <2>1. \A x \in s : n - x \in Nat
    OBVIOUS
  <2> QED BY <2>1
<1>2. PICK y \in T : \A z \in T : ~ (<<z, y>> \in OpToRel(<, Nat))
  BY <1>1, NatLessThanWellFounded, WFMin
<1>3. \A z \in T : ~ (z < y)
  BY <1>1, <1>2 DEF OpToRel
<1>4. PICK x \in s : y = n - x
  OBVIOUS
<1>5. \A w \in s : x >= w
  <2> SUFFICES ASSUME NEW w \in s PROVE x >= w
    OBVIOUS
  <2>1. n - w \in T
    OBVIOUS
  <2>2. ~ (n - w < n - x)
    BY <1>3, <1>4, <2>1
  <2> QED BY <2>2
<1>6. Max(s) \in s /\ \A w \in s : Max(s) >= w
  BY <1>5 DEF Max
<1> QED BY <1>6

\* The greatest number of 1 .. k, and the rest.
LEMMA MaxInterval ==
  ASSUME NEW k \in Nat \ {0}
  PROVE  Max(1 .. k) = k /\ (1 .. k) \ {Max(1 .. k)} = 1 .. k - 1
<1>1. Max(1 .. k) \in 1 .. k /\ \A x \in 1 .. k : x <= Max(1 .. k)
  <2>1. 1 .. k \in SUBSET (1 .. k) /\ 1 \in 1 .. k
    OBVIOUS
  <2> QED BY <2>1, MaxIn
<1>2. Max(1 .. k) = k
  BY <1>1
<1> QED BY <1>2

\* What a fold of F from base over the subsets of 1 .. n yields.
IsFold(base, n, F, g) ==
  g = [s \in SUBSET (1 .. n) |->
         IF s = {} THEN base ELSE F[<<g[s \ {Max(s)}], Max(s)>>]]

\* FoldLeft is a CHOOSE of such a function: there is one.
LEMMA FoldExists ==
  ASSUME NEW n \in Nat, NEW X, NEW base \in X, NEW F \in [X \X (1 .. n) -> X]
  PROVE  \E g \in [SUBSET (1 .. n) -> X] : IsFold(base, n, F, g)
<1> DEFINE P(k) == \E g \in [SUBSET (1 .. k) -> X] : IsFold(base, k, F, g)
           S == {k \in 0 .. n : P(k)}
<1>1. 0 \in S
  <2> DEFINE g == [s \in SUBSET (1 .. 0) |-> base]
  <2>1. \A s \in SUBSET (1 .. 0) : s = {}
    OBVIOUS
  <2>2. g \in [SUBSET (1 .. 0) -> X] /\ IsFold(base, 0, F, g)
    BY <2>1 DEF IsFold
  <2> HIDE DEF g
  <2>3. \E x \in [SUBSET (1 .. 0) -> X] : IsFold(base, 0, F, x)
    BY <2>2
  <2>4. P(0) /\ 0 \in 0 .. n
    BY <2>3
  <2> HIDE DEF P
  <2> QED BY <2>4
<1>2. ASSUME NEW k \in 0 .. n - 1, k \in S PROVE k + 1 \in S
  <2>1. PICK g \in [SUBSET (1 .. k) -> X] : IsFold(base, k, F, g)
    BY <1>2
  <2> DEFINE h == [s \in SUBSET (1 .. k + 1) |->
                     IF k + 1 \in s THEN F[<<g[s \ {k + 1}], k + 1>>] ELSE g[s]]
  <2>2. \A s \in SUBSET (1 .. k + 1) : s \ {k + 1} \in SUBSET (1 .. k)
    OBVIOUS
  <2>3. \A s \in SUBSET (1 .. k + 1) : k + 1 \notin s => s \in SUBSET (1 .. k)
    OBVIOUS
  <2>4. h \in [SUBSET (1 .. k + 1) -> X]
    <3>1. ASSUME NEW s \in SUBSET (1 .. k + 1) PROVE h[s] \in X
      <4>1. CASE k + 1 \in s
        <5>1. g[s \ {k + 1}] \in X
          BY <2>1, <2>2
        <5>2. k + 1 \in 1 .. n
          OBVIOUS
        <5>3. F[<<g[s \ {k + 1}], k + 1>>] \in X
          BY <5>1, <5>2
        <5> QED BY <4>1, <5>3
      <4>2. CASE k + 1 \notin s
        BY <2>1, <2>3, <4>2
      <4> QED BY <4>1, <4>2
    <3> QED BY <3>1
  <2>5. ASSUME NEW s \in SUBSET (1 .. k + 1)
        PROVE  h[s] = IF s = {} THEN base ELSE F[<<h[s \ {Max(s)}], Max(s)>>]
    <3>1. CASE k + 1 \in s
      <4>1. Max(s) = k + 1
        <5>1. k + 1 \in Nat /\ s # {}
          BY <3>1
        <5>2. Max(s) \in s /\ \A x \in s : x <= Max(s)
          BY <5>1, MaxIn
        <5>3. Max(s) \in 1 .. k + 1 /\ k + 1 <= Max(s)
          BY <3>1, <5>2
        <5> QED BY <5>3
      <4>2. h[s \ {k + 1}] = g[s \ {k + 1}]
        BY <2>2
      <4> QED BY <3>1, <4>1, <4>2
    <3>2. CASE k + 1 \notin s /\ s # {}
      <4>1. s \in SUBSET (1 .. k)
        BY <2>3, <3>2
      <4>2. g[s] = F[<<g[s \ {Max(s)}], Max(s)>>]
        BY <2>1, <3>2, <4>1 DEF IsFold
      <4>3. s \ {Max(s)} \in SUBSET (1 .. k + 1) /\ k + 1 \notin s \ {Max(s)}
        BY <3>2, <4>1
      <4>4. h[s \ {Max(s)}] = g[s \ {Max(s)}]
        BY <4>3
      <4> QED BY <3>2, <4>2, <4>4
    <3>3. CASE s = {}
      <4>1. g[s] = base
        BY <2>1, <3>3 DEF IsFold
      <4> QED BY <3>3, <4>1
    <3> QED BY <3>1, <3>2, <3>3
  <2>6. IsFold(base, k + 1, F, h)
    <3> DEFINE B(s) == IF s = {} THEN base ELSE F[<<h[s \ {Max(s)}], Max(s)>>]
    <3>1. \A s \in SUBSET (1 .. k + 1) : h[s] = B(s)
      BY <2>5
    <3>2. h = [s \in SUBSET (1 .. k + 1) |-> h[s]]
      OBVIOUS
    <3> HIDE DEF h, B
    <3>3. h = [s \in SUBSET (1 .. k + 1) |-> B(s)]
      BY <3>1, <3>2
    <3> QED BY <3>3 DEF IsFold, B
  <2>7. k + 1 \in 0 .. n
    OBVIOUS
  <2> HIDE DEF h
  <2>8. P(k + 1)
    BY <2>4, <2>6
  <2> HIDE DEF P
  <2> QED BY <2>7, <2>8
<1>3. S = 0 .. n
  <2>1. S \in SUBSET (0 .. n)
    OBVIOUS
  <2> HIDE DEF S
  <2> QED BY <1>1, <1>2, <2>1, AllNumbers
<1>4. P(n)
  <2>1. n \in 0 .. n
    OBVIOUS
  <2> HIDE DEF P
  <2> QED BY <1>3, <2>1
<1> QED BY <1>4

\* The value of such a fold at a subset that is not empty.
FoldStep(n, X, F, g, s) ==
  /\ Max(s) \in 1 .. n /\ g[s \ {Max(s)}] \in X
  /\ g[s] = F[<<g[s \ {Max(s)}], Max(s)>>]

\* Its values, from smaller subsets to larger ones.
LEMMA FoldValues ==
  ASSUME NEW n \in Nat, NEW X, NEW base, NEW F,
         NEW g \in [SUBSET (1 .. n) -> X], IsFold(base, n, F, g)
  PROVE  /\ g[{}] = base
         /\ \A s \in SUBSET (1 .. n) : s # {} => FoldStep(n, X, F, g, s)
<1>1. g[{}] = base
  BY DEF IsFold
<1>2. ASSUME NEW s \in SUBSET (1 .. n), s # {}
      PROVE  FoldStep(n, X, F, g, s)
  <2>1. Max(s) \in 1 .. n
    BY <1>2, MaxIn
  <2>2. s \ {Max(s)} \in SUBSET (1 .. n)
    OBVIOUS
  <2>3. g[s] = F[<<g[s \ {Max(s)}], Max(s)>>]
    BY <1>2 DEF IsFold
  <2> QED BY <2>1, <2>2, <2>3 DEF FoldStep
<1> QED BY <1>1, <1>2

\* The folds over 1 .. k, one after the other.
LEMMA FoldMembers ==
  ASSUME NEW n \in Nat, NEW X, NEW iter, iter[{}] \in X,
         \A k \in 1 .. n : iter[1 .. k - 1] \in X => iter[1 .. k] \in X
  PROVE  [k \in 0 .. n |-> iter[1 .. k]] \in [0 .. n -> X]
<1> DEFINE S == {k \in 0 .. n : iter[1 .. k] \in X}
<1>1. 1 .. 0 = {}
  OBVIOUS
<1>2. 0 \in S
  BY <1>1
<1>3. ASSUME NEW k \in 0 .. n - 1, k \in S PROVE k + 1 \in S
  <2>1. k + 1 \in 1 .. n /\ k + 1 \in 0 .. n /\ (k + 1) - 1 = k
    OBVIOUS
  <2>2. iter[1 .. k + 1] \in X
    BY <1>3, <2>1
  <2> QED BY <2>1, <2>2
<1>4. S \in SUBSET (0 .. n)
  OBVIOUS
<1>5. S = 0 .. n
  <2> HIDE DEF S
  <2> QED BY <1>2, <1>3, <1>4, AllNumbers
<1> QED BY <1>5

\* The subsets that a loop over 1 .. n passes.
LEMMA Initial ==
  ASSUME NEW n \in Nat, NEW k \in 1 .. n
  PROVE  1 .. k \in SUBSET (1 .. n) /\ 1 .. k # {}
<1>1. 1 \in 1 .. k /\ \A x \in 1 .. k : x \in 1 .. n
  OBVIOUS
<1>2. 1 .. k \in SUBSET (1 .. n)
  BY <1>1
<1>3. 1 .. k # {}
  BY <1>1
<1> QED BY <1>2, <1>3

\* The steps of the loops.
MapRangeStep(r, a, k) ==
  LET v == r.start + k - 1
      after == vmm_map_page(a.m, v, Registers(v))
  IN  IF ~a.ok THEN a
      ELSE IF after.ok THEN after
      ELSE [m |-> vmm_unmap_range(after.m, [start |-> r.start, n |-> k - 1]),
            ok |-> FALSE]

\* One page of MapUserPages.
MapUserStep(pgd, r, a, k) ==
  LET got == pmm_alloc_page(a.m)
      after == vmm_map_user_page(got.m, pgd, r.start + k - 1, got.page)
  IN  IF ~a.ok THEN a
      ELSE IF got.page = NoPage THEN [m |-> got.m, ok |-> FALSE]
      ELSE IF after.ok THEN after
      ELSE [m |-> pmm_free_pages(after.m, got.page, 1), ok |-> FALSE]

\* One page of MapProgram.
MapProgramStep(r, a, k) ==
  LET got == pmm_alloc_page(a.m)
      after == vmm_map_page(got.m, r.start + k - 1, got.page)
  IN  IF ~a.ok THEN a
      ELSE IF got.page = NoPage THEN [a EXCEPT !.ok = FALSE]
      ELSE [m |-> after.m, ok |-> TRUE, lost |-> a.lost \/ ~after.ok]

\* One page of MapStack.
MapStackStep(a, k) ==
  LET got == pmm_alloc_page(a.m)
      after == vmm_map_page(got.m, Stack.start + k - 1, got.page)
  IN  IF got.page = NoPage THEN a
      ELSE [m |-> after.m, lost |-> a.lost \/ ~after.ok]

\* h has the memory after each page.
UnmapLoop(m, r, X, h) ==
  /\ h \in [0 .. r.n -> X]
  /\ h[0] = m /\ vmm_unmap_range(m, r) = h[r.n]
  /\ \A k \in 1 .. r.n : h[k] = vmm_unmap_page(h[k - 1], r.start + k - 1)

\* The memory after each page of a vmm_unmap_range.
LEMMA UnmapRangeSteps ==
  ASSUME NEW r, r.n \in Nat, NEW m, NEW X, m \in X,
         \A a \in X, k \in 1 .. r.n : vmm_unmap_page(a, r.start + k - 1) \in X
  PROVE  \E h : UnmapLoop(m, r, X, h)
<1> DEFINE n == r.n
           base == m
           q == [k \in 1 .. n |-> k]
           Op(a, k) == vmm_unmap_page(a, r.start + k - 1)
           IsIter(g) == g = [s \in SUBSET (DOMAIN q) |->
                               IF s = {} THEN base ELSE Op(g[s \ {Max(s)}], q[Max(s)])]
           iter == CHOOSE g : IsIter(g)
<1>1. vmm_unmap_range(m, r) = iter[DOMAIN q]
  BY DEF vmm_unmap_range, FoldLeft, MapThenFoldSet
<1>2. n \in Nat /\ DOMAIN q = 1 .. n /\ \A k \in 1 .. n : q[k] = k
  OBVIOUS
<1>3. base \in X /\ \A a \in X, k \in 1 .. n : Op(a, k) \in X
  OBVIOUS
<1> HIDE DEF n, base, q, Op
<1> DEFINE F == [x \in X \X (1 .. n) |-> Op(x[1], x[2])]
<1>4. F \in [X \X (1 .. n) -> X]
  BY <1>3
<1>5. \A a \in X, k \in 1 .. n : F[<<a, k>>] = Op(a, k)
  OBVIOUS
<1> HIDE DEF F
<1>6. PICK g \in [SUBSET (1 .. n) -> X] : IsFold(base, n, F, g)
  BY <1>2, <1>3, <1>4, FoldExists
<1>7. IsIter(g)
  <2> DEFINE B(s) == IF s = {} THEN base ELSE Op(g[s \ {Max(s)}], q[Max(s)])
  <2>1. \A s \in SUBSET (1 .. n) : g[s] = B(s)
    <3>1. /\ g[{}] = base
          /\ \A s \in SUBSET (1 .. n) : s # {} => FoldStep(n, X, F, g, s)
      BY <1>2, <1>6, FoldValues
    <3> SUFFICES ASSUME NEW s \in SUBSET (1 .. n) PROVE g[s] = B(s)
      OBVIOUS
    <3>2. CASE s = {}
      BY <3>1, <3>2
    <3>3. CASE s # {}
      <4>1. PICK x, a : x = Max(s) /\ a = g[s \ {Max(s)}]
        OBVIOUS
      <4>2. x \in 1 .. n /\ a \in X /\ g[s] = F[<<a, x>>]
        BY <3>1, <3>3, <4>1 DEF FoldStep
      <4>3. g[s] = Op(a, q[x])
        BY <1>2, <1>5, <4>2
      <4> QED BY <3>3, <4>1, <4>3
    <3> QED BY <3>2, <3>3
  <2>2. g = [s \in SUBSET (1 .. n) |-> g[s]]
    OBVIOUS
  <2> HIDE DEF B
  <2>3. g = [s \in SUBSET (1 .. n) |-> B(s)]
    BY <2>1, <2>2
  <2> QED BY <1>2, <2>3 DEF B
<1>8. IsIter(iter)
  <2> HIDE DEF IsIter
  <2> QED BY <1>7
<1> HIDE DEF iter
<1>9. \A s \in SUBSET (1 .. n) :
        iter[s] = IF s = {} THEN base ELSE Op(iter[s \ {Max(s)}], q[Max(s)])
  BY <1>2, <1>8
<1> HIDE DEF IsIter
<1>10. iter[{}] = base
  BY <1>9
<1>11. ASSUME NEW k \in 1 .. n PROVE iter[1 .. k] = Op(iter[1 .. k - 1], k)
  <2>1. 1 .. k \in SUBSET (1 .. n) /\ 1 .. k # {}
    BY <1>2, Initial
  <2>2. Max(1 .. k) = k /\ (1 .. k) \ {Max(1 .. k)} = 1 .. k - 1
    BY <1>2, MaxInterval
  <2> QED BY <1>2, <1>9, <2>1, <2>2
<1> DEFINE h == [k \in 0 .. n |-> iter[1 .. k]]
<1>12. h \in [0 .. n -> X]
  <2>1. iter[{}] \in X
    BY <1>3, <1>10
  <2>2. \A k \in 1 .. n : iter[1 .. k - 1] \in X => iter[1 .. k] \in X
    BY <1>3, <1>11
  <2> QED BY <1>2, <2>1, <2>2, FoldMembers
<1>13. h[0] = base /\ h[n] = iter[DOMAIN q] /\ \A k \in 1 .. n : h[k] = Op(h[k - 1], k)
  <2>1. 1 .. 0 = {} /\ 0 \in 0 .. n /\ n \in 0 .. n
    BY <1>2
  <2>2. \A k \in 1 .. n : k \in 0 .. n /\ k - 1 \in 0 .. n
    BY <1>2
  <2> QED BY <1>2, <1>10, <1>11, <2>1, <2>2
<1> HIDE DEF h
<1> QED BY <1>1, <1>12, <1>13 DEF Op, n, base, UnmapLoop

\* h has what is known after each page.
MapLoop(m, r, X, h) ==
  /\ h \in [0 .. r.n -> X]
  /\ h[0] = [m |-> m, ok |-> TRUE] /\ vmm_map_range(m, r) = h[r.n]
  /\ \A k \in 1 .. r.n : h[k] = MapRangeStep(r, h[k - 1], k)

\* What vmm_map_range has after each page.
LEMMA MapRangeSteps ==
  ASSUME NEW r, r.n \in Nat, NEW m, NEW X, [m |-> m, ok |-> TRUE] \in X,
         \A a \in X, k \in 1 .. r.n : MapRangeStep(r, a, k) \in X
  PROVE  \E h : MapLoop(m, r, X, h)
<1> DEFINE n == r.n
           base == [m |-> m, ok |-> TRUE]
           q == [k \in 1 .. n |-> k]
           Op(a, k) == MapRangeStep(r, a, k)
           IsIter(g) == g = [s \in SUBSET (DOMAIN q) |->
                               IF s = {} THEN base ELSE Op(g[s \ {Max(s)}], q[Max(s)])]
           iter == CHOOSE g : IsIter(g)
<1>1. vmm_map_range(m, r) = iter[DOMAIN q]
  BY DEF vmm_map_range, MapRangeStep, FoldLeft, MapThenFoldSet
<1>2. n \in Nat /\ DOMAIN q = 1 .. n /\ \A k \in 1 .. n : q[k] = k
  OBVIOUS
<1>3. base \in X /\ \A a \in X, k \in 1 .. n : Op(a, k) \in X
  OBVIOUS
<1> HIDE DEF n, base, q, Op
<1> DEFINE F == [x \in X \X (1 .. n) |-> Op(x[1], x[2])]
<1>4. F \in [X \X (1 .. n) -> X]
  BY <1>3
<1>5. \A a \in X, k \in 1 .. n : F[<<a, k>>] = Op(a, k)
  OBVIOUS
<1> HIDE DEF F
<1>6. PICK g \in [SUBSET (1 .. n) -> X] : IsFold(base, n, F, g)
  BY <1>2, <1>3, <1>4, FoldExists
<1>7. IsIter(g)
  <2> DEFINE B(s) == IF s = {} THEN base ELSE Op(g[s \ {Max(s)}], q[Max(s)])
  <2>1. \A s \in SUBSET (1 .. n) : g[s] = B(s)
    <3>1. /\ g[{}] = base
          /\ \A s \in SUBSET (1 .. n) : s # {} => FoldStep(n, X, F, g, s)
      BY <1>2, <1>6, FoldValues
    <3> SUFFICES ASSUME NEW s \in SUBSET (1 .. n) PROVE g[s] = B(s)
      OBVIOUS
    <3>2. CASE s = {}
      BY <3>1, <3>2
    <3>3. CASE s # {}
      <4>1. PICK x, a : x = Max(s) /\ a = g[s \ {Max(s)}]
        OBVIOUS
      <4>2. x \in 1 .. n /\ a \in X /\ g[s] = F[<<a, x>>]
        BY <3>1, <3>3, <4>1 DEF FoldStep
      <4>3. g[s] = Op(a, q[x])
        BY <1>2, <1>5, <4>2
      <4> QED BY <3>3, <4>1, <4>3
    <3> QED BY <3>2, <3>3
  <2>2. g = [s \in SUBSET (1 .. n) |-> g[s]]
    OBVIOUS
  <2> HIDE DEF B
  <2>3. g = [s \in SUBSET (1 .. n) |-> B(s)]
    BY <2>1, <2>2
  <2> QED BY <1>2, <2>3 DEF B
<1>8. IsIter(iter)
  <2> HIDE DEF IsIter
  <2> QED BY <1>7
<1> HIDE DEF iter
<1>9. \A s \in SUBSET (1 .. n) :
        iter[s] = IF s = {} THEN base ELSE Op(iter[s \ {Max(s)}], q[Max(s)])
  BY <1>2, <1>8
<1> HIDE DEF IsIter
<1>10. iter[{}] = base
  BY <1>9
<1>11. ASSUME NEW k \in 1 .. n PROVE iter[1 .. k] = Op(iter[1 .. k - 1], k)
  <2>1. 1 .. k \in SUBSET (1 .. n) /\ 1 .. k # {}
    BY <1>2, Initial
  <2>2. Max(1 .. k) = k /\ (1 .. k) \ {Max(1 .. k)} = 1 .. k - 1
    BY <1>2, MaxInterval
  <2> QED BY <1>2, <1>9, <2>1, <2>2
<1> DEFINE h == [k \in 0 .. n |-> iter[1 .. k]]
<1>12. h \in [0 .. n -> X]
  <2>1. iter[{}] \in X
    BY <1>3, <1>10
  <2>2. \A k \in 1 .. n : iter[1 .. k - 1] \in X => iter[1 .. k] \in X
    BY <1>3, <1>11
  <2> QED BY <1>2, <2>1, <2>2, FoldMembers
<1>13. h[0] = base /\ h[n] = iter[DOMAIN q] /\ \A k \in 1 .. n : h[k] = Op(h[k - 1], k)
  <2>1. 1 .. 0 = {} /\ 0 \in 0 .. n /\ n \in 0 .. n
    BY <1>2
  <2>2. \A k \in 1 .. n : k \in 0 .. n /\ k - 1 \in 0 .. n
    BY <1>2
  <2> QED BY <1>2, <1>10, <1>11, <2>1, <2>2
<1> HIDE DEF h
<1> QED BY <1>1, <1>12, <1>13 DEF Op, n, base, MapLoop

\* h has what is known after each page.
UserLoop(m, pgd, r, X, h) ==
  /\ h \in [0 .. r.n -> X]
  /\ h[0] = [m |-> m, ok |-> TRUE] /\ MapUserPages(m, pgd, r) = h[r.n]
  /\ \A k \in 1 .. r.n : h[k] = MapUserStep(pgd, r, h[k - 1], k)

\* What a user mapping has after each page.
LEMMA MapUserSteps ==
  ASSUME NEW r, r.n \in Nat, NEW m, NEW pgd, NEW X, [m |-> m, ok |-> TRUE] \in X,
         \A a \in X, k \in 1 .. r.n : MapUserStep(pgd, r, a, k) \in X
  PROVE  \E h : UserLoop(m, pgd, r, X, h)
<1> DEFINE n == r.n
           base == [m |-> m, ok |-> TRUE]
           q == [k \in 1 .. n |-> k]
           Op(a, k) == MapUserStep(pgd, r, a, k)
           IsIter(g) == g = [s \in SUBSET (DOMAIN q) |->
                               IF s = {} THEN base ELSE Op(g[s \ {Max(s)}], q[Max(s)])]
           iter == CHOOSE g : IsIter(g)
<1>1. MapUserPages(m, pgd, r) = iter[DOMAIN q]
  BY DEF MapUserPages, MapUserStep, FoldLeft, MapThenFoldSet
<1>2. n \in Nat /\ DOMAIN q = 1 .. n /\ \A k \in 1 .. n : q[k] = k
  OBVIOUS
<1>3. base \in X /\ \A a \in X, k \in 1 .. n : Op(a, k) \in X
  OBVIOUS
<1> HIDE DEF n, base, q, Op
<1> DEFINE F == [x \in X \X (1 .. n) |-> Op(x[1], x[2])]
<1>4. F \in [X \X (1 .. n) -> X]
  BY <1>3
<1>5. \A a \in X, k \in 1 .. n : F[<<a, k>>] = Op(a, k)
  OBVIOUS
<1> HIDE DEF F
<1>6. PICK g \in [SUBSET (1 .. n) -> X] : IsFold(base, n, F, g)
  BY <1>2, <1>3, <1>4, FoldExists
<1>7. IsIter(g)
  <2> DEFINE B(s) == IF s = {} THEN base ELSE Op(g[s \ {Max(s)}], q[Max(s)])
  <2>1. \A s \in SUBSET (1 .. n) : g[s] = B(s)
    <3>1. /\ g[{}] = base
          /\ \A s \in SUBSET (1 .. n) : s # {} => FoldStep(n, X, F, g, s)
      BY <1>2, <1>6, FoldValues
    <3> SUFFICES ASSUME NEW s \in SUBSET (1 .. n) PROVE g[s] = B(s)
      OBVIOUS
    <3>2. CASE s = {}
      BY <3>1, <3>2
    <3>3. CASE s # {}
      <4>1. PICK x, a : x = Max(s) /\ a = g[s \ {Max(s)}]
        OBVIOUS
      <4>2. x \in 1 .. n /\ a \in X /\ g[s] = F[<<a, x>>]
        BY <3>1, <3>3, <4>1 DEF FoldStep
      <4>3. g[s] = Op(a, q[x])
        BY <1>2, <1>5, <4>2
      <4> QED BY <3>3, <4>1, <4>3
    <3> QED BY <3>2, <3>3
  <2>2. g = [s \in SUBSET (1 .. n) |-> g[s]]
    OBVIOUS
  <2> HIDE DEF B
  <2>3. g = [s \in SUBSET (1 .. n) |-> B(s)]
    BY <2>1, <2>2
  <2> QED BY <1>2, <2>3 DEF B
<1>8. IsIter(iter)
  <2> HIDE DEF IsIter
  <2> QED BY <1>7
<1> HIDE DEF iter
<1>9. \A s \in SUBSET (1 .. n) :
        iter[s] = IF s = {} THEN base ELSE Op(iter[s \ {Max(s)}], q[Max(s)])
  BY <1>2, <1>8
<1> HIDE DEF IsIter
<1>10. iter[{}] = base
  BY <1>9
<1>11. ASSUME NEW k \in 1 .. n PROVE iter[1 .. k] = Op(iter[1 .. k - 1], k)
  <2>1. 1 .. k \in SUBSET (1 .. n) /\ 1 .. k # {}
    BY <1>2, Initial
  <2>2. Max(1 .. k) = k /\ (1 .. k) \ {Max(1 .. k)} = 1 .. k - 1
    BY <1>2, MaxInterval
  <2> QED BY <1>2, <1>9, <2>1, <2>2
<1> DEFINE h == [k \in 0 .. n |-> iter[1 .. k]]
<1>12. h \in [0 .. n -> X]
  <2>1. iter[{}] \in X
    BY <1>3, <1>10
  <2>2. \A k \in 1 .. n : iter[1 .. k - 1] \in X => iter[1 .. k] \in X
    BY <1>3, <1>11
  <2> QED BY <1>2, <2>1, <2>2, FoldMembers
<1>13. h[0] = base /\ h[n] = iter[DOMAIN q] /\ \A k \in 1 .. n : h[k] = Op(h[k - 1], k)
  <2>1. 1 .. 0 = {} /\ 0 \in 0 .. n /\ n \in 0 .. n
    BY <1>2
  <2>2. \A k \in 1 .. n : k \in 0 .. n /\ k - 1 \in 0 .. n
    BY <1>2
  <2> QED BY <1>2, <1>10, <1>11, <2>1, <2>2
<1> HIDE DEF h
<1> QED BY <1>1, <1>12, <1>13 DEF Op, n, base, UserLoop

\* What exec has after each page of a segment.
LEMMA MapProgramSteps ==
  ASSUME NEW r, r.n \in Nat, NEW m, NEW X, [m |-> m, ok |-> TRUE, lost |-> FALSE] \in X,
         \A a \in X, k \in 1 .. r.n : MapProgramStep(r, a, k) \in X
  PROVE  \E h \in [0 .. r.n -> X] :
           /\ h[0] = [m |-> m, ok |-> TRUE, lost |-> FALSE] /\ MapProgram(m, r) = h[r.n]
           /\ \A k \in 1 .. r.n : h[k] = MapProgramStep(r, h[k - 1], k)
<1> DEFINE n == r.n
           base == [m |-> m, ok |-> TRUE, lost |-> FALSE]
           q == [k \in 1 .. n |-> k]
           Op(a, k) == MapProgramStep(r, a, k)
           IsIter(g) == g = [s \in SUBSET (DOMAIN q) |->
                               IF s = {} THEN base ELSE Op(g[s \ {Max(s)}], q[Max(s)])]
           iter == CHOOSE g : IsIter(g)
<1>1. MapProgram(m, r) = iter[DOMAIN q]
  BY DEF MapProgram, MapProgramStep, FoldLeft, MapThenFoldSet
<1>2. n \in Nat /\ DOMAIN q = 1 .. n /\ \A k \in 1 .. n : q[k] = k
  OBVIOUS
<1>3. base \in X /\ \A a \in X, k \in 1 .. n : Op(a, k) \in X
  OBVIOUS
<1> HIDE DEF n, base, q, Op
<1> DEFINE F == [x \in X \X (1 .. n) |-> Op(x[1], x[2])]
<1>4. F \in [X \X (1 .. n) -> X]
  BY <1>3
<1>5. \A a \in X, k \in 1 .. n : F[<<a, k>>] = Op(a, k)
  OBVIOUS
<1> HIDE DEF F
<1>6. PICK g \in [SUBSET (1 .. n) -> X] : IsFold(base, n, F, g)
  BY <1>2, <1>3, <1>4, FoldExists
<1>7. IsIter(g)
  <2> DEFINE B(s) == IF s = {} THEN base ELSE Op(g[s \ {Max(s)}], q[Max(s)])
  <2>1. \A s \in SUBSET (1 .. n) : g[s] = B(s)
    <3>1. /\ g[{}] = base
          /\ \A s \in SUBSET (1 .. n) : s # {} => FoldStep(n, X, F, g, s)
      BY <1>2, <1>6, FoldValues
    <3> SUFFICES ASSUME NEW s \in SUBSET (1 .. n) PROVE g[s] = B(s)
      OBVIOUS
    <3>2. CASE s = {}
      BY <3>1, <3>2
    <3>3. CASE s # {}
      <4>1. PICK x, a : x = Max(s) /\ a = g[s \ {Max(s)}]
        OBVIOUS
      <4>2. x \in 1 .. n /\ a \in X /\ g[s] = F[<<a, x>>]
        BY <3>1, <3>3, <4>1 DEF FoldStep
      <4>3. g[s] = Op(a, q[x])
        BY <1>2, <1>5, <4>2
      <4> QED BY <3>3, <4>1, <4>3
    <3> QED BY <3>2, <3>3
  <2>2. g = [s \in SUBSET (1 .. n) |-> g[s]]
    OBVIOUS
  <2> HIDE DEF B
  <2>3. g = [s \in SUBSET (1 .. n) |-> B(s)]
    BY <2>1, <2>2
  <2> QED BY <1>2, <2>3 DEF B
<1>8. IsIter(iter)
  <2> HIDE DEF IsIter
  <2> QED BY <1>7
<1> HIDE DEF iter
<1>9. \A s \in SUBSET (1 .. n) :
        iter[s] = IF s = {} THEN base ELSE Op(iter[s \ {Max(s)}], q[Max(s)])
  BY <1>2, <1>8
<1> HIDE DEF IsIter
<1>10. iter[{}] = base
  BY <1>9
<1>11. ASSUME NEW k \in 1 .. n PROVE iter[1 .. k] = Op(iter[1 .. k - 1], k)
  <2>1. 1 .. k \in SUBSET (1 .. n) /\ 1 .. k # {}
    BY <1>2, Initial
  <2>2. Max(1 .. k) = k /\ (1 .. k) \ {Max(1 .. k)} = 1 .. k - 1
    BY <1>2, MaxInterval
  <2> QED BY <1>2, <1>9, <2>1, <2>2
<1> DEFINE h == [k \in 0 .. n |-> iter[1 .. k]]
<1>12. h \in [0 .. n -> X]
  <2>1. iter[{}] \in X
    BY <1>3, <1>10
  <2>2. \A k \in 1 .. n : iter[1 .. k - 1] \in X => iter[1 .. k] \in X
    BY <1>3, <1>11
  <2> QED BY <1>2, <2>1, <2>2, FoldMembers
<1>13. h[0] = base /\ h[n] = iter[DOMAIN q] /\ \A k \in 1 .. n : h[k] = Op(h[k - 1], k)
  <2>1. 1 .. 0 = {} /\ 0 \in 0 .. n /\ n \in 0 .. n
    BY <1>2
  <2>2. \A k \in 1 .. n : k \in 0 .. n /\ k - 1 \in 0 .. n
    BY <1>2
  <2> QED BY <1>2, <1>10, <1>11, <2>1, <2>2
<1> HIDE DEF h
<1> QED BY <1>1, <1>12, <1>13 DEF Op, n, base

\* What exec has after each page of the stack.
LEMMA MapStackSteps ==
  ASSUME NEW m, NEW X, [m |-> m, lost |-> FALSE] \in X,
         \A a \in X, k \in 1 .. Stack.n : MapStackStep(a, k) \in X
  PROVE  \E h \in [0 .. Stack.n -> X] :
           /\ h[0] = [m |-> m, lost |-> FALSE] /\ MapStack(m) = h[Stack.n]
           /\ \A k \in 1 .. Stack.n : h[k] = MapStackStep(h[k - 1], k)
<1> DEFINE n == Stack.n
           base == [m |-> m, lost |-> FALSE]
           q == [k \in 1 .. n |-> k]
           Op(a, k) == MapStackStep(a, k)
           IsIter(g) == g = [s \in SUBSET (DOMAIN q) |->
                               IF s = {} THEN base ELSE Op(g[s \ {Max(s)}], q[Max(s)])]
           iter == CHOOSE g : IsIter(g)
<1>1. MapStack(m) = iter[DOMAIN q]
  BY DEF MapStack, MapStackStep, FoldLeft, MapThenFoldSet
<1>2. n \in Nat /\ DOMAIN q = 1 .. n /\ \A k \in 1 .. n : q[k] = k
  BY VmAssumption
<1>3. base \in X /\ \A a \in X, k \in 1 .. n : Op(a, k) \in X
  OBVIOUS
<1> HIDE DEF n, base, q, Op
<1> DEFINE F == [x \in X \X (1 .. n) |-> Op(x[1], x[2])]
<1>4. F \in [X \X (1 .. n) -> X]
  BY <1>3
<1>5. \A a \in X, k \in 1 .. n : F[<<a, k>>] = Op(a, k)
  OBVIOUS
<1> HIDE DEF F
<1>6. PICK g \in [SUBSET (1 .. n) -> X] : IsFold(base, n, F, g)
  BY <1>2, <1>3, <1>4, FoldExists
<1>7. IsIter(g)
  <2> DEFINE B(s) == IF s = {} THEN base ELSE Op(g[s \ {Max(s)}], q[Max(s)])
  <2>1. \A s \in SUBSET (1 .. n) : g[s] = B(s)
    <3>1. /\ g[{}] = base
          /\ \A s \in SUBSET (1 .. n) : s # {} => FoldStep(n, X, F, g, s)
      BY <1>2, <1>6, FoldValues
    <3> SUFFICES ASSUME NEW s \in SUBSET (1 .. n) PROVE g[s] = B(s)
      OBVIOUS
    <3>2. CASE s = {}
      BY <3>1, <3>2
    <3>3. CASE s # {}
      <4>1. PICK x, a : x = Max(s) /\ a = g[s \ {Max(s)}]
        OBVIOUS
      <4>2. x \in 1 .. n /\ a \in X /\ g[s] = F[<<a, x>>]
        BY <3>1, <3>3, <4>1 DEF FoldStep
      <4>3. g[s] = Op(a, q[x])
        BY <1>2, <1>5, <4>2
      <4> QED BY <3>3, <4>1, <4>3
    <3> QED BY <3>2, <3>3
  <2>2. g = [s \in SUBSET (1 .. n) |-> g[s]]
    OBVIOUS
  <2> HIDE DEF B
  <2>3. g = [s \in SUBSET (1 .. n) |-> B(s)]
    BY <2>1, <2>2
  <2> QED BY <1>2, <2>3 DEF B
<1>8. IsIter(iter)
  <2> HIDE DEF IsIter
  <2> QED BY <1>7
<1> HIDE DEF iter
<1>9. \A s \in SUBSET (1 .. n) :
        iter[s] = IF s = {} THEN base ELSE Op(iter[s \ {Max(s)}], q[Max(s)])
  BY <1>2, <1>8
<1> HIDE DEF IsIter
<1>10. iter[{}] = base
  BY <1>9
<1>11. ASSUME NEW k \in 1 .. n PROVE iter[1 .. k] = Op(iter[1 .. k - 1], k)
  <2>1. 1 .. k \in SUBSET (1 .. n) /\ 1 .. k # {}
    BY <1>2, Initial
  <2>2. Max(1 .. k) = k /\ (1 .. k) \ {Max(1 .. k)} = 1 .. k - 1
    BY <1>2, MaxInterval
  <2> QED BY <1>2, <1>9, <2>1, <2>2
<1> DEFINE h == [k \in 0 .. n |-> iter[1 .. k]]
<1>12. h \in [0 .. n -> X]
  <2>1. iter[{}] \in X
    BY <1>3, <1>10
  <2>2. \A k \in 1 .. n : iter[1 .. k - 1] \in X => iter[1 .. k] \in X
    BY <1>3, <1>11
  <2> QED BY <1>2, <2>1, <2>2, FoldMembers
<1>13. h[0] = base /\ h[n] = iter[DOMAIN q] /\ \A k \in 1 .. n : h[k] = Op(h[k - 1], k)
  <2>1. 1 .. 0 = {} /\ 0 \in 0 .. n /\ n \in 0 .. n
    BY <1>2
  <2>2. \A k \in 1 .. n : k \in 0 .. n /\ k - 1 \in 0 .. n
    BY <1>2
  <2> QED BY <1>2, <1>10, <1>11, <2>1, <2>2
<1> HIDE DEF h
<1> QED BY <1>1, <1>12, <1>13 DEF Op, n, base

-----------------------------------------------------------------------------
(* The walk.                                                               *)

\* n has the tables of m and perhaps more, and maps what m maps.
Grown(m, n, R, H, lv, lw) ==
  /\ Good(n, R, H, lw) /\ LostIn(n, R, H, lw) = LostIn(m, R, H, lv)
  /\ \A r \in R, v \in Nat : Leaf(n, r, v) = Leaf(m, r, v)
  /\ \A t \in Tables : lv[t] <= 3 => lw[t] = lv[t]
  /\ \A t \in Tables, i \in Index :
       lv[t] <= 3 /\ m.tab[t][i] # Nothing => n.tab[t][i] = m.tab[t][i]

\* Nothing is added.
LEMMA GrownSelf ==
  ASSUME NEW m, NEW R, NEW H, NEW lv, Good(m, R, H, lv)
  PROVE  Grown(m, m, R, H, lv, lv)
BY DEF Grown

\* Growing twice is growing.
LEMMA GrownTwice ==
  ASSUME NEW m, NEW n, NEW o, NEW R, NEW H, NEW lv, NEW lw, NEW lx,
         Grown(m, n, R, H, lv, lw), Grown(n, o, R, H, lw, lx)
  PROVE  Grown(m, o, R, H, lv, lx)
<1>1. /\ Good(o, R, H, lx) /\ LostIn(o, R, H, lx) = LostIn(m, R, H, lv)
      /\ \A r \in R, v \in Nat : Leaf(o, r, v) = Leaf(m, r, v)
      /\ \A t \in Tables : lv[t] <= 3 => lx[t] = lv[t]
  BY DEF Grown
<1>2. ASSUME NEW t \in Tables, NEW i \in Index, lv[t] <= 3, m.tab[t][i] # Nothing
      PROVE  o.tab[t][i] = m.tab[t][i]
  <2>1. lw[t] <= 3 /\ n.tab[t][i] = m.tab[t][i]
    BY <1>2 DEF Grown
  <2>2. o.tab[t][i] = n.tab[t][i]
    BY <1>2, <2>1 DEF Grown
  <2> QED BY <2>1, <2>2
<1> QED BY <1>1, <1>2 DEF Grown

\* Descend from the table t, and what it reaches.
LEMMA DescendStep ==
  ASSUME NEW m, NEW R, NEW H, NEW lv, Good(m, R, H, lv),
         NEW v \in Nat, pte_index(v, 0) \in Lower, NEW l \in 0 .. 2,
         NEW t \in Tables, lv[t] = l, NEW al \in BOOLEAN,
         NEW x, x = Descend([m |-> m, table |-> t], v, l, al)
  PROVE  /\ x = [m |-> x.m, table |-> x.table]
         /\ \E lw : /\ Grown(m, x.m, R, H, lv, lw)
                    /\ \/ x.table = NoPage
                       \/ /\ x.table \in Tables /\ lw[x.table] = l + 1
                          /\ x.m.tab[t][pte_index(v, l)] = TableEntry(x.table)
         /\ ~al => x.m = m /\ x.table = Child(m, t, v, l)
<1>1. PICK i, e : i = pte_index(v, l) /\ e = m.tab[t][i]
  OBVIOUS
<1>2. PICK new : new = alloc_page_table(m)
  OBVIOUS
<1>3. i \in Index /\ (l = 0 => i \in Lower) /\ t # NoPage
  BY <1>1, IndexOf, TableNumbers
<1>4. e \in Entry /\ GoodEntry(m, H, lv, t, e)
  BY <1>1, <1>3 DEF Good, Memory
<1>5. x = IF e.kind = "table" THEN [m |-> m, table |-> e.to]
          ELSE IF e.kind = "none" /\ al
          THEN IF new.page = NoPage THEN [m |-> m, table |-> NoPage]
               ELSE [m |-> [new.m EXCEPT !.tab[t][i] = TableEntry(new.page)],
                     table |-> new.page]
          ELSE [m |-> m, table |-> NoPage]
  <2>1. x = Descend([m |-> m, table |-> t], v, l, al)
    OBVIOUS
  <2> QED BY <1>1, <1>2, <1>3, <2>1 DEF Descend
<1>6. Child(m, t, v, l) = IF e.kind = "table" THEN e.to ELSE NoPage
  BY <1>1, <1>3 DEF Child
<1>7. Grown(m, m, R, H, lv, lv)
  BY GrownSelf
<1>8. CASE e.kind = "table"
  <2>1. x = [m |-> m, table |-> e.to]
    BY <1>5, <1>8
  <2>2. e.to \in Tables /\ lv[e.to] = l + 1 /\ e = TableEntry(e.to)
    BY <1>4, <1>8, NothingIsNone DEF GoodEntry, Entry, TableEntry
  <2> QED BY <1>1, <1>6, <1>7, <1>8, <2>1, <2>2
<1>9. CASE e.kind # "table" /\ ~ (e.kind = "none" /\ al)
  <2>1. x = [m |-> m, table |-> NoPage]
    BY <1>5, <1>9
  <2> QED BY <1>6, <1>7, <1>9, <2>1
<1>10. CASE e.kind = "none" /\ al /\ new.page = NoPage
  <2>1. x = [m |-> m, table |-> NoPage]
    BY <1>5, <1>10
  <2>2. x.m = m /\ x.table = NoPage /\ x = [m |-> x.m, table |-> x.table]
    BY <2>1
  <2> QED BY <1>7, <1>10, <2>2, Zenon
<1>11. CASE e.kind = "none" /\ al /\ new.page # NoPage
  <2>1. PICK k, q : k = new.m /\ q = new.page
    OBVIOUS
  <2>2. NewTable(m, k, R, H, lv, q)
    BY <1>2, <1>11, <2>1, AllocPageTable
  <2>3. PICK n : n = [k EXCEPT !.tab[t][i] = TableEntry(q)]
    OBVIOUS
  <2>4. x = [m |-> n, table |-> q]
    BY <1>5, <1>11, <2>1, <2>3
  <2>5. /\ q \in Tables /\ q \notin H /\ lv[q] = 4 /\ k.tab[q] = Empty
        /\ \A u \in Tables \ {q} : k.tab[u] = m.tab[u]
        /\ Good(k, R, H \cup {q}, lv)
        /\ LostIn(k, R, H \cup {q}, lv) = LostIn(m, R, H, lv)
    BY <2>2 DEF NewTable
  <2>6. e = Nothing /\ lv \in [Tables -> 0 .. 4]
    BY <1>4, <1>11 DEF GoodEntry, Good
  <2>7. t # q /\ k.tab[t][i] = Nothing /\ \A u \in Tables : lv[u] <= 3 => k.tab[u] = m.tab[u]
    <3>1. lv[t] <= 3 /\ \A u \in Tables : lv[u] <= 3 => u # q
      BY <2>5
    <3> QED BY <1>1, <2>5, <2>6, <3>1
  <2>8. EntrySet(k, n, t, i, TableEntry(q))
    <3>1. TableEntry(q) \in Entry /\ k \in Memory
      BY <2>5, TableNumbers DEF TableEntry, Entry, Good
    <3>2. PICK ee : ee = TableEntry(q)
      OBVIOUS
    <3>3. ee \in Entry /\ n = Stored(k, t, i, ee)
      BY <2>3, <3>1, <3>2 DEF Stored
    <3>4. EntrySet(k, n, t, i, ee)
      BY <1>3, <3>1, <3>3, SetEntry
    <3> QED BY <3>2, <3>4
  <2>9. PICK lw : lw = Deeper(lv, t, q)
    OBVIOUS
  <2>10. lv[t] <= 2 /\ (lv[t] = 0 => i \in Lower)
    BY <1>3
  <2>11. Good(n, R, H, lw) /\ LostIn(n, R, H, lw) = LostIn(k, R, H \cup {q}, lv)
    <3>1. q \in Tables \ H
      BY <2>5
    <3>2. k.tab[q] = Empty /\ Good(k, R, H \cup {q}, lv) /\ k.tab[t][i] = Nothing
      BY <2>5, <2>7
    <3> QED BY <1>3, <2>8, <2>9, <2>10, <3>1, <3>2, Link
  <2>12. ASSUME NEW r \in R, NEW u \in Nat PROVE Leaf(n, r, u) = Leaf(m, r, u)
    <3>1. Leaf(k, r, u) = Leaf(m, r, u)
      BY <2>7, SameLeaf
    <3>2. Leaf(n, r, u) = Leaf(k, r, u)
      BY <1>3, <2>5, <2>7, <2>8, <2>10, LinkLeaf
    <3> QED BY <3>1, <3>2
  <2>13. ASSUME NEW u \in Tables, NEW j \in Index, lv[u] <= 3, m.tab[u][j] # Nothing
         PROVE  n.tab[u][j] = m.tab[u][j]
    <3>1. k.tab[u][j] = m.tab[u][j]
      BY <2>7, <2>13
    <3>2. ~ (u = t /\ j = i)
      BY <2>7, <2>13, <3>1
    <3> QED BY <2>8, <3>1, <3>2 DEF EntrySet
  <2>14. lw[q] = l + 1 /\ \A u \in Tables : lv[u] <= 3 => lw[u] = lv[u]
    BY <1>3, <2>5, <2>6, <2>9 DEF Deeper
  <2>15. n.tab[t][i] = TableEntry(q)
    BY <1>3, <2>8 DEF EntrySet
  <2>16. Grown(m, n, R, H, lv, lw)
    BY <2>5, <2>11, <2>12, <2>13, <2>14 DEF Grown
  <2>17. x.m = n /\ x.table = q /\ x = [m |-> x.m, table |-> x.table]
    BY <2>4
  <2>18. /\ Grown(m, x.m, R, H, lv, lw)
         /\ x.table \in Tables /\ lw[x.table] = l + 1
         /\ x.m.tab[t][pte_index(v, l)] = TableEntry(x.table)
    BY <1>1, <2>5, <2>14, <2>15, <2>16, <2>17
  <2> QED BY <1>11, <2>17, <2>18, Zenon
<1> QED BY <1>8, <1>9, <1>10, <1>11

\* A walk that has failed stays where it is.
LEMMA DescendNone ==
  ASSUME NEW m, NEW v, NEW l, NEW al
  PROVE  Descend([m |-> m, table |-> NoPage], v, l, al) = [m |-> m, table |-> NoPage]
BY DEF Descend

\* The walk goes down three levels.
LEMMA WalkLevels ==
  ASSUME NEW m, NEW r, NEW v, NEW al
  PROVE  walk_page_table(m, r, v, al)
           = Descend(Descend(Descend([m |-> m, table |-> r], v, 0, al), v, 1, al), v, 2, al)
<1> DEFINE q == <<0, 1, 2>>
           base == [m |-> m, table |-> r]
           Op(w, k) == Descend(w, v, k, al)
           IsIter(g) == g = [s \in SUBSET (DOMAIN q) |->
                               IF s = {} THEN base ELSE Op(g[s \ {Max(s)}], q[Max(s)])]
           iter == CHOOSE g : IsIter(g)
<1>1. walk_page_table(m, r, v, al) = iter[DOMAIN q]
  BY DEF walk_page_table, FoldLeft, MapThenFoldSet
<1>2. DOMAIN q = 1 .. 3 /\ q[1] = 0 /\ q[2] = 1 /\ q[3] = 2
  OBVIOUS
<1> HIDE DEF q, base, Op
<1> DEFINE A(s) == IF 1 \in s THEN Op(base, 0) ELSE base
           B(s) == IF 2 \in s THEN Op(A(s), 1) ELSE A(s)
           C(s) == IF 3 \in s THEN Op(B(s), 2) ELSE B(s)
           g == [s \in SUBSET (1 .. 3) |-> C(s)]
           N(s) == IF s = {} THEN base ELSE Op(g[s \ {Max(s)}], q[Max(s)])
<1>3. ASSUME NEW s \in SUBSET (1 .. 3) PROVE C(s) = N(s)
  <2>1. CASE s = {}
    BY <2>1
  <2>2. CASE s # {}
    <3>1. Max(s) \in s /\ \A x \in s : x <= Max(s)
      BY <2>2, MaxIn
    <3>2. PICK x : x = Max(s)
      OBVIOUS
    <3>3. s \ {x} \in SUBSET (1 .. 3) /\ g[s \ {x}] = C(s \ {x})
      OBVIOUS
    <3>4. CASE x = 3
      <4>1. 3 \in s /\ C(s \ {x}) = B(s)
        BY <3>1, <3>2, <3>4
      <4> QED BY <1>2, <2>2, <3>2, <3>3, <3>4, <4>1
    <3>5. CASE x = 2
      <4>1. 3 \notin s /\ 2 \in s /\ C(s \ {x}) = A(s)
        BY <3>1, <3>2, <3>5
      <4> QED BY <1>2, <2>2, <3>2, <3>3, <3>5, <4>1
    <3>6. CASE x = 1
      <4>1. 3 \notin s /\ 2 \notin s /\ 1 \in s /\ C(s \ {x}) = base
        BY <3>1, <3>2, <3>6
      <4> QED BY <1>2, <2>2, <3>2, <3>3, <3>6, <4>1
    <3>7. x = 1 \/ x = 2 \/ x = 3
      <4>1. x \in 1 .. 3
        BY <3>1, <3>2
      <4> QED BY <4>1
    <3> QED BY <3>4, <3>5, <3>6, <3>7
  <2> QED BY <2>1, <2>2
<1>4. IsIter(g)
  <2>1. g = [s \in SUBSET (1 .. 3) |-> N(s)]
    BY <1>3
  <2> HIDE DEF g
  <2> QED BY <1>2, <2>1 DEF N
<1> HIDE DEF A, B, C, g, N
<1>5. IsIter(iter)
  <2> HIDE DEF IsIter
  <2> QED BY <1>4
<1> HIDE DEF iter
<1>6. \A s \in SUBSET (1 .. 3) :
        iter[s] = IF s = {} THEN base ELSE Op(iter[s \ {Max(s)}], q[Max(s)])
  BY <1>2, <1>5
<1> HIDE DEF IsIter
<1>7. iter[{}] = base /\ 1 .. 0 = {}
  BY <1>6
<1>8. ASSUME NEW k \in 1 .. 3 PROVE iter[1 .. k] = Op(iter[1 .. k - 1], q[k])
  <2>1. 1 .. k \in SUBSET (1 .. 3) /\ 1 .. k # {}
    BY Initial
  <2>2. Max(1 .. k) = k /\ (1 .. k) \ {Max(1 .. k)} = 1 .. k - 1
    BY MaxInterval
  <2> QED BY <1>6, <2>1, <2>2
<1>9. iter[1 .. 1] = Op(base, 0)
  BY <1>2, <1>7, <1>8
<1>10. iter[1 .. 2] = Op(Op(base, 0), 1)
  <2>1. iter[1 .. 2] = Op(iter[1 .. 2 - 1], q[2])
    BY <1>8
  <2> QED BY <1>2, <1>9, <2>1
<1>11. iter[1 .. 3] = Op(Op(Op(base, 0), 1), 2)
  <2>1. iter[1 .. 3] = Op(iter[1 .. 3 - 1], q[3])
    BY <1>8
  <2> QED BY <1>2, <1>10, <2>1
<1> QED BY <1>1, <1>2, <1>11 DEF Op, base

\* The walk finds or makes the last table of v, or fails.
LEMMA Walk ==
  ASSUME NEW m, NEW R, NEW H, NEW lv, Good(m, R, H, lv), NEW r \in R,
         NEW v \in Nat, pte_index(v, 0) \in Lower, NEW al \in BOOLEAN,
         NEW w, w = walk_page_table(m, r, v, al)
  PROVE  /\ w = [m |-> w.m, table |-> w.table]
         /\ \E lw : Grown(m, w.m, R, H, lv, lw)
         /\ w.table = NoPage \/ w.table = Node3(w.m, r, v)
         /\ ~al => w.m = m /\ w.table = Node3(m, r, v)
<1>1. PICK x1 : x1 = Descend([m |-> m, table |-> r], v, 0, al)
  OBVIOUS
<1>2. PICK x2 : x2 = Descend(x1, v, 1, al)
  OBVIOUS
<1>3. w = Descend(x2, v, 2, al)
  BY <1>1, <1>2, WalkLevels
<1>4. r \in Tables /\ lv[r] = 0 /\ 0 \in 0 .. 2 /\ 1 \in 0 .. 2 /\ 2 \in 0 .. 2
  BY DEF Good
<1>5. PICK l1 :
        /\ x1 = [m |-> x1.m, table |-> x1.table]
        /\ Grown(m, x1.m, R, H, lv, l1)
        /\ \/ x1.table = NoPage
           \/ /\ x1.table \in Tables /\ l1[x1.table] = 0 + 1
              /\ x1.m.tab[r][pte_index(v, 0)] = TableEntry(x1.table)
        /\ ~al => x1.m = m /\ x1.table = Child(m, r, v, 0)
  BY <1>1, <1>4, DescendStep
<1>6. Good(x1.m, R, H, l1)
  BY <1>5 DEF Grown
<1>7. CASE x1.table = NoPage
  <2>1. x1 = [m |-> x1.m, table |-> NoPage]
    BY <1>5, <1>7
  <2>2. x2 = x1 /\ w = x1
    BY <1>2, <1>3, <2>1, DescendNone
  <2>3. ~al => Node3(m, r, v) = NoPage
    BY <1>5, <1>7 DEF Node1, Node2, Node3, Child
  <2> QED BY <1>5, <1>7, <2>2, <2>3
<1>8. CASE x1.table # NoPage
  <2>1. x1.table \in Tables /\ l1[x1.table] = 1
        /\ x1.m.tab[r][pte_index(v, 0)] = TableEntry(x1.table)
    BY <1>5, <1>8
  <2>2. PICK l2 :
          /\ x2 = [m |-> x2.m, table |-> x2.table]
          /\ Grown(x1.m, x2.m, R, H, l1, l2)
          /\ \/ x2.table = NoPage
             \/ /\ x2.table \in Tables /\ l2[x2.table] = 1 + 1
                /\ x2.m.tab[x1.table][pte_index(v, 1)] = TableEntry(x2.table)
          /\ ~al => x2.m = x1.m /\ x2.table = Child(x1.m, x1.table, v, 1)
    <3>1. PICK k, t : k = x1.m /\ t = x1.table
      OBVIOUS
    <3>2. x2 = Descend([m |-> k, table |-> t], v, 1, al)
      BY <1>2, <1>5, <3>1
    <3>3. Good(k, R, H, l1) /\ t \in Tables /\ l1[t] = 1
      BY <1>6, <2>1, <3>1
    <3> QED BY <1>4, <3>1, <3>2, <3>3, DescendStep
  <2>3. Good(x2.m, R, H, l2) /\ Grown(m, x2.m, R, H, lv, l2)
    BY <1>5, <2>2, GrownTwice DEF Grown
  <2>4. CASE x2.table = NoPage
    <3>1. x2 = [m |-> x2.m, table |-> NoPage]
      BY <2>2, <2>4
    <3>2. w = x2
      BY <1>3, <3>1, DescendNone
    <3>3. ~al => Node3(m, r, v) = NoPage
      BY <1>5, <2>2, <2>4 DEF Node1, Node2, Node3, Child
    <3>4. ~al => w.m = m
      BY <1>5, <2>2, <3>2
    <3> QED BY <2>2, <2>3, <2>4, <3>2, <3>3, <3>4
  <2>5. CASE x2.table # NoPage
    <3>1. x2.table \in Tables /\ l2[x2.table] = 2
          /\ x2.m.tab[x1.table][pte_index(v, 1)] = TableEntry(x2.table)
      BY <2>2, <2>5
    <3>2. PICK l3 :
            /\ w = [m |-> w.m, table |-> w.table]
            /\ Grown(x2.m, w.m, R, H, l2, l3)
            /\ \/ w.table = NoPage
               \/ /\ w.table \in Tables /\ l3[w.table] = 2 + 1
                  /\ w.m.tab[x2.table][pte_index(v, 2)] = TableEntry(w.table)
            /\ ~al => w.m = x2.m /\ w.table = Child(x2.m, x2.table, v, 2)
      <4>1. PICK k, t : k = x2.m /\ t = x2.table
        OBVIOUS
      <4>2. w = Descend([m |-> k, table |-> t], v, 2, al)
        BY <1>3, <2>2, <4>1
      <4>3. Good(k, R, H, l2) /\ t \in Tables /\ l2[t] = 2
        BY <2>3, <3>1, <4>1
      <4> QED BY <1>4, <4>1, <4>2, <4>3, DescendStep
    <3>3. Grown(m, w.m, R, H, lv, l3)
      BY <2>3, <3>2, GrownTwice
    <3>4. ~al => w.m = m /\ w.table = Node3(m, r, v)
      BY <1>5, <2>2, <3>2 DEF Node1, Node2, Node3
    <3>5. w.table # NoPage => w.table = Node3(w.m, r, v)
      <4> SUFFICES ASSUME w.table # NoPage PROVE w.table = Node3(w.m, r, v)
        OBVIOUS
      <4>1. \A u \in Nat, l \in 0 .. 3 : pte_index(u, l) \in Index
        BY IndexOf
      <4>2. \A t : TableEntry(t) # Nothing /\ TableEntry(t).kind = "table" /\ TableEntry(t).to = t
        BY DEF TableEntry, Nothing
      <4>3. x2.m.tab[r][pte_index(v, 0)] = TableEntry(x1.table) /\ l2[r] = 0
        <5>1. l1[r] = 0 /\ l1[r] <= 3
          BY <1>4, <1>5 DEF Grown
        <5> QED BY <1>4, <2>1, <2>2, <4>1, <4>2, <5>1 DEF Grown
      <4>4. w.m.tab[r][pte_index(v, 0)] = TableEntry(x1.table)
        BY <1>4, <3>2, <4>1, <4>2, <4>3 DEF Grown
      <4>5. l2[x1.table] = 1
        <5>1. l1[x1.table] <= 3
          BY <2>1
        <5> QED BY <2>1, <2>2, <5>1 DEF Grown
      <4>6. w.m.tab[x1.table][pte_index(v, 1)] = TableEntry(x2.table)
        BY <2>1, <3>1, <3>2, <4>1, <4>2, <4>5 DEF Grown
      <4>7. w.m.tab[x2.table][pte_index(v, 2)] = TableEntry(w.table)
        BY <3>2
      <4>8. r # NoPage /\ x1.table # NoPage /\ x2.table # NoPage
        BY <1>4, <1>8, <2>5, TableNumbers
      <4>9. Node1(w.m, r, v) = x1.table
        BY <4>2, <4>4, <4>8 DEF Node1, Child
      <4>10. Node2(w.m, r, v) = x2.table
        BY <4>2, <4>6, <4>8, <4>9 DEF Node2, Child
      <4> QED BY <4>2, <4>7, <4>8, <4>10 DEF Node3, Child
    <3> QED BY <3>2, <3>3, <3>4, <3>5
  <2> QED BY <2>4, <2>5
<1> QED BY <1>7, <1>8

-----------------------------------------------------------------------------
(* The same without levels: they are what the memory says.                 *)

\* The memory is a forest with the roots R beside H, at some levels.
Ok(m, R, H) == \E lv : Good(m, R, H, lv)

\* What live tables refer to.
Refs(m, R) == {q \in Tables : \E t \in LiveIn(m, R), i \in Index : m.tab[t][i].to = q}

\* The used pages that are lost.
LostOf(m, R, H) == m.used \ (R \cup H \cup Refs(m, R))

\* Levels do not matter for what is lost.
LEMMA LostLevels ==
  ASSUME NEW m, NEW R, NEW H, NEW lv, Good(m, R, H, lv)
  PROVE  Refs(m, R) = Referred(m, lv) /\ LostOf(m, R, H) = LostIn(m, R, H, lv)
<1>1. LiveIn(m, R) = {t \in Tables : lv[t] <= 3}
  BY LiveLevels
<1>2. Refs(m, R) = Referred(m, lv)
  BY <1>1 DEF Refs, Referred
<1> QED BY <1>2 DEF LostOf, LostIn

\* The addresses.
Virtual == 0 .. VirtualPages - 1

\* Addresses are numbers.
LEMMA VirtualNat == \A u \in Virtual : u \in Nat
BY Entries, Spans, Product DEF Virtual, VirtualPages

\* Every address of every root of R is mapped as it was.
SameMaps(m, n, R) == \A r \in R, u \in Virtual : Leaf(n, r, u) = Leaf(m, r, u)

\* n maps v of the root s to e, and is m elsewhere.
Maps(m, n, R, s, v, e) ==
  \A r \in R, u \in Virtual : Leaf(n, r, u) = IF r = s /\ u = v THEN e ELSE Leaf(m, r, u)

\* n has everything that m has, and maps the same.
Kept(m, n, R, H) ==
  Ok(n, R, H) /\ LostOf(n, R, H) = LostOf(m, R, H) /\ SameMaps(m, n, R)

\* The walk that allocates changes no mapping and loses no page.
LEMMA GrownKept ==
  ASSUME NEW m, NEW n, NEW R, NEW H, NEW lv, NEW lw, Good(m, R, H, lv),
         Grown(m, n, R, H, lv, lw)
  PROVE  Kept(m, n, R, H)
<1>1. Good(n, R, H, lw) /\ LostIn(n, R, H, lw) = LostIn(m, R, H, lv) /\ SameMaps(m, n, R)
  BY VirtualNat DEF Grown, SameMaps
<1>2. LostOf(n, R, H) = LostIn(n, R, H, lw) /\ LostOf(m, R, H) = LostIn(m, R, H, lv)
  BY <1>1, LostLevels
<1> QED BY <1>1, <1>2 DEF Kept, Ok

\* What an address can be mapped to.
LEMMA LeafKind ==
  ASSUME NEW m, NEW R, NEW H, Ok(m, R, H), NEW r \in R, NEW v \in Nat
  PROVE  /\ Leaf(m, r, v) \in Entry
         /\ Leaf(m, r, v).kind = "none" => Leaf(m, r, v) = Nothing
<1>1. PICK lv : Good(m, R, H, lv)
  BY DEF Ok
<1>2. PICK c : c = Node3(m, r, v)
  OBVIOUS
<1>3. r \in Tables /\ (c = NoPage \/ (c \in Tables /\ lv[c] = 3))
  BY <1>1, <1>2, NodeLevels
<1>4. PICK j : j = pte_index(v, 3) /\ j \in Index
  BY IndexOf
<1>5. Leaf(m, r, v) = IF c = NoPage THEN Nothing ELSE m.tab[c][j]
  BY <1>2, <1>3, <1>4, LeafNode
<1>6. CASE c = NoPage
  BY <1>5, <1>6, NothingIsNone
<1>7. CASE c # NoPage
  <2>1. GoodEntry(m, H, lv, c, m.tab[c][j]) /\ m.tab[c][j] \in Entry
    BY <1>1, <1>3, <1>4, <1>7 DEF Good, Memory
  <2> QED BY <1>5, <1>7, <2>1 DEF GoodEntry
<1> QED BY <1>6, <1>7

\* Memory that is taken from nobody maps the same.
LEMMA TakeKept ==
  ASSUME NEW m, NEW R, NEW H, Ok(m, R, H),
         NEW n \in Memory, NEW B \in SUBSET Tables,
         n.free = Cardinality(Pages \ n.used), n.tab = m.tab,
         InUse(n) = InUse(m) \cup B, B \cap InUse(m) = {}
  PROVE  /\ Ok(n, R, H \cup B) /\ LostOf(n, R, H \cup B) = LostOf(m, R, H)
         /\ SameMaps(m, n, R)
<1>1. PICK lv : Good(m, R, H, lv)
  BY DEF Ok
<1>2. PICK G : G = H \cup B
  OBVIOUS
<1>3. Good(n, R, G, lv) /\ LostIn(n, R, G, lv) = LostIn(m, R, H, lv)
  BY <1>1, <1>2, Take
<1>4. LostOf(n, R, G) = LostIn(n, R, G, lv) /\ LostOf(m, R, H) = LostIn(m, R, H, lv)
  BY <1>1, <1>3, LostLevels
<1>5. SameMaps(m, n, R)
  BY <1>1, SameLeaf, VirtualNat DEF SameMaps
<1> QED BY <1>2, <1>3, <1>4, <1>5 DEF Ok

\* The pages in use are the used ones.
LEMMA UsedInUse ==
  ASSUME NEW m \in Memory
  PROVE  m.used = InUse(m) \cap Pages /\ m.used \subseteq InUse(m)
BY TableNumbers DEF Memory, InUse, Pages

\* What pmm allocates is nobody's: the block a of n pages.
BlockTaken(m, a, R, H, n) ==
  /\ a = [m |-> a.m, page |-> a.page]
  /\ a.page \in Pages /\ Block(a.page, n) \subseteq Pages \ InUse(m)
  /\ Ok(a.m, R, H \cup Block(a.page, n))
  /\ LostOf(a.m, R, H \cup Block(a.page, n)) = LostOf(m, R, H)
  /\ SameMaps(m, a.m, R)

\* pmm_alloc_pages fails, or takes a block that is nobody's.
LEMMA PagesAllocated ==
  ASSUME NEW m, NEW R, NEW H, Ok(m, R, H), NEW n \in Nat \ {0},
         NEW a, a = pmm_alloc_pages(m, n)
  PROVE  a = [m |-> m, page |-> NoPage] \/ BlockTaken(m, a, R, H, n)
<1>1. m \in Memory /\ m.free = Cardinality(Pages \ m.used)
  BY DEF Ok, Good
<1>2. a = [m |-> m, page |-> NoPage] \/ Allocated(m, n, a)
  BY <1>1, AllocBlock
<1> SUFFICES ASSUME a # [m |-> m, page |-> NoPage] PROVE BlockTaken(m, a, R, H, n)
  BY Zenon
<1>3. PICK k, B : k = a.m /\ B = Block(a.page, n)
  OBVIOUS
<1>4. /\ B \subseteq Pages \ m.used /\ k \in Memory /\ k.used = m.used \cup B
      /\ k.free = Cardinality(Pages \ k.used) /\ k.tab = m.tab /\ k.early = m.early
      /\ a = [m |-> a.m, page |-> a.page] /\ a.page \in Pages
  BY <1>2, <1>3 DEF Allocated
<1>5. B \subseteq Pages \ InUse(m) /\ InUse(k) = InUse(m) \cup B
  <2>1. m.used = InUse(m) \cap Pages
    BY <1>1, UsedInUse
  <2> QED BY <1>4, <2>1 DEF InUse
<1>6. B \in SUBSET Tables /\ B \cap InUse(m) = {}
  BY <1>5, TableNumbers
<1>7. Ok(k, R, H \cup B) /\ LostOf(k, R, H \cup B) = LostOf(m, R, H) /\ SameMaps(m, k, R)
  BY <1>4, <1>5, <1>6, TakeKept
<1> QED BY <1>3, <1>4, <1>5, <1>7 DEF BlockTaken

\* What is given back leaves the rest as it was.
LEMMA PagesFreed ==
  ASSUME NEW m, NEW R, NEW H, NEW s \in Nat, NEW n \in Nat \ {0},
         Block(s, n) \subseteq Pages, Ok(m, R, H \cup Block(s, n)), H \cap Block(s, n) = {},
         NEW k, k = pmm_free_pages(m, s, n)
  PROVE  /\ Ok(k, R, H) /\ LostOf(k, R, H) = LostOf(m, R, H \cup Block(s, n))
         /\ SameMaps(m, k, R)
<1>1. PICK B, G : B = Block(s, n) /\ G = H \cup B
  OBVIOUS
<1>2. PICK lv : Good(m, R, G, lv)
  BY <1>1 DEF Ok
<1>3. m \in Memory /\ m.free = Cardinality(Pages \ m.used) /\ G \subseteq InUse(m)
  BY <1>2 DEF Good
<1>4. B \subseteq m.used
  BY <1>1, <1>3, UsedInUse
<1>5. /\ k \in Memory /\ k.used = m.used \ B
      /\ k.free = Cardinality(Pages \ k.used)
      /\ k.tab = m.tab /\ k.early = m.early
  BY <1>1, <1>3, <1>4, FreeBlock
<1>6. Good(k, R, H, lv) /\ LostIn(k, R, H, lv) = LostIn(m, R, G, lv)
  <2>1. B \in SUBSET Pages /\ H \cap B = {} /\ Freed(m, k, B)
    BY <1>1, <1>5 DEF Freed
  <2> QED BY <1>1, <1>2, <2>1, GiveBack
<1>7. LostOf(k, R, H) = LostIn(k, R, H, lv) /\ LostOf(m, R, G) = LostIn(m, R, G, lv)
  BY <1>2, <1>6, LostLevels
<1>8. SameMaps(m, k, R)
  BY <1>2, <1>5, SameLeaf, VirtualNat DEF SameMaps
<1> QED BY <1>1, <1>6, <1>7, <1>8 DEF Ok

\* G is what is taken by others in H and the spare pages S.
Split(G, H, S) == S \in SUBSET Pages /\ H \cap S = {} /\ G = H \cup S

\* A store into the last table of v.
LEMMA StoreKept ==
  ASSUME NEW m, NEW R, NEW H, NEW S, NEW G, Split(G, H, S),
         Ok(m, R, G), NEW s \in R, NEW v \in Virtual,
         NEW t, t = Node3(m, s, v), t # NoPage, NEW e, Storable(S, e),
         NEW n, n = Stored(m, t, pte_index(v, 3), e)
  PROVE  /\ Ok(n, R, H) /\ Maps(m, n, R, s, v, e)
         /\ Leaf(m, s, v) = m.tab[t][pte_index(v, 3)]
         /\ Leaf(m, s, v).to \notin Tables => LostOf(n, R, H) = LostOf(m, R, G)
<1>1. v \in Nat
  BY VirtualNat
<1>2. PICK lv : Good(m, R, G, lv)
  BY DEF Ok
<1>3. PICK i : i = pte_index(v, 3) /\ i \in Index
  BY <1>1, IndexOf
<1>4. t \in Tables /\ lv[t] = 3 /\ s \in Tables /\ m \in Memory /\ e \in Entry
  <2>1. /\ s \in Tables
        /\ Node3(m, s, v) = NoPage \/ (Node3(m, s, v) \in Tables /\ lv[Node3(m, s, v)] = 3)
    BY <1>1, <1>2, NodeLevels
  <2>2. m \in Memory /\ e \in Entry
    BY <1>2 DEF Good, Storable
  <2> QED BY <2>1, <2>2
<1>5. EntrySet(m, n, t, i, e)
  <2>1. n = Stored(m, t, i, e)
    BY <1>3
  <2> QED BY <1>3, <1>4, <2>1, SetEntry
<1>6. Leaf(m, s, v) = m.tab[t][i]
  BY <1>3, <1>4, LeafNode
<1>7. /\ Good(n, R, H, lv)
      /\ m.tab[t][i].to \notin Tables => LostIn(n, R, H, lv) = LostIn(m, R, G, lv)
  <2>1. S \in SUBSET Pages /\ H \cap S = {} /\ G = H \cup S
    BY DEF Split
  <2> QED BY <1>2, <1>3, <1>4, <1>5, <2>1, Store
<1>8. LostOf(n, R, H) = LostIn(n, R, H, lv) /\ LostOf(m, R, G) = LostIn(m, R, G, lv)
  BY <1>2, <1>7, LostLevels
<1>9. ASSUME NEW r \in R, NEW u \in Virtual
      PROVE  Leaf(n, r, u) = IF r = s /\ u = v THEN e ELSE Leaf(m, r, u)
  <2>1. EntrySet(m, n, t, pte_index(v, 3), e)
    BY <1>3, <1>5
  <2>2. u \in Nat
    BY VirtualNat
  <2>3. Leaf(n, r, u) = IF r = s /\ SameAddress(u, v) THEN e ELSE Leaf(m, r, u)
    BY <1>1, <1>2, <2>1, <2>2, StoreLeaf
  <2>4. SameAddress(u, v) <=> u = v
    BY AddressOfDigits DEF Virtual, SameAddress
  <2> QED BY <2>3, <2>4
<1> QED BY <1>3, <1>6, <1>7, <1>8, <1>9 DEF Ok, Maps

\* What a page that is mapped must be: a spare one, then S holds it, or registers.
Mappable(S, p) == (S = {} /\ p \in Nat /\ p > kernel_pgd) \/ (p \in Pages /\ S = {p})

\* A page that may be mapped gives an entry that may be stored.
LEMMA MappableStorable ==
  ASSUME NEW S, NEW p, Mappable(S, p)
  PROVE  S \in SUBSET Pages /\ Storable(S, PageEntry(p)) /\ PageEntry(p).kind = "page"
BY TableNumbers DEF Mappable, Storable, PageEntry, Entry, Pages

\* An entry may always be emptied.
LEMMA StorableNothing == Storable({}, Nothing)
BY NothingIsNone DEF Storable

\* The walk w kept what there was, and ended in the last table of v or nowhere.
Walked(m, w, R, H, r, v) ==
  Kept(m, w.m, R, H) /\ (w.table = NoPage \/ w.table = Node3(w.m, r, v))

\* walk_page_table keeps what there is, and allocates only if it may.
LEMMA WalkKept ==
  ASSUME NEW m, NEW R, NEW H, Ok(m, R, H), NEW r \in R,
         NEW v \in Nat, pte_index(v, 0) \in Lower, NEW al \in BOOLEAN,
         NEW w, w = walk_page_table(m, r, v, al)
  PROVE  /\ Walked(m, w, R, H, r, v)
         /\ ~al => w.m = m /\ w.table = Node3(m, r, v)
<1>1. PICK lv : Good(m, R, H, lv)
  BY DEF Ok
<1>2. /\ \E lw : Grown(m, w.m, R, H, lv, lw)
      /\ w.table = NoPage \/ w.table = Node3(w.m, r, v)
      /\ ~al => w.m = m /\ w.table = Node3(m, r, v)
  BY <1>1, Walk
<1>3. Kept(m, w.m, R, H)
  BY <1>1, <1>2, GrownKept
<1> QED BY <1>2, <1>3 DEF Walked

\* The same of a walk that allocates.
LEMMA WalkMakes ==
  ASSUME NEW m, NEW R, NEW H, Ok(m, R, H), NEW r \in R,
         NEW v \in Nat, pte_index(v, 0) \in Lower,
         NEW w, w = walk_page_table(m, r, v, TRUE)
  PROVE  Walked(m, w, R, H, r, v)
<1>1. PICK al \in BOOLEAN : al = TRUE
  OBVIOUS
<1>2. w = walk_page_table(m, r, v, al)
  BY <1>1
<1> QED BY <1>1, <1>2, WalkKept

\* vmm_map_page maps p where nothing was mapped, or changes nothing.
PageMapped(m, a, R, H, G, v, p) ==
  /\ a = [m |-> a.m, ok |-> a.ok] /\ a.ok \in BOOLEAN
  /\ a.ok => /\ Ok(a.m, R, H) /\ LostOf(a.m, R, H) = LostOf(m, R, G)
             /\ Leaf(m, kernel_pgd, v) = Nothing
             /\ Maps(m, a.m, R, kernel_pgd, v, PageEntry(p))
  /\ ~a.ok => Kept(m, a.m, R, G)

\* vmm_map_page keeps the forest, and fails without effect on the mappings.
LEMMA MapPageKept ==
  ASSUME NEW m, NEW R, NEW H, NEW S, NEW G, Split(G, H, S),
         Ok(m, R, G), kernel_pgd \in R, NEW v \in Virtual, v < USER_VMA_END,
         NEW p, Mappable(S, p), NEW a, a = vmm_map_page(m, v, p)
  PROVE  PageMapped(m, a, R, H, G, v, p)
<1>1. v \in Nat /\ pte_index(v, 0) \in Lower
  BY VirtualNat, LowerHalf
<1>2. PICK w : w = walk_page_table(m, kernel_pgd, v, TRUE)
  OBVIOUS
<1>3. /\ Kept(m, w.m, R, G)
      /\ w.table = NoPage \/ w.table = Node3(w.m, kernel_pgd, v)
  <2>1. Walked(m, w, R, G, kernel_pgd, v)
    BY <1>1, <1>2, WalkMakes
  <2> QED BY <2>1 DEF Walked
<1>4. PICK k, t, i : k = w.m /\ t = w.table /\ i = pte_index(v, 3)
  OBVIOUS
<1>5. a = IF t = NoPage \/ k.tab[t][i].kind # "none" THEN [m |-> k, ok |-> FALSE]
          ELSE [m |-> Stored(k, t, i, PageEntry(p)), ok |-> TRUE]
  BY <1>2, <1>4 DEF vmm_map_page, Stored
<1>6. CASE t = NoPage \/ k.tab[t][i].kind # "none"
  <2>1. a = [m |-> k, ok |-> FALSE]
    BY <1>5, <1>6
  <2> QED BY <1>3, <1>4, <2>1 DEF PageMapped
<1>7. CASE ~ (t = NoPage \/ k.tab[t][i].kind # "none")
  <2>1. PICK n, e : n = Stored(k, t, i, PageEntry(p)) /\ e = PageEntry(p)
    OBVIOUS
  <2>2. a = [m |-> n, ok |-> TRUE]
    BY <1>5, <1>7, <2>1
  <2>3. Ok(k, R, G) /\ LostOf(k, R, G) = LostOf(m, R, G) /\ SameMaps(m, k, R)
    BY <1>3, <1>4 DEF Kept
  <2>4. /\ Ok(n, R, H) /\ Maps(k, n, R, kernel_pgd, v, e)
        /\ Leaf(k, kernel_pgd, v) = k.tab[t][i]
        /\ Leaf(k, kernel_pgd, v).to \notin Tables => LostOf(n, R, H) = LostOf(k, R, G)
    <3>1. Storable(S, e)
      BY <2>1, MappableStorable
    <3>2. t = Node3(k, kernel_pgd, v) /\ t # NoPage
          /\ n = Stored(k, t, pte_index(v, 3), e)
      BY <1>3, <1>4, <1>7, <2>1
    <3> QED BY <1>4, <2>3, <3>1, <3>2, StoreKept
  <2>5. Leaf(k, kernel_pgd, v) = Nothing /\ Leaf(m, kernel_pgd, v) = Nothing
    <3>1. Leaf(k, kernel_pgd, v).kind = "none"
      BY <1>7, <2>4
    <3>2. Leaf(k, kernel_pgd, v) = Nothing
      BY <1>1, <2>3, <3>1, LeafKind
    <3> QED BY <2>3, <3>2 DEF SameMaps
  <2>6. LostOf(n, R, H) = LostOf(m, R, G)
    BY <2>3, <2>4, <2>5, NothingIsNone
  <2>7. Maps(m, n, R, kernel_pgd, v, PageEntry(p))
    BY <2>1, <2>3, <2>4 DEF Maps, SameMaps
  <2> QED BY <2>2, <2>4, <2>5, <2>6, <2>7 DEF PageMapped
<1> QED BY <1>6, <1>7

\* vmm_unmap_page.
PageUnmapped(m, n, R, H, v) ==
  /\ Ok(n, R, H) /\ Maps(m, n, R, kernel_pgd, v, Nothing)
  /\ Leaf(m, kernel_pgd, v).to \notin Tables => LostOf(n, R, H) = LostOf(m, R, H)

\* vmm_unmap_page empties one entry, and the page it was mapped to is lost.
LEMMA UnmapPageKept ==
  ASSUME NEW m, NEW R, NEW H, Ok(m, R, H), kernel_pgd \in R,
         NEW v \in Virtual, v < USER_VMA_END, NEW n, n = vmm_unmap_page(m, v)
  PROVE  PageUnmapped(m, n, R, H, v)
<1>1. v \in Nat /\ pte_index(v, 0) \in Lower
  BY VirtualNat, LowerHalf
<1>2. PICK w : w = walk_page_table(m, kernel_pgd, v, FALSE)
  OBVIOUS
<1>3. w.m = m /\ w.table = Node3(m, kernel_pgd, v)
  <2>1. PICK al : al = FALSE /\ al \in BOOLEAN
    OBVIOUS
  <2>2. w = walk_page_table(m, kernel_pgd, v, al)
    BY <1>2, <2>1
  <2> QED BY <1>1, <2>1, <2>2, WalkKept
<1>4. PICK t, i : t = w.table /\ i = pte_index(v, 3)
  OBVIOUS
<1>5. n = IF t = NoPage THEN m ELSE Stored(m, t, i, Nothing)
  BY <1>2, <1>3, <1>4 DEF vmm_unmap_page, Stored
<1>6. CASE t = NoPage
  <2>1. n = m /\ kernel_pgd \in Tables
    BY <1>5, <1>6, TableNumbers
  <2>2. Node3(m, kernel_pgd, v) = NoPage
    BY <1>3, <1>4, <1>6
  <2>3. Leaf(m, kernel_pgd, v) = Nothing
    BY <2>1, <2>2, LeafNode, Zenon
  <2> QED BY <2>1, <2>3 DEF Maps, PageUnmapped
<1>7. CASE t # NoPage
  <2>1. PICK S, e : S = {} /\ e = Nothing
    OBVIOUS
  <2>2. Split(H, H, S) /\ Storable(S, e)
    BY <2>1, StorableNothing DEF Split
  <2>3. t = Node3(m, kernel_pgd, v) /\ n = Stored(m, t, pte_index(v, 3), e)
    BY <1>3, <1>4, <1>5, <1>7, <2>1
  <2>4. /\ Ok(n, R, H) /\ Maps(m, n, R, kernel_pgd, v, e)
        /\ Leaf(m, kernel_pgd, v).to \notin Tables => LostOf(n, R, H) = LostOf(m, R, H)
    BY <1>7, <2>2, <2>3, StoreKept
  <2> QED BY <2>1, <2>4 DEF PageUnmapped
<1> QED BY <1>6, <1>7

\* vmm_map_user_page maps p whatever was mapped, or changes nothing.
UserPageMapped(m, a, R, H, G, s, v, p) ==
  /\ a = [m |-> a.m, ok |-> a.ok] /\ a.ok \in BOOLEAN
  /\ a.ok => /\ Ok(a.m, R, H)
             /\ Leaf(m, s, v) = Nothing => LostOf(a.m, R, H) = LostOf(m, R, G)
             /\ Maps(m, a.m, R, s, v, PageEntry(p))
  /\ ~a.ok => Kept(m, a.m, R, G)

\* vmm_map_user_page keeps the forest.
LEMMA MapUserPageKept ==
  ASSUME NEW m, NEW R, NEW H, NEW p \in Pages, NEW G, NEW S, S = {p}, Split(G, H, S),
         Ok(m, R, G), NEW s \in R, NEW v \in Virtual,
         NEW a, a = vmm_map_user_page(m, s, v, p)
  PROVE  UserPageMapped(m, a, R, H, G, s, v, p)
<1>1. v \in Nat
  BY VirtualNat
<1>2. PICK w : w = walk_page_table(m, s, v, TRUE)
  OBVIOUS
<1>3. PICK k, t, i : k = w.m /\ t = w.table /\ i = pte_index(v, 3)
  OBVIOUS
<1>4. a = IF v >= USER_VMA_END THEN [m |-> m, ok |-> FALSE]
          ELSE IF t = NoPage THEN [m |-> k, ok |-> FALSE]
          ELSE [m |-> Stored(k, t, i, PageEntry(p)), ok |-> TRUE]
  BY <1>2, <1>3 DEF vmm_map_user_page, Stored
<1>5. USER_VMA_END \in Nat
  BY Entries, Spans, Product DEF USER_VMA_END
<1>6. CASE v >= USER_VMA_END
  <2>1. a = [m |-> m, ok |-> FALSE]
    BY <1>4, <1>6
  <2> QED BY <2>1 DEF Kept, SameMaps, UserPageMapped
<1>7. CASE ~ (v >= USER_VMA_END)
  <2>1. v < USER_VMA_END /\ pte_index(v, 0) \in Lower
    BY <1>1, <1>5, <1>7, LowerHalf
  <2>2. Kept(m, k, R, G) /\ (t = NoPage \/ t = Node3(k, s, v))
    <3>1. Walked(m, w, R, G, s, v)
      BY <1>1, <1>2, <2>1, WalkMakes
    <3> QED BY <1>3, <3>1 DEF Walked
  <2>3. CASE t = NoPage
    <3>1. a = [m |-> k, ok |-> FALSE]
      BY <1>4, <1>7, <2>3
    <3> QED BY <2>2, <3>1 DEF UserPageMapped
  <2>4. CASE t # NoPage
    <3>1. PICK n, e : n = Stored(k, t, i, e) /\ e = PageEntry(p)
      OBVIOUS
    <3>2. a = [m |-> n, ok |-> TRUE]
      BY <1>4, <1>7, <2>4, <3>1
    <3>3. Ok(k, R, G) /\ LostOf(k, R, G) = LostOf(m, R, G) /\ SameMaps(m, k, R)
      BY <2>2 DEF Kept
    <3>4. Storable(S, e)
      <4>1. Mappable(S, p)
        BY DEF Mappable
      <4> QED BY <3>1, <4>1, MappableStorable
    <3>5. /\ Ok(n, R, H) /\ Maps(k, n, R, s, v, e)
          /\ Leaf(k, s, v).to \notin Tables => LostOf(n, R, H) = LostOf(k, R, G)
      <4>1. t = Node3(k, s, v) /\ n = Stored(k, t, pte_index(v, 3), e)
        BY <1>3, <2>2, <2>4, <3>1
      <4> QED BY <2>4, <3>3, <3>4, <4>1, StoreKept
    <3>6. Leaf(m, s, v) = Nothing => LostOf(n, R, H) = LostOf(m, R, G)
      BY <3>3, <3>5, NothingIsNone DEF SameMaps
    <3>7. Maps(m, n, R, s, v, PageEntry(p))
      BY <3>1, <3>3, <3>5 DEF Maps, SameMaps
    <3> QED BY <3>2, <3>5, <3>6, <3>7 DEF UserPageMapped
  <2> QED BY <2>3, <2>4
<1> QED BY <1>6, <1>7

-----------------------------------------------------------------------------
(* Single pages, and programs and stacks.                                  *)

\* A block of one page.
LEMMA OnePage == \A p \in Pages : Block(p, 1) = {p} /\ p \in Nat
BY TableNumbers DEF Block, Pages

\* One page is taken from pmm.
PageTaken(m, a, R, H, G) ==
  /\ a = [m |-> a.m, page |-> a.page] /\ a.page \in Pages
  /\ Split(G, H, {a.page}) /\ Ok(a.m, R, G)
  /\ LostOf(a.m, R, G) = LostOf(m, R, H) /\ SameMaps(m, a.m, R)

\* pmm_alloc_page fails, or takes a page that is nobody's.
LEMMA AllocPage ==
  ASSUME NEW m, NEW R, NEW H, Ok(m, R, H), NEW a, a = pmm_alloc_page(m)
  PROVE  \/ a = [m |-> m, page |-> NoPage]
         \/ \E G : PageTaken(m, a, R, H, G)
<1> SUFFICES ASSUME a # [m |-> m, page |-> NoPage] PROVE \E G : PageTaken(m, a, R, H, G)
  BY Zenon
<1>1. a = pmm_alloc_pages(m, 1) /\ 1 \in Nat \ {0}
  BY DEF pmm_alloc_page
<1>2. /\ a = [m |-> a.m, page |-> a.page]
      /\ a.page \in Pages /\ Block(a.page, 1) \subseteq Pages \ InUse(m)
      /\ Ok(a.m, R, H \cup Block(a.page, 1))
      /\ LostOf(a.m, R, H \cup Block(a.page, 1)) = LostOf(m, R, H)
      /\ SameMaps(m, a.m, R)
  BY <1>1, PagesAllocated DEF BlockTaken
<1>3. Block(a.page, 1) = {a.page}
  BY <1>2, OnePage
<1>4. PICK G : G = H \cup {a.page}
  OBVIOUS
<1>5. H \subseteq InUse(m)
  BY DEF Ok, Good
<1>6. Split(G, H, {a.page})
  BY <1>2, <1>3, <1>4, <1>5 DEF Split
<1>7. Ok(a.m, R, G) /\ LostOf(a.m, R, G) = LostOf(m, R, H)
  BY <1>2, <1>3, <1>4
<1> QED BY <1>2, <1>6, <1>7 DEF PageTaken

\* A page that nothing refers to is given back.
LEMMA FreePage ==
  ASSUME NEW m, NEW R, NEW H, NEW G, NEW p \in Pages, Split(G, H, {p}), Ok(m, R, G),
         NEW k, k = pmm_free_pages(m, p, 1)
  PROVE  Ok(k, R, H) /\ LostOf(k, R, H) = LostOf(m, R, G) /\ SameMaps(m, k, R)
<1>1. Block(p, 1) = {p} /\ p \in Nat /\ 1 \in Nat \ {0}
  BY OnePage
<1>2. PICK B : B = Block(p, 1)
  OBVIOUS
<1>3. G = H \cup Block(p, 1) /\ H \cap Block(p, 1) = {} /\ Block(p, 1) \subseteq Pages
  BY <1>1 DEF Split
<1>4. Ok(m, R, H \cup Block(p, 1))
  BY <1>3
<1>5. /\ Ok(k, R, H) /\ LostOf(k, R, H) = LostOf(m, R, H \cup Block(p, 1))
      /\ SameMaps(m, k, R)
  BY <1>1, <1>3, <1>4, PagesFreed
<1> QED BY <1>3, <1>5

\* Memory that somebody forgets.
LEMMA ForgetKept ==
  ASSUME NEW m, NEW R, NEW H, NEW G, NEW S, Split(G, H, S), Ok(m, R, G)
  PROVE  Ok(m, R, H)
<1>1. PICK lv : Good(m, R, G, lv)
  BY DEF Ok
<1>2. H \in SUBSET G
  BY DEF Split
<1> QED BY <1>1, <1>2, Weaken DEF Ok

\* What exec does to the kernel's tables: it maps where nothing was, and loses a
\* page only if it says so.
Added(m, n, R, H, lost) ==
  /\ Ok(n, R, H)
  /\ \A r \in R, u \in Virtual :
       IF r = kernel_pgd THEN Leaf(m, r, u) \in {Nothing, Leaf(n, r, u)}
       ELSE Leaf(n, r, u) = Leaf(m, r, u)
  /\ ~lost => LostOf(n, R, H) = LostOf(m, R, H)

\* Nothing is added, and nothing lost.
LEMMA AddedSelf ==
  ASSUME NEW m, NEW R, NEW H, Ok(m, R, H)
  PROVE  Added(m, m, R, H, FALSE)
BY DEF Added

\* Program and stack, one after the other.
LEMMA AddedTwice ==
  ASSUME NEW m, NEW k, NEW n, NEW R, NEW H, NEW b \in BOOLEAN, NEW c \in BOOLEAN,
         Added(m, k, R, H, b), Added(k, n, R, H, c)
  PROVE  Added(m, n, R, H, b \/ c)
<1>1. ASSUME NEW r \in R, NEW u \in Virtual
      PROVE  IF r = kernel_pgd THEN Leaf(m, r, u) \in {Nothing, Leaf(n, r, u)}
             ELSE Leaf(n, r, u) = Leaf(m, r, u)
  BY DEF Added
<1> QED BY <1>1 DEF Added

\* A page is taken and mapped at v, or lost.
LEMMA AddPage ==
  ASSUME NEW m, NEW R, NEW H, Ok(m, R, H), kernel_pgd \in R,
         NEW v \in Virtual, v < USER_VMA_END,
         NEW got, got = pmm_alloc_page(m), got.page # NoPage,
         NEW after, after = vmm_map_page(got.m, v, got.page)
  PROVE  after.ok \in BOOLEAN /\ Added(m, after.m, R, H, ~after.ok)
<1>1. PICK G : PageTaken(m, got, R, H, G)
  <2>1. got = [m |-> m, page |-> NoPage] => got.page = NoPage
    OBVIOUS
  <2> QED BY <2>1, AllocPage
<1>2. PICK k, p, S : k = got.m /\ p = got.page /\ S = {p}
  OBVIOUS
<1>3. /\ p \in Pages /\ Split(G, H, S) /\ Ok(k, R, G)
      /\ LostOf(k, R, G) = LostOf(m, R, H) /\ SameMaps(m, k, R)
  BY <1>1, <1>2 DEF PageTaken
<1>4. PageMapped(k, after, R, H, G, v, p)
  <2>1. Mappable(S, p) /\ after = vmm_map_page(k, v, p)
    BY <1>2, <1>3 DEF Mappable
  <2> QED BY <1>3, <2>1, MapPageKept
<1>5. CASE after.ok
  <2>1. /\ Ok(after.m, R, H) /\ LostOf(after.m, R, H) = LostOf(k, R, G)
        /\ Leaf(k, kernel_pgd, v) = Nothing
        /\ Maps(k, after.m, R, kernel_pgd, v, PageEntry(p))
    BY <1>4, <1>5 DEF PageMapped
  <2>2. ASSUME NEW r \in R, NEW u \in Virtual
        PROVE  IF r = kernel_pgd THEN Leaf(m, r, u) \in {Nothing, Leaf(after.m, r, u)}
               ELSE Leaf(after.m, r, u) = Leaf(m, r, u)
    <3>1. Leaf(k, r, u) = Leaf(m, r, u)
      BY <1>3 DEF SameMaps
    <3>2. Leaf(after.m, r, u) = IF r = kernel_pgd /\ u = v THEN PageEntry(p) ELSE Leaf(k, r, u)
      BY <2>1 DEF Maps
    <3> QED BY <2>1, <3>1, <3>2
  <2> QED BY <1>3, <1>4, <2>1, <2>2 DEF Added, PageMapped
<1>6. CASE ~after.ok
  <2>1. Kept(k, after.m, R, G) /\ after.ok \in BOOLEAN
    BY <1>4, <1>6 DEF PageMapped
  <2>2. Ok(after.m, R, H)
    BY <1>3, <2>1, ForgetKept DEF Kept
  <2>3. ASSUME NEW r \in R, NEW u \in Virtual PROVE Leaf(after.m, r, u) = Leaf(m, r, u)
    BY <1>3, <2>1 DEF SameMaps, Kept
  <2> QED BY <1>6, <2>1, <2>2, <2>3 DEF Added
<1> QED BY <1>5, <1>6

\* A range of addresses of the lower half.
InLowerHalf(r) == r.start \in Nat /\ r.n \in Nat /\ Span(r) \subseteq 0 .. USER_VMA_END - 1

\* The addresses of a range.
LEMMA RangeAddress ==
  ASSUME NEW r, InLowerHalf(r), NEW k \in 1 .. r.n, NEW v, v = r.start + k - 1
  PROVE  v \in Virtual /\ v < USER_VMA_END /\ v \in Span(r)
<1>1. v \in Span(r)
  BY DEF InLowerHalf, Span
<1>2. v \in Nat /\ USER_VMA_END \in Nat
  BY Entries, Spans, Product DEF InLowerHalf, USER_VMA_END
<1>3. v < USER_VMA_END
  BY <1>1, <1>2 DEF InLowerHalf
<1> QED BY <1>1, <1>2, <1>3, LowerHalf DEF Virtual

\* The pages of a program that exec could take are mapped, or lost if it says so.
LEMMA ProgramAdded ==
  ASSUME NEW m, NEW R, NEW H, Ok(m, R, H), kernel_pgd \in R, NEW r, InLowerHalf(r),
         NEW a, a = MapProgram(m, r)
  PROVE  /\ a.ok \in BOOLEAN /\ a.lost \in BOOLEAN
         /\ Added(m, a.m, R, H, a.lost)
<1> DEFINE X == {b \in [m : Memory, ok : BOOLEAN, lost : BOOLEAN] : Added(m, b.m, R, H, b.lost)}
<1>1. [m |-> m, ok |-> TRUE, lost |-> FALSE] \in X
  <2>1. m \in Memory
    BY DEF Ok, Good
  <2> QED BY <2>1, AddedSelf
<1>2. ASSUME NEW b \in X, NEW k \in 1 .. r.n PROVE MapProgramStep(r, b, k) \in X
  <2>1. PICK got : got = pmm_alloc_page(b.m)
    OBVIOUS
  <2>2. PICK v : v = r.start + k - 1
    OBVIOUS
  <2>3. PICK after : after = vmm_map_page(got.m, v, got.page)
    OBVIOUS
  <2>4. MapProgramStep(r, b, k) =
          IF ~b.ok THEN b
          ELSE IF got.page = NoPage THEN [b EXCEPT !.ok = FALSE]
          ELSE [m |-> after.m, ok |-> TRUE, lost |-> b.lost \/ ~after.ok]
    BY <2>1, <2>2, <2>3 DEF MapProgramStep
  <2>5. CASE ~b.ok
    BY <2>4, <2>5
  <2>6. CASE b.ok /\ got.page = NoPage
    BY <2>4, <2>6
  <2>7. CASE b.ok /\ got.page # NoPage
    <3>1. Ok(b.m, R, H) /\ Added(m, b.m, R, H, b.lost) /\ b.lost \in BOOLEAN
      BY DEF Added
    <3>2. v \in Virtual /\ v < USER_VMA_END
      BY <2>2, RangeAddress
    <3>3. after.ok \in BOOLEAN /\ Added(b.m, after.m, R, H, ~after.ok)
      BY <2>1, <2>3, <2>7, <3>1, <3>2, AddPage
    <3>4. PICK c : c = ~after.ok /\ c \in BOOLEAN
      OBVIOUS
    <3>5. Added(m, after.m, R, H, b.lost \/ c)
      <4>1. Added(b.m, after.m, R, H, c)
        BY <3>3, <3>4, Zenon
      <4>2. c \in BOOLEAN
        BY <3>4
      <4> QED BY <3>1, <4>1, <4>2, AddedTwice
    <3>6. after.m \in Memory
      BY <3>3 DEF Added, Ok, Good
    <3>7. PICK d : d = (b.lost \/ ~after.ok) /\ d \in BOOLEAN
      OBVIOUS
    <3>8. Added(m, after.m, R, H, d)
      BY <3>4, <3>5, <3>7, Zenon
    <3>9. MapProgramStep(r, b, k) = [m |-> after.m, ok |-> TRUE, lost |-> d]
      BY <2>4, <2>7, <3>7
    <3> QED BY <3>6, <3>7, <3>8, <3>9
  <2> QED BY <2>5, <2>6, <2>7
<1>3. r.n \in Nat
  BY DEF InLowerHalf
<1>4. a \in X
  <2> HIDE DEF X
  <2>1. PICK h \in [0 .. r.n -> X] : MapProgram(m, r) = h[r.n]
    BY <1>1, <1>2, <1>3, MapProgramSteps
  <2> QED BY <1>3, <2>1
<1> QED BY <1>4

\* The same of the stack.
LEMMA StackAdded ==
  ASSUME NEW m, NEW R, NEW H, Ok(m, R, H), kernel_pgd \in R, NEW a, a = MapStack(m)
  PROVE  a.lost \in BOOLEAN /\ Added(m, a.m, R, H, a.lost)
<1> DEFINE X == {b \in [m : Memory, lost : BOOLEAN] : Added(m, b.m, R, H, b.lost)}
<1>1. InLowerHalf(Stack)
  BY VmAssumption DEF InLowerHalf
<1>2. [m |-> m, lost |-> FALSE] \in X
  <2>1. m \in Memory
    BY DEF Ok, Good
  <2> QED BY <2>1, AddedSelf
<1>3. ASSUME NEW b \in X, NEW k \in 1 .. Stack.n PROVE MapStackStep(b, k) \in X
  <2>1. PICK got : got = pmm_alloc_page(b.m)
    OBVIOUS
  <2>2. PICK v : v = Stack.start + k - 1
    OBVIOUS
  <2>3. PICK after : after = vmm_map_page(got.m, v, got.page)
    OBVIOUS
  <2>4. MapStackStep(b, k) =
          IF got.page = NoPage THEN b
          ELSE [m |-> after.m, lost |-> b.lost \/ ~after.ok]
    BY <2>1, <2>2, <2>3 DEF MapStackStep
  <2>5. CASE got.page = NoPage
    BY <2>4, <2>5
  <2>6. CASE got.page # NoPage
    <3>1. Ok(b.m, R, H) /\ Added(m, b.m, R, H, b.lost) /\ b.lost \in BOOLEAN
      BY DEF Added
    <3>2. v \in Virtual /\ v < USER_VMA_END
      BY <1>1, <2>2, RangeAddress
    <3>3. after.ok \in BOOLEAN /\ Added(b.m, after.m, R, H, ~after.ok)
      BY <2>1, <2>3, <2>6, <3>1, <3>2, AddPage
    <3>4. PICK c : c = ~after.ok /\ c \in BOOLEAN
      OBVIOUS
    <3>5. Added(m, after.m, R, H, b.lost \/ c)
      <4>1. Added(b.m, after.m, R, H, c)
        BY <3>3, <3>4, Zenon
      <4>2. c \in BOOLEAN
        BY <3>4
      <4> QED BY <3>1, <4>1, <4>2, AddedTwice
    <3>6. after.m \in Memory
      BY <3>3 DEF Added, Ok, Good
    <3>7. PICK d : d = (b.lost \/ ~after.ok) /\ d \in BOOLEAN
      OBVIOUS
    <3>8. Added(m, after.m, R, H, d)
      BY <3>4, <3>5, <3>7, Zenon
    <3>9. MapStackStep(b, k) = [m |-> after.m, lost |-> d]
      BY <2>4, <2>6, <3>7
    <3> QED BY <3>6, <3>7, <3>8, <3>9
  <2> QED BY <2>5, <2>6
<1>4. Stack.n \in Nat
  BY <1>1 DEF InLowerHalf
<1>5. a \in X
  <2> HIDE DEF X
  <2>1. PICK h \in [0 .. Stack.n -> X] : MapStack(m) = h[Stack.n]
    BY <1>2, <1>3, MapStackSteps
  <2> QED BY <1>4, <2>1
<1> QED BY <1>5

-----------------------------------------------------------------------------
(* Ranges.                                                                 *)

\* The first k addresses of r.
First(r, k) == r.start .. r.start + k - 1

\* One address after the other, up to the whole range.
LEMMA FirstNext ==
  ASSUME NEW r, r.start \in Nat, r.n \in Nat, NEW k \in 1 .. r.n,
         NEW v, v = r.start + k - 1
  PROVE  /\ v \notin First(r, k - 1) /\ \A u : u \in First(r, k) <=> u \in First(r, k - 1) \/ u = v
         /\ v \in Span(r) /\ First(r, 0) = {} /\ First(r, r.n) = Span(r)
         /\ First(r, k) \subseteq Span(r)
BY DEF First, Span

\* The kernel's tables do not map the first k pages of r any more.
Unmapped(m, n, R, H, r, k) ==
  /\ Ok(n, R, H)
  /\ \A x \in R, u \in Virtual :
       Leaf(n, x, u) = IF x = kernel_pgd /\ u \in First(r, k) THEN Nothing ELSE Leaf(m, x, u)
  /\ (\A u \in Span(r) : Leaf(m, kernel_pgd, u).to \notin Tables)
       => LostOf(n, R, H) = LostOf(m, R, H)

\* One page of vmm_unmap_range.
LEMMA UnmapStep ==
  ASSUME NEW m, NEW R, NEW H, kernel_pgd \in R, NEW r, InLowerHalf(r), NEW k \in 1 .. r.n,
         NEW a, Unmapped(m, a, R, H, r, k - 1),
         NEW n, n = vmm_unmap_page(a, r.start + k - 1)
  PROVE  Unmapped(m, n, R, H, r, k)
<1>1. PICK v : v = r.start + k - 1
  OBVIOUS
<1>2. v \in Virtual /\ v < USER_VMA_END /\ v \in Span(r)
  BY <1>1, RangeAddress
<1>3. v \notin First(r, k - 1) /\ \A u : u \in First(r, k) <=> u \in First(r, k - 1) \/ u = v
  BY <1>1, FirstNext DEF InLowerHalf
<1>4. PageUnmapped(a, n, R, H, v)
  <2>1. Ok(a, R, H) /\ n = vmm_unmap_page(a, v)
    BY <1>1 DEF Unmapped
  <2> QED BY <1>2, <2>1, UnmapPageKept
<1>5. ASSUME NEW x \in R, NEW u \in Virtual
      PROVE  Leaf(n, x, u) = IF x = kernel_pgd /\ u \in First(r, k) THEN Nothing ELSE Leaf(m, x, u)
  <2>1. Leaf(n, x, u) = IF x = kernel_pgd /\ u = v THEN Nothing ELSE Leaf(a, x, u)
    BY <1>4 DEF PageUnmapped, Maps
  <2>2. Leaf(a, x, u) =
          IF x = kernel_pgd /\ u \in First(r, k - 1) THEN Nothing ELSE Leaf(m, x, u)
    BY DEF Unmapped
  <2> QED BY <1>3, <2>1, <2>2
<1>6. ASSUME \A u \in Span(r) : Leaf(m, kernel_pgd, u).to \notin Tables
      PROVE  LostOf(n, R, H) = LostOf(m, R, H)
  <2>1. LostOf(a, R, H) = LostOf(m, R, H)
    BY <1>6 DEF Unmapped
  <2>2. Leaf(a, kernel_pgd, v).to \notin Tables
    BY <1>2, <1>3, <1>6 DEF Unmapped
  <2> QED BY <1>4, <2>1, <2>2 DEF PageUnmapped
<1> QED BY <1>4, <1>5, <1>6 DEF Unmapped, PageUnmapped

\* vmm_unmap_range unmaps the range and nothing else.
LEMMA UnmapRangeKept ==
  ASSUME NEW m, NEW R, NEW H, Ok(m, R, H), kernel_pgd \in R, NEW r, InLowerHalf(r),
         NEW n, n = vmm_unmap_range(m, r)
  PROVE  Unmapped(m, n, R, H, r, r.n)
<1> DEFINE X == {b \in Memory : Ok(b, R, H)}
<1>1. r.n \in Nat /\ r.start \in Nat
  BY DEF InLowerHalf
<1>2. m \in X
  BY DEF Ok, Good
<1>3. ASSUME NEW b \in X, NEW k \in 1 .. r.n
      PROVE  vmm_unmap_page(b, r.start + k - 1) \in X
  <2>1. PICK v : v = r.start + k - 1
    OBVIOUS
  <2>2. v \in Virtual /\ v < USER_VMA_END
    BY <2>1, RangeAddress
  <2>3. PICK c : c = vmm_unmap_page(b, v)
    OBVIOUS
  <2>4. PageUnmapped(b, c, R, H, v)
    <3>1. Ok(b, R, H)
      OBVIOUS
    <3> HIDE DEF X
    <3> QED BY <2>2, <2>3, <3>1, UnmapPageKept
  <2>5. Ok(c, R, H)
    BY <2>4 DEF PageUnmapped
  <2>6. c \in Memory
    BY <2>5 DEF Ok, Good
  <2> QED BY <2>1, <2>3, <2>5, <2>6
<1>4. PICK h : UnmapLoop(m, r, X, h)
  <2> HIDE DEF X
  <2>1. \A b \in X, k \in 1 .. r.n : vmm_unmap_page(b, r.start + k - 1) \in X
    BY <1>3
  <2> QED BY <1>1, <1>2, <2>1, UnmapRangeSteps
<1>5. /\ h[0] = m /\ n = h[r.n]
      /\ \A k \in 1 .. r.n : h[k] = vmm_unmap_page(h[k - 1], r.start + k - 1)
  BY <1>4 DEF UnmapLoop
<1> DEFINE S == {k \in 0 .. r.n : Unmapped(m, h[k], R, H, r, k)}
<1>6. 0 \in S
  <2>1. First(r, 0) = {}
    BY <1>1 DEF First
  <2>2. Unmapped(m, m, R, H, r, 0)
    BY <2>1 DEF Unmapped
  <2> QED BY <1>1, <1>5, <2>2
<1>7. ASSUME NEW k \in 0 .. r.n - 1, k \in S PROVE k + 1 \in S
  <2>1. PICK j \in 1 .. r.n : j = k + 1 /\ j - 1 = k
    BY <1>1
  <2>2. PICK a, b : a = h[k] /\ b = h[j]
    OBVIOUS
  <2>3. b = vmm_unmap_page(a, r.start + j - 1)
    BY <1>5, <2>1, <2>2
  <2>4. Unmapped(m, a, R, H, r, j - 1)
    BY <1>7, <2>1, <2>2
  <2>5. Unmapped(m, b, R, H, r, j)
    BY <2>3, <2>4, UnmapStep
  <2> QED BY <2>1, <2>2, <2>5
<1>8. S = 0 .. r.n
  <2>1. S \in SUBSET (0 .. r.n)
    OBVIOUS
  <2> HIDE DEF S
  <2> QED BY <1>1, <1>6, <1>7, <2>1, AllNumbers
<1> QED BY <1>1, <1>5, <1>8

\* A mapping of registers refers to no memory.
LEMMA RegistersOutside ==
  ASSUME NEW v \in Nat
  PROVE  /\ Mappable({}, Registers(v)) /\ PageEntry(Registers(v)).to \notin Tables
         /\ PageEntry(Registers(v)) # Nothing
<1>1. Registers(v) \in Nat /\ Registers(v) > kernel_pgd
  BY TableNumbers DEF Registers
<1>2. Registers(v) \notin Tables
  BY <1>1, TableNumbers
<1> QED BY <1>1, <1>2 DEF Mappable, PageEntry, Nothing

\* What vmm_map_range has after k pages: they are mapped, and nothing was mapped
\* there, or everything is as it was.
RangeMapped(m, a, R, H, r, k) ==
  /\ LostOf(a.m, R, H) = LostOf(m, R, H)
  /\ \A x \in R, u \in Virtual :
       Leaf(a.m, x, u) = IF a.ok /\ x = kernel_pgd /\ u \in First(r, k)
                         THEN PageEntry(Registers(u)) ELSE Leaf(m, x, u)
  /\ a.ok => \A u \in First(r, k) : Leaf(m, kernel_pgd, u) = Nothing

\* A result of an operation on memory.
Result(a, R, H) == a \in [m : Memory, ok : BOOLEAN] /\ Ok(a.m, R, H)

\* One page of vmm_map_range; the rollback restores every mapping.
LEMMA MapRangeNext ==
  ASSUME NEW m, NEW R, NEW H, kernel_pgd \in R, NEW r, InLowerHalf(r), NEW k \in 1 .. r.n,
         NEW a, Result(a, R, H), NEW b, b = MapRangeStep(r, a, k)
  PROVE  /\ Result(b, R, H)
         /\ RangeMapped(m, a, R, H, r, k - 1) => RangeMapped(m, b, R, H, r, k)
<1>1. PICK v : v = r.start + k - 1
  OBVIOUS
<1>2. v \in Virtual /\ v < USER_VMA_END /\ v \in Span(r) /\ v \in Nat
  BY <1>1, RangeAddress, VirtualNat
<1>3. v \notin First(r, k - 1) /\ \A u : u \in First(r, k) <=> u \in First(r, k - 1) \/ u = v
  BY <1>1, FirstNext DEF InLowerHalf
<1>4. PICK after : after = vmm_map_page(a.m, v, Registers(v))
  OBVIOUS
<1>5. PICK s : s = [start |-> r.start, n |-> k - 1]
  OBVIOUS
<1>6. PICK n : n = vmm_unmap_range(after.m, s)
  OBVIOUS
<1>7. b = IF ~a.ok THEN a ELSE IF after.ok THEN after ELSE [m |-> n, ok |-> FALSE]
  BY <1>1, <1>4, <1>5, <1>6 DEF MapRangeStep
<1>8. Ok(a.m, R, H) /\ a.ok \in BOOLEAN
  BY DEF Result
<1>9. PageMapped(a.m, after, R, H, H, v, Registers(v))
  <2>1. PICK S, p : S = {} /\ p = Registers(v)
    OBVIOUS
  <2>2. Mappable(S, p) /\ Split(H, H, S)
    BY <1>2, <2>1, RegistersOutside DEF Split
  <2>3. after = vmm_map_page(a.m, v, p)
    BY <1>4, <2>1
  <2>4. PageMapped(a.m, after, R, H, H, v, p)
    BY <1>2, <1>8, <2>2, <2>3, MapPageKept
  <2> QED BY <2>1, <2>4
<1>10. CASE ~a.ok
  <2>1. b = a
    BY <1>7, <1>10
  <2> QED BY <1>10, <2>1 DEF RangeMapped
<1>11. CASE a.ok /\ after.ok
  <2>1. b = after /\ b.ok
    BY <1>7, <1>11
  <2>2. /\ after = [m |-> after.m, ok |-> after.ok] /\ after.ok \in BOOLEAN
        /\ Ok(after.m, R, H) /\ LostOf(after.m, R, H) = LostOf(a.m, R, H)
        /\ Leaf(a.m, kernel_pgd, v) = Nothing
        /\ Maps(a.m, after.m, R, kernel_pgd, v, PageEntry(Registers(v)))
    BY <1>9, <1>11 DEF PageMapped
  <2>3. Result(b, R, H)
    <3>1. after.m \in Memory
      BY <2>2 DEF Ok, Good
    <3> QED BY <2>1, <2>2, <3>1 DEF Result
  <2>4. ASSUME RangeMapped(m, a, R, H, r, k - 1) PROVE RangeMapped(m, b, R, H, r, k)
    <3>1. LostOf(b.m, R, H) = LostOf(m, R, H)
      BY <2>1, <2>2, <2>4 DEF RangeMapped
    <3>2. ASSUME NEW x \in R, NEW u \in Virtual
          PROVE  Leaf(b.m, x, u) = IF x = kernel_pgd /\ u \in First(r, k)
                                   THEN PageEntry(Registers(u)) ELSE Leaf(m, x, u)
      <4>1. Leaf(b.m, x, u) = IF x = kernel_pgd /\ u = v THEN PageEntry(Registers(v))
                              ELSE Leaf(a.m, x, u)
        BY <2>1, <2>2 DEF Maps
      <4>2. Leaf(a.m, x, u) = IF x = kernel_pgd /\ u \in First(r, k - 1)
                              THEN PageEntry(Registers(u)) ELSE Leaf(m, x, u)
        BY <1>11, <2>4 DEF RangeMapped
      <4> QED BY <1>3, <4>1, <4>2
    <3>3. ASSUME NEW u \in First(r, k) PROVE Leaf(m, kernel_pgd, u) = Nothing
      <4>1. u \in First(r, k - 1) => Leaf(m, kernel_pgd, u) = Nothing
        BY <1>11, <2>4 DEF RangeMapped
      <4>2. Leaf(m, kernel_pgd, v) = Nothing
        BY <1>2, <1>3, <2>2, <2>4 DEF RangeMapped
      <4> QED BY <1>3, <4>1, <4>2
    <3> QED BY <2>1, <3>1, <3>2, <3>3 DEF RangeMapped
  <2> QED BY <2>3, <2>4
<1>12. CASE a.ok /\ ~after.ok
  <2>1. b = [m |-> n, ok |-> FALSE]
    BY <1>7, <1>12
  <2>2. Ok(after.m, R, H) /\ LostOf(after.m, R, H) = LostOf(a.m, R, H)
        /\ SameMaps(a.m, after.m, R)
    BY <1>9, <1>12 DEF PageMapped, Kept
  <2>3. First(s, s.n) = First(r, k - 1) /\ Span(s) = First(r, k - 1) /\ InLowerHalf(s)
    <3>1. s.start = r.start /\ s.n = k - 1 /\ s.n \in Nat
      BY <1>5 DEF InLowerHalf
    <3>2. First(r, k - 1) \subseteq Span(r)
      BY DEF First, Span, InLowerHalf
    <3> QED BY <3>1, <3>2 DEF First, Span, InLowerHalf
  <2>4. Unmapped(after.m, n, R, H, s, s.n)
    BY <1>6, <2>2, <2>3, UnmapRangeKept
  <2>5. Result(b, R, H)
    <3>1. Ok(n, R, H)
      BY <2>4 DEF Unmapped
    <3>2. n \in Memory
      BY <3>1 DEF Ok, Good
    <3> QED BY <2>1, <3>1, <3>2 DEF Result
  <2>6. ASSUME RangeMapped(m, a, R, H, r, k - 1) PROVE RangeMapped(m, b, R, H, r, k)
    <3>1. \A u \in First(r, k - 1) : u \in Virtual /\ u \in Nat
      <4>1. First(r, k - 1) \subseteq 0 .. USER_VMA_END - 1 /\ USER_VMA_END \in Nat
        BY <2>3, Entries, Spans, Product DEF InLowerHalf, USER_VMA_END
      <4> QED BY <4>1, LowerHalf DEF Virtual
    <3>2. LostOf(n, R, H) = LostOf(m, R, H)
      <4>1. ASSUME NEW u \in Span(s) PROVE Leaf(after.m, kernel_pgd, u).to \notin Tables
        <5>1. Leaf(after.m, kernel_pgd, u) = PageEntry(Registers(u))
          BY <1>12, <2>2, <2>3, <2>6, <3>1 DEF RangeMapped, SameMaps
        <5> QED BY <2>3, <3>1, <5>1, RegistersOutside
      <4>2. LostOf(n, R, H) = LostOf(after.m, R, H)
        BY <2>4, <4>1 DEF Unmapped
      <4> QED BY <2>2, <2>6, <4>2 DEF RangeMapped
    <3>3. ASSUME NEW x \in R, NEW u \in Virtual PROVE Leaf(n, x, u) = Leaf(m, x, u)
      <4>1. Leaf(n, x, u) = IF x = kernel_pgd /\ u \in First(r, k - 1) THEN Nothing
                            ELSE Leaf(after.m, x, u)
        BY <2>3, <2>4 DEF Unmapped
      <4>2. Leaf(after.m, x, u) = IF x = kernel_pgd /\ u \in First(r, k - 1)
                                  THEN PageEntry(Registers(u)) ELSE Leaf(m, x, u)
        BY <1>12, <2>2, <2>6 DEF RangeMapped, SameMaps
      <4>3. u \in First(r, k - 1) => Leaf(m, kernel_pgd, u) = Nothing
        BY <1>12, <2>6 DEF RangeMapped
      <4> QED BY <4>1, <4>2, <4>3
    <3> QED BY <2>1, <3>2, <3>3 DEF RangeMapped
  <2> QED BY <2>5, <2>6
<1> QED BY <1>8, <1>10, <1>11, <1>12

\* vmm_map_range maps the range or nothing.
LEMMA MapRangeKept ==
  ASSUME NEW m, NEW R, NEW H, Ok(m, R, H), kernel_pgd \in R, NEW r, InLowerHalf(r),
         NEW a, a = vmm_map_range(m, r)
  PROVE  Result(a, R, H) /\ RangeMapped(m, a, R, H, r, r.n)
<1> DEFINE X == {b \in [m : Memory, ok : BOOLEAN] : Ok(b.m, R, H)}
           base == [m |-> m, ok |-> TRUE]
<1>1. r.n \in Nat /\ r.start \in Nat
  BY DEF InLowerHalf
<1>2. base \in X /\ \A b : b \in X <=> Result(b, R, H)
  <2>1. \A b : b \in X <=> Result(b, R, H)
    BY Zenon DEF Result
  <2>2. m \in Memory
    BY DEF Ok, Good
  <2>3. base \in X
    BY <2>2
  <2> QED BY <2>1, <2>3
<1>3. ASSUME NEW b \in X, NEW k \in 1 .. r.n PROVE MapRangeStep(r, b, k) \in X
  <2>1. Result(b, R, H)
    BY <1>2
  <2> HIDE DEF X
  <2>2. PICK c : c = MapRangeStep(r, b, k)
    OBVIOUS
  <2>3. Result(c, R, H)
    BY <2>1, <2>2, MapRangeNext
  <2> QED BY <1>2, <2>2, <2>3
<1> HIDE DEF X
<1>4. PICK h : MapLoop(m, r, X, h)
  <2>1. \A b \in X, k \in 1 .. r.n : MapRangeStep(r, b, k) \in X
    BY <1>3
  <2> QED BY <1>1, <1>2, <2>1, MapRangeSteps
<1>5. /\ h \in [0 .. r.n -> X] /\ h[0] = base /\ a = h[r.n]
      /\ \A k \in 1 .. r.n : h[k] = MapRangeStep(r, h[k - 1], k)
  BY <1>4 DEF MapLoop
<1> DEFINE S == {k \in 0 .. r.n : RangeMapped(m, h[k], R, H, r, k)}
<1>6. 0 \in S
  <2>1. First(r, 0) = {} /\ base.m = m /\ base.ok
    BY <1>1 DEF First
  <2>2. RangeMapped(m, base, R, H, r, 0)
    <3> HIDE DEF base
    <3> QED BY <2>1 DEF RangeMapped
  <2> QED BY <1>1, <1>5, <2>2
<1>7. ASSUME NEW k \in 0 .. r.n - 1, k \in S PROVE k + 1 \in S
  <2>1. PICK j \in 1 .. r.n : j = k + 1 /\ j - 1 = k
    BY <1>1
  <2>2. PICK b, c : b = h[k] /\ c = h[j]
    OBVIOUS
  <2>3. c = MapRangeStep(r, b, j)
    BY <1>5, <2>1, <2>2
  <2>4. RangeMapped(m, b, R, H, r, j - 1)
    BY <1>7, <2>1, <2>2
  <2>5. Result(b, R, H)
    <3>1. k \in 0 .. r.n
      BY <1>1
    <3>2. b \in X
      BY <1>5, <2>2, <3>1
    <3> QED BY <1>2, <3>2, Zenon
  <2>6. RangeMapped(m, c, R, H, r, j)
    BY <2>3, <2>4, <2>5, MapRangeNext
  <2> QED BY <2>1, <2>2, <2>6
<1>8. S = 0 .. r.n
  <2>1. S \in SUBSET (0 .. r.n)
    OBVIOUS
  <2> HIDE DEF S
  <2> QED BY <1>1, <1>6, <1>7, <2>1, AllNumbers
<1>9. Result(a, R, H)
  BY <1>1, <1>2, <1>5
<1> QED BY <1>1, <1>5, <1>8, <1>9

\* What a user mapping has after k pages: everything else is as it was, and no
\* page is lost unless one of them was mapped before.
UserMapped(m, a, R, H, s, r, k) ==
  /\ \A x \in R, u \in Virtual :
       ~ (x = s /\ u \in First(r, k)) => Leaf(a.m, x, u) = Leaf(m, x, u)
  /\ (\A u \in Span(r) : Leaf(m, s, u) = Nothing) => LostOf(a.m, R, H) = LostOf(m, R, H)

\* A range of any addresses, also beyond USER_VMA_END.
UserRange(r) == r.start \in Nat /\ r.n \in Nat /\ Span(r) \subseteq Virtual

\* One page is taken and mapped, or it is given back.
UserPageStepped(m, b, R, H, s, v) ==
  /\ Result(b, R, H)
  /\ \A x \in R, u \in Virtual : ~ (x = s /\ u = v) => Leaf(b.m, x, u) = Leaf(m, x, u)
  /\ Leaf(m, s, v) = Nothing => LostOf(b.m, R, H) = LostOf(m, R, H)

\* A page is taken and mapped, or given back.
LEMMA UserPage ==
  ASSUME NEW m, NEW R, NEW H, Ok(m, R, H), NEW s \in R, NEW v \in Virtual,
         NEW got, got = pmm_alloc_page(m), got.page # NoPage,
         NEW after, after = vmm_map_user_page(got.m, s, v, got.page),
         NEW b, b = IF after.ok THEN after
                    ELSE [m |-> pmm_free_pages(after.m, got.page, 1), ok |-> FALSE]
  PROVE  UserPageStepped(m, b, R, H, s, v)
<1>1. PICK G : PageTaken(m, got, R, H, G)
  <2>1. got = [m |-> m, page |-> NoPage] => got.page = NoPage
    OBVIOUS
  <2> QED BY <2>1, AllocPage
<1>2. PICK k, p, S : k = got.m /\ p = got.page /\ S = {p}
  OBVIOUS
<1>3. /\ p \in Pages /\ Split(G, H, S) /\ Ok(k, R, G)
      /\ LostOf(k, R, G) = LostOf(m, R, H) /\ SameMaps(m, k, R)
  BY <1>1, <1>2 DEF PageTaken
<1>4. UserPageMapped(k, after, R, H, G, s, v, p)
  <2>1. after = vmm_map_user_page(k, s, v, p)
    BY <1>2
  <2> QED BY <1>2, <1>3, <2>1, MapUserPageKept
<1>5. CASE after.ok
  <2>1. /\ after = [m |-> after.m, ok |-> after.ok] /\ after.ok \in BOOLEAN
        /\ Ok(after.m, R, H)
        /\ Leaf(k, s, v) = Nothing => LostOf(after.m, R, H) = LostOf(k, R, G)
        /\ Maps(k, after.m, R, s, v, PageEntry(p))
    BY <1>4, <1>5 DEF UserPageMapped
  <2>2. b = after
    BY <1>5
  <2>3. after.m \in Memory
    BY <2>1 DEF Ok, Good
  <2>4. Result(b, R, H)
    BY <2>1, <2>2, <2>3 DEF Result
  <2>5. ASSUME NEW x \in R, NEW u \in Virtual, ~ (x = s /\ u = v)
        PROVE  Leaf(b.m, x, u) = Leaf(m, x, u)
    BY <1>3, <2>1, <2>2, <2>5 DEF Maps, SameMaps
  <2>6. Leaf(m, s, v) = Nothing => LostOf(b.m, R, H) = LostOf(m, R, H)
    BY <1>3, <2>1, <2>2 DEF SameMaps
  <2> QED BY <2>4, <2>5, <2>6 DEF UserPageStepped
<1>6. CASE ~after.ok
  <2>1. PICK n : n = pmm_free_pages(after.m, p, 1)
    OBVIOUS
  <2>2. b = [m |-> n, ok |-> FALSE]
    BY <1>2, <1>6, <2>1
  <2>3. Ok(after.m, R, G) /\ LostOf(after.m, R, G) = LostOf(k, R, G) /\ SameMaps(k, after.m, R)
    BY <1>4, <1>6 DEF UserPageMapped, Kept
  <2>4. Ok(n, R, H) /\ LostOf(n, R, H) = LostOf(after.m, R, G) /\ SameMaps(after.m, n, R)
    <3>1. Split(G, H, {p})
      BY <1>2, <1>3
    <3> QED BY <1>3, <2>1, <2>3, <3>1, FreePage
  <2>5. n \in Memory
    BY <2>4 DEF Ok, Good
  <2>6. Result(b, R, H)
    BY <2>2, <2>4, <2>5 DEF Result
  <2>7. ASSUME NEW x \in R, NEW u \in Virtual PROVE Leaf(b.m, x, u) = Leaf(m, x, u)
    BY <1>3, <2>2, <2>3, <2>4 DEF SameMaps
  <2>8. LostOf(b.m, R, H) = LostOf(m, R, H)
    BY <1>3, <2>2, <2>3, <2>4
  <2> QED BY <2>6, <2>7, <2>8 DEF UserPageStepped
<1> QED BY <1>5, <1>6

\* One page of MapUserPages.
LEMMA MapUserNext ==
  ASSUME NEW m, NEW R, NEW H, NEW s \in R, NEW r, UserRange(r), NEW k \in 1 .. r.n,
         NEW a, Result(a, R, H), NEW b, b = MapUserStep(s, r, a, k)
  PROVE  /\ Result(b, R, H)
         /\ UserMapped(m, a, R, H, s, r, k - 1) => UserMapped(m, b, R, H, s, r, k)
<1>1. PICK v : v = r.start + k - 1
  OBVIOUS
<1>2. /\ v \in Virtual /\ v \in Span(r) /\ v \notin First(r, k - 1)
      /\ \A u : u \in First(r, k) <=> u \in First(r, k - 1) \/ u = v
  BY <1>1, FirstNext DEF UserRange
<1>3. PICK got : got = pmm_alloc_page(a.m)
  OBVIOUS
<1>4. PICK after : after = vmm_map_user_page(got.m, s, v, got.page)
  OBVIOUS
<1>5. b = IF ~a.ok THEN a
          ELSE IF got.page = NoPage THEN [m |-> got.m, ok |-> FALSE]
          ELSE IF after.ok THEN after
          ELSE [m |-> pmm_free_pages(after.m, got.page, 1), ok |-> FALSE]
  BY <1>1, <1>3, <1>4 DEF MapUserStep
<1>6. Ok(a.m, R, H) /\ a.ok \in BOOLEAN /\ a.m \in Memory
  BY DEF Result
<1>7. CASE ~a.ok \/ got.page = NoPage
  <2>1. got.page = NoPage => got.m = a.m
    <3>1. ASSUME NEW G, PageTaken(a.m, got, R, H, G) PROVE got.page # NoPage
      BY <3>1, TableNumbers DEF PageTaken
    <3>2. got = [m |-> a.m, page |-> NoPage] \/ \E G : PageTaken(a.m, got, R, H, G)
      BY <1>3, <1>6, AllocPage
    <3> QED BY <3>1, <3>2
  <2>2. b.m = a.m /\ b \in [m : Memory, ok : BOOLEAN]
    BY <1>5, <1>6, <1>7, <2>1 DEF Result
  <2>3. Result(b, R, H)
    BY <1>6, <2>2 DEF Result
  <2> QED BY <1>2, <2>2, <2>3 DEF UserMapped
<1>8. CASE a.ok /\ got.page # NoPage
  <2>1. b = IF after.ok THEN after
            ELSE [m |-> pmm_free_pages(after.m, got.page, 1), ok |-> FALSE]
    BY <1>5, <1>8
  <2>2. UserPageStepped(a.m, b, R, H, s, v)
    BY <1>2, <1>3, <1>4, <1>6, <1>8, <2>1, UserPage
  <2>3. ASSUME UserMapped(m, a, R, H, s, r, k - 1) PROVE UserMapped(m, b, R, H, s, r, k)
    <3>1. ASSUME NEW x \in R, NEW u \in Virtual, ~ (x = s /\ u \in First(r, k))
          PROVE  Leaf(b.m, x, u) = Leaf(m, x, u)
      <4>1. ~ (x = s /\ u = v) /\ ~ (x = s /\ u \in First(r, k - 1))
        BY <1>2, <3>1
      <4> QED BY <2>2, <2>3, <4>1 DEF UserPageStepped, UserMapped
    <3>2. ASSUME \A u \in Span(r) : Leaf(m, s, u) = Nothing
          PROVE  LostOf(b.m, R, H) = LostOf(m, R, H)
      <4>1. LostOf(a.m, R, H) = LostOf(m, R, H)
        BY <2>3, <3>2 DEF UserMapped
      <4>2. Leaf(a.m, s, v) = Nothing
        BY <1>2, <2>3, <3>2 DEF UserMapped
      <4> QED BY <2>2, <4>1, <4>2 DEF UserPageStepped
    <3> QED BY <3>1, <3>2 DEF UserMapped
  <2> QED BY <2>2, <2>3 DEF UserPageStepped
<1> QED BY <1>6, <1>7, <1>8

\* MapUserPages maps only in the range, of one address space.
LEMMA MapUserKept ==
  ASSUME NEW m, NEW R, NEW H, Ok(m, R, H), NEW s \in R, NEW r, UserRange(r),
         NEW a, a = MapUserPages(m, s, r)
  PROVE  Result(a, R, H) /\ UserMapped(m, a, R, H, s, r, r.n)
<1> DEFINE X == {b \in [m : Memory, ok : BOOLEAN] : Ok(b.m, R, H)}
           base == [m |-> m, ok |-> TRUE]
<1>1. r.n \in Nat /\ r.start \in Nat
  BY DEF UserRange
<1>2. base \in X /\ \A b : b \in X <=> Result(b, R, H)
  <2>1. \A b : b \in X <=> Result(b, R, H)
    BY Zenon DEF Result
  <2>2. m \in Memory
    BY DEF Ok, Good
  <2>3. base \in X
    BY <2>2
  <2> QED BY <2>1, <2>3
<1>3. ASSUME NEW b \in X, NEW k \in 1 .. r.n PROVE MapUserStep(s, r, b, k) \in X
  <2>1. Result(b, R, H)
    BY <1>2
  <2> HIDE DEF X
  <2>2. PICK c : c = MapUserStep(s, r, b, k)
    OBVIOUS
  <2>3. Result(c, R, H)
    BY <2>1, <2>2, MapUserNext
  <2> QED BY <1>2, <2>2, <2>3
<1> HIDE DEF X
<1>4. PICK h : UserLoop(m, s, r, X, h)
  <2>1. \A b \in X, k \in 1 .. r.n : MapUserStep(s, r, b, k) \in X
    BY <1>3
  <2> QED BY <1>1, <1>2, <2>1, MapUserSteps
<1>5. /\ h \in [0 .. r.n -> X] /\ h[0] = base /\ a = h[r.n]
      /\ \A k \in 1 .. r.n : h[k] = MapUserStep(s, r, h[k - 1], k)
  BY <1>4 DEF UserLoop
<1> DEFINE S == {k \in 0 .. r.n : UserMapped(m, h[k], R, H, s, r, k)}
<1>6. 0 \in S
  <2>1. base.m = m
    OBVIOUS
  <2>2. UserMapped(m, base, R, H, s, r, 0)
    <3> HIDE DEF base
    <3> QED BY <2>1 DEF UserMapped
  <2> QED BY <1>1, <1>5, <2>2
<1>7. ASSUME NEW k \in 0 .. r.n - 1, k \in S PROVE k + 1 \in S
  <2>1. PICK j \in 1 .. r.n : j = k + 1 /\ j - 1 = k
    BY <1>1
  <2>2. PICK b, c : b = h[k] /\ c = h[j]
    OBVIOUS
  <2>3. c = MapUserStep(s, r, b, j)
    BY <1>5, <2>1, <2>2
  <2>4. UserMapped(m, b, R, H, s, r, j - 1)
    BY <1>7, <2>1, <2>2
  <2>5. Result(b, R, H)
    <3>1. k \in 0 .. r.n
      BY <1>1
    <3>2. b \in X
      BY <1>5, <2>2, <3>1
    <3> QED BY <1>2, <3>2, Zenon
  <2>6. UserMapped(m, c, R, H, s, r, j)
    BY <2>3, <2>4, <2>5, MapUserNext
  <2> QED BY <2>1, <2>2, <2>6
<1>8. S = 0 .. r.n
  <2>1. S \in SUBSET (0 .. r.n)
    OBVIOUS
  <2> HIDE DEF S
  <2> QED BY <1>1, <1>6, <1>7, <2>1, AllNumbers
<1>9. Result(a, R, H)
  BY <1>1, <1>2, <1>5
<1> QED BY <1>1, <1>5, <1>8, <1>9

-----------------------------------------------------------------------------
(* Address spaces are made and destroyed.                                  *)

\* What vmm_create_address_space makes of memory when it got the table q of k, and
\* vmm_destroy_address_space of q.
WithKernel(m, k, q) ==
  [k EXCEPT !.tab[q] = [i \in Index |-> IF i \in Lower THEN Nothing ELSE m.tab[kernel_pgd][i]]]

\* The memory after vmm_destroy_address_space of the top table q.
WithoutUser(m, q) ==
  [m EXCEPT !.tab[q] = [i \in Index |-> IF i \in Lower THEN Nothing ELSE @[i]]]

\* The memory after vmm_create_address_space, when it got the table q.
Created(m, n, R, H, q) ==
  /\ q \in Tables /\ q \notin R /\ q \notin H
  /\ Ok(n, R \cup {q}, H) /\ LostOf(n, R \cup {q}, H) = LostOf(m, R, H)
  /\ SameMaps(m, n, R) /\ \A u \in Virtual : Leaf(n, q, u) = Nothing

\* A new table is a new address space, which maps nothing.
LEMMA RootMade ==
  ASSUME NEW m, NEW R, NEW H, NEW lv, Good(m, R, H, lv),
         NEW k, NEW q, NewTable(m, k, R, H, lv, q), NEW n, Cleared(k, n, q)
  PROVE  Created(m, n, R, H, q)
<1>1. /\ q \in Tables \ H /\ lv[q] = 4
      /\ \A t \in Tables \ {q} : k.tab[t] = m.tab[t]
      /\ Good(k, R, H \cup {q}, lv)
      /\ LostIn(k, R, H \cup {q}, lv) = LostIn(m, R, H, lv)
  BY DEF NewTable
<1>2. q \notin R
  BY <1>1 DEF Good
<1>3. PICK lw : RootAdded(k, n, R, H, q, lv, lw)
  <2>1. Spare(k, R, H, q, lv)
    BY <1>1 DEF Spare
  <2> QED BY <1>1, <2>1, NewRoot
<1>4. PICK S : S = R \cup {q}
  OBVIOUS
<1>5. Good(n, S, H, lw) /\ LostIn(n, S, H, lw) = LostIn(m, R, H, lv)
  BY <1>1, <1>3, <1>4 DEF RootAdded
<1>6. LostOf(n, S, H) = LostOf(m, R, H) /\ Ok(n, S, H)
  BY <1>5, LostLevels DEF Ok
<1>7. SameMaps(m, n, R)
  <2>1. \A t \in Tables : lv[t] <= 3 => n.tab[t] = m.tab[t]
    BY <1>1 DEF Cleared
  <2>2. ASSUME NEW r \in R, NEW u \in Nat PROVE Leaf(n, r, u) = Leaf(m, r, u)
    BY <2>1, SameLeaf
  <2> QED BY <2>2, VirtualNat DEF SameMaps
<1>8. ASSUME NEW u \in Virtual PROVE Leaf(n, q, u) = Nothing
  <2>1. u \in Nat /\ pte_index(u, 0) \in Index
    BY VirtualNat, IndexOf
  <2>2. n.tab[q][pte_index(u, 0)] = Nothing
    BY <2>1 DEF Cleared, Empty
  <2>3. Node1(n, q, u) = NoPage
    BY <2>2, NothingIsNone DEF Node1, Child
  <2>4. Node3(n, q, u) = NoPage
    BY <2>3 DEF Node2, Node3, Child
  <2> QED BY <1>1, <2>4, LeafNode
<1> QED BY <1>1, <1>2, <1>4, <1>6, <1>7, <1>8 DEF Created

\* An address space is left; its tables and pages are not freed.
LEMMA RootGone ==
  ASSUME NEW m, NEW R, NEW H, NEW lv, Good(m, R, H, lv), NEW q \in R,
         NEW n, Cleared(m, n, q)
  PROVE  Ok(n, R \ {q}, H) /\ SameMaps(m, n, R \ {q})
<1>1. PICK lw : RootDropped(m, n, R, H, q, lw)
  BY DropRoot
<1>2. PICK S : S = R \ {q}
  OBVIOUS
<1>3. Good(n, S, H, lw) /\ \A t \in Tables : lw[t] <= 3 => m.tab[t] = n.tab[t]
  BY <1>1, <1>2 DEF RootDropped
<1>4. ASSUME NEW r \in S, NEW u \in Nat PROVE Leaf(m, r, u) = Leaf(n, r, u)
  BY <1>3, SameLeaf
<1>5. SameMaps(m, n, S)
  BY <1>4, VirtualNat DEF SameMaps
<1> QED BY <1>2, <1>3, <1>5 DEF Ok

\* vmm_create_address_space with a table: the upper half of kernel_pgd is empty,
\* so is the new top table.
LEMMA CreateKept ==
  ASSUME NEW m, NEW R, NEW H, Ok(m, R, H), kernel_pgd \in R,
         NEW x, x = alloc_page_table(m), x.page # NoPage,
         NEW n, n = WithKernel(m, x.m, x.page)
  PROVE  Created(m, n, R, H, x.page)
<1>1. PICK lv : Good(m, R, H, lv)
  BY DEF Ok
<1>2. PICK k, q : k = x.m /\ q = x.page
  OBVIOUS
<1>3. NewTable(m, k, R, H, lv, q)
  <2>1. x = [m |-> m, page |-> NoPage] => x.page = NoPage
    OBVIOUS
  <2> QED BY <1>1, <1>2, <2>1, AllocPageTable
<1>4. n = Wiped(k, q)
  <2>1. kernel_pgd \in Tables /\ lv[kernel_pgd] = 0
    BY <1>1, TableNumbers DEF Good
  <2>2. \A i \in Index : i \notin Lower => m.tab[kernel_pgd][i] = Nothing
    BY <1>1, <2>1 DEF Good
  <2>3. PICK e : e = [i \in Index |-> IF i \in Lower THEN Nothing ELSE m.tab[kernel_pgd][i]]
    OBVIOUS
  <2>4. e = Empty
    BY <2>2, <2>3 DEF Empty
  <2> QED BY <1>2, <2>3, <2>4 DEF Wiped, WithKernel
<1>5. Cleared(k, n, q)
  <2>1. k \in Memory /\ q \in Tables
    BY <1>3 DEF Good, NewTable
  <2> QED BY <1>4, <2>1, SetTable
<1>6. Created(m, n, R, H, q)
  BY <1>1, <1>3, <1>5, RootMade, Zenon
<1> QED BY <1>2, <1>6

\* vmm_create_address_space without a table changes no memory.
LEMMA CreateFails ==
  ASSUME NEW m, NEW R, NEW H, Ok(m, R, H), NEW x, x = alloc_page_table(m), x.page = NoPage
  PROVE  x.m = m
<1>1. PICK lv : Good(m, R, H, lv)
  BY DEF Ok
<1>2. x = [m |-> m, page |-> NoPage] \/ NewTable(m, x.m, R, H, lv, x.page)
  BY <1>1, AllocPageTable
<1>3. ~ NewTable(m, x.m, R, H, lv, x.page)
  BY TableNumbers DEF NewTable
<1> QED BY <1>2, <1>3

\* The memory after vmm_destroy_address_space of q.
LEMMA DestroyKept ==
  ASSUME NEW m, NEW R, NEW H, Ok(m, R, H), NEW q \in R, NEW n, n = WithoutUser(m, q)
  PROVE  Ok(n, R \ {q}, H) /\ SameMaps(m, n, R \ {q})
<1>1. PICK lv : Good(m, R, H, lv)
  BY DEF Ok
<1>2. q \in Tables /\ lv[q] = 0 /\ m \in Memory
  BY <1>1 DEF Good
<1>3. n = Wiped(m, q)
  <2>1. \A i \in Index : i \notin Lower => m.tab[q][i] = Nothing
    BY <1>1, <1>2 DEF Good
  <2>2. PICK e : e = [i \in Index |-> IF i \in Lower THEN Nothing ELSE m.tab[q][i]]
    OBVIOUS
  <2>3. e = Empty
    BY <2>1, <2>2 DEF Empty
  <2>4. n = [m EXCEPT !.tab[q] = e]
    BY <1>2, <2>2 DEF Memory, WithoutUser
  <2> QED BY <2>3, <2>4 DEF Wiped
<1>4. Cleared(m, n, q)
  BY <1>2, <1>3, SetTable
<1> QED BY <1>1, <1>4, RootGone, Zenon

-----------------------------------------------------------------------------
(* The inductive invariant.                                                *)

\* The memory that is not the address spaces'.
Taken == HeldPages \cup KernelPages

\* The blocks that are held are blocks of pages that nobody else has.
BlocksInv ==
  /\ \A b \in held : /\ b = [start |-> b.start, n |-> b.n]
                     /\ b.start \in Pages /\ b.n \in Nat \ {0}
                     /\ Block(b.start, b.n) \subseteq Pages \ KernelPages
  /\ \A b, c \in held : b # c => Block(b.start, b.n) \cap Block(c.start, c.n) = {}

\* The address spaces of a pool, their top tables, and that each has its own.
LiveOf(p) == {k \in DOMAIN p : p[k].pgd # NoPage}

\* Their top tables and the kernel's.
RootsOf(p) == {kernel_pgd} \cup {p[k].pgd : k \in LiveOf(p)}

\* No two of them have the same top table, or the kernel's.
PoolInv(p) ==
  /\ p \in Seq([pgd : Tables \cup {NoPage}, vma_list : SUBSET UserRanges])
  /\ Len(p) <= MmPool
  /\ \A j, k \in LiveOf(p) : p[j].pgd = p[k].pgd => j = k
  /\ \A k \in LiveOf(p) : p[k].pgd # kernel_pgd

\* The pool, the VMAs taken, and the tables of the CPU.
SpacesInv == PoolInv(mms) /\ vma_index \in 0 .. VmaPool /\ ttbr0 \in Tables

\* What the tables lead to is a forest with these roots, apart from what is taken.
IInv == Ok(mem, Roots, Taken) /\ BlocksInv /\ SpacesInv /\ MappedInVma

-----------------------------------------------------------------------------
(* What the forest says of the state.                                      *)

\* The definitions of Vm in these terms: the pool,
LEMMA PoolIs == Live = LiveOf(mms) /\ Roots = RootsOf(mms)
BY DEF Live, Roots, LiveOf, RootsOf

\* the live tables,
LEMMA LiveTablesAre == LiveTables = LiveIn(mem, Roots)
BY DEF LiveTables, PointedTo, LiveIn, Pointed

\* the addresses,
LEMMA AddressesVirtual == \A v \in Addresses : v \in Virtual
<1>1. \A v \in 0 .. USER_VMA_END - 1 : v \in Virtual
  <2>1. USER_VMA_END \in Nat
    BY Entries, Spans, Product DEF USER_VMA_END
  <2> QED BY <2>1, LowerHalf DEF Virtual
<1>2. /\ KernelText \in 0 .. USER_VMA_END - 1
      /\ \A r \in Devices \cup {Stack} : Span(r) \subseteq 0 .. USER_VMA_END - 1
      /\ \A r \in Ranges \cup UserRanges : Span(r) \subseteq Virtual
  BY VmAssumption DEF Virtual
<1>3. ASSUME NEW v \in Addresses PROVE v \in Virtual
  <2>1. v = KernelText \/ \E r \in Ranges \cup UserRanges \cup Devices \cup {Stack} : v \in Span(r)
    BY DEF Addresses
  <2>2. ASSUME NEW r \in Ranges \cup UserRanges \cup Devices \cup {Stack}, v \in Span(r)
        PROVE  v \in Virtual
    BY <1>1, <1>2, <2>2
  <2> QED BY <1>1, <1>2, <2>1, <2>2
<1> QED BY <1>3

\* the references and the lost pages.
LEMMA ReferencesAre ==
  ASSUME Ok(mem, Roots, Taken)
  PROVE  /\ \A x : x \in References
                     <=> /\ x \in LiveIn(mem, Roots) \X Index
                         /\ mem.tab[x[1]][x[2]].to \in Tables
         /\ {mem.tab[x[1]][x[2]].to : x \in References} = Refs(mem, Roots)
         /\ Lost = LostOf(mem, Roots, Taken)
<1>1. PICK lv : Good(mem, Roots, Taken, lv)
  BY DEF Ok
<1>2. PICK T : T = LiveIn(mem, Roots)
  OBVIOUS
<1>3. T = {t \in Tables : lv[t] <= 3}
  BY <1>1, <1>2, LiveLevels
<1>4. \A t \in T, i \in Index : mem.tab[t][i].kind = "none" => mem.tab[t][i].to \notin Tables
  <2> SUFFICES ASSUME NEW t \in T, NEW i \in Index, mem.tab[t][i].kind = "none"
               PROVE  mem.tab[t][i].to \notin Tables
    OBVIOUS
  <2>1. GoodEntry(mem, Taken, lv, t, mem.tab[t][i])
    BY <1>1, <1>3 DEF Good
  <2> QED BY <2>1, NothingIsNone DEF GoodEntry
<1>5. \A x : x \in References <=> x \in T \X Index /\ mem.tab[x[1]][x[2]].to \in Tables
  <2>1. \A x \in T \X Index : x[1] \in T /\ x[2] \in Index
    OBVIOUS
  <2>2. References = {x \in T \X Index : mem.tab[x[1]][x[2]].kind # "none"
                                          /\ mem.tab[x[1]][x[2]].to \in Tables}
    BY <1>2, LiveTablesAre DEF References
  <2> QED BY <1>4, <2>1, <2>2
<1>6. {mem.tab[x[1]][x[2]].to : x \in References} = Refs(mem, Roots)
  <2> DEFINE A == {mem.tab[x[1]][x[2]].to : x \in References}
  <2>1. ASSUME NEW q \in A PROVE q \in Refs(mem, Roots)
    <3>1. PICK x \in References : q = mem.tab[x[1]][x[2]].to
      OBVIOUS
    <3>2. x \in T \X Index /\ mem.tab[x[1]][x[2]].to \in Tables
      BY <1>5
    <3>3. x[1] \in T /\ x[2] \in Index
      BY <3>2
    <3> QED BY <1>2, <3>1, <3>2, <3>3 DEF Refs
  <2>2. ASSUME NEW q \in Refs(mem, Roots) PROVE q \in A
    <3>1. q \in Tables /\ \E t \in T, i \in Index : mem.tab[t][i].to = q
      BY <1>2 DEF Refs
    <3>2. PICK t \in T, i \in Index : mem.tab[t][i].to = q
      BY <3>1
    <3>3. PICK x : x = <<t, i>>
      OBVIOUS
    <3>4. x \in T \X Index /\ x[1] = t /\ x[2] = i
      BY <3>3
    <3>5. x \in References /\ q = mem.tab[x[1]][x[2]].to
      BY <1>5, <3>1, <3>2, <3>4
    <3> QED BY <3>5
  <2> QED BY <2>1, <2>2
<1>7. Lost = LostOf(mem, Roots, Taken)
  <2>1. PICK A : A = {mem.tab[x[1]][x[2]].to : x \in References}
    OBVIOUS
  <2>2. Lost = mem.used \ (KernelPages \cup Roots \cup HeldPages \cup A)
    BY <2>1, Zenon DEF Lost
  <2>3. LostOf(mem, Roots, Taken)
          = mem.used \ (Roots \cup (HeldPages \cup KernelPages) \cup A)
    BY <1>6, <2>1, Zenon DEF LostOf, Taken
  <2> QED BY <2>2, <2>3
<1> QED BY <1>2, <1>5, <1>6, <1>7

\* In such a forest every page has one purpose.
LEMMA Purposes ==
  ASSUME Ok(mem, Roots, Taken), BlocksInv, SpacesInv
  PROVE  OnePurpose
<1>1. PICK lv : Good(mem, Roots, Taken, lv)
  BY DEF Ok
<1>2. LiveIn(mem, Roots) = {t \in Tables : lv[t] <= 3}
  BY <1>1, LiveLevels
<1>3. ASSUME NEW x \in References
      PROVE  /\ x[1] \in Tables /\ lv[x[1]] <= 3 /\ x[2] \in Index /\ x = <<x[1], x[2]>>
             /\ mem.tab[x[1]][x[2]].to \in Tables
  <2>1. x \in LiveIn(mem, Roots) \X Index /\ mem.tab[x[1]][x[2]].to \in Tables
    BY ReferencesAre
  <2> QED BY <1>2, <2>1
<1>4. \A x, y \in References : mem.tab[x[1]][x[2]].to = mem.tab[y[1]][y[2]].to => x = y
  BY <1>1, <1>3 DEF Good
<1>5. ASSUME NEW x \in References
      PROVE  /\ mem.tab[x[1]][x[2]].to \notin Roots \cup Taken
             /\ mem.tab[x[1]][x[2]].to \in Pages => mem.tab[x[1]][x[2]].to \in mem.used
  <2>1. PICK t, i, e : t = x[1] /\ i = x[2] /\ e = mem.tab[t][i]
    OBVIOUS
  <2>2. t \in Tables /\ i \in Index /\ lv[t] <= 3 /\ e.to \in Tables
    BY <1>3, <2>1
  <2>3. PICK q : q = e.to /\ q \in Tables
    BY <2>2
  <2>4. GoodEntry(mem, Taken, lv, t, e)
    BY <1>1, <2>1, <2>2 DEF Good
  <2>5. mem \in Memory /\ lv \in [Tables -> 0 .. 4]
    BY <1>1 DEF Good
  <2>6. \/ lv[q] \in 1 .. 3
        \/ q \in Pages /\ q \in mem.used \ Taken /\ lv[q] = 4
    BY <2>2, <2>3, <2>4, <2>5, NothingIsNone, TableNumbers DEF GoodEntry
  <2>7. /\ lv[q] = 0 <=> q \in Roots
        /\ lv[q] <= 3 => q \in InUse(mem) \ Taken
    BY <1>1, <2>3 DEF Good
  <2>8. q \notin Roots \cup Taken /\ (q \in Pages => q \in mem.used)
    BY <2>5, <2>6, <2>7, UsedInUse
  <2> QED BY <2>1, <2>3, <2>8
<1>6. HeldPages \subseteq mem.used \ (Roots \cup KernelPages)
  <2>1. HeldPages \subseteq Pages \ KernelPages
    BY DEF HeldPages, BlocksInv
  <2>2. HeldPages \subseteq InUse(mem) /\ Roots \cap Taken = {} /\ mem \in Memory
    BY <1>1 DEF Good, Taken
  <2> QED BY <2>1, <2>2, UsedInUse DEF Taken
<1>7. Taken = HeldPages \cup KernelPages
  BY DEF Taken
<1>8. \A j, k \in Live : mms[j].pgd = mms[k].pgd => j = k
  BY PoolIs DEF SpacesInv, PoolInv
<1> QED BY <1>4, <1>5, <1>6, <1>7, <1>8 DEF OnePurpose, BlocksInv

\* The invariant is stronger than MemoryConsistent.
LEMMA Consistent == IInv => MemoryConsistent
<1> SUFFICES ASSUME IInv PROVE MemoryConsistent
  OBVIOUS
<1>1. OnePurpose
  BY Purposes DEF IInv
<1>2. TypeOK
  <2>1. mem \in Memory /\ mem.free = Cardinality(Pages \ mem.used)
    BY DEF IInv, Ok, Good
  <2> QED BY <2>1 DEF IInv, SpacesInv, PoolInv, TypeOK, Memory
<1> QED BY <1>1, <1>2 DEF IInv, MemoryConsistent

\* At boot there are no address spaces.
LEMMA NoSpaces ==
  ASSUME mms = <<>>
  PROVE  Live = {} /\ Roots = {kernel_pgd}
BY DEF Live, Roots

\* vmm_init makes a forest of kernel_pgd and the first early table.
LEMMA InitInv == Init => IInv
<1> SUFFICES ASSUME Init PROVE IInv
  OBVIOUS
<1>1. PICK l1 : l1 = NPages + 1
  OBVIOUS
<1>2. l1 \in Tables /\ l1 \notin Pages /\ l1 # kernel_pgd /\ kernel_pgd \in Tables
      /\ l1 \in Nat /\ Nothing \in Entry /\ TableEntry(l1) \in Entry
      /\ [kind |-> "block", to |-> NoPage] \in Entry
  <2>1. l1 \in EarlyTables /\ l1 \in Nat
    BY <1>1, TableNumbers DEF EarlyTables
  <2> QED BY <2>1, TableNumbers, NothingIsNone DEF Tables, TableEntry, Entry, NoPage
<1>3. PICK e : e = [kind |-> "block", to |-> NoPage]
  OBVIOUS
<1>4. /\ mem = [used |-> mem.used, free |-> mem.free, early |-> 1, tab |-> mem.tab]
      /\ mem.used = KernelPages /\ mem.free = Cardinality(Pages \ KernelPages)
      /\ mem.tab = [t \in Tables |-> [i \in Index |->
                     IF t = kernel_pgd /\ i = 0 THEN TableEntry(l1)
                     ELSE IF t = l1 /\ i \in BlockEntries THEN e ELSE Nothing]]
  BY <1>1, <1>3 DEF Init, pmm_init
<1>5. \A t \in Tables, i \in Index : mem.tab[t][i] =
         IF t = kernel_pgd /\ i = 0 THEN TableEntry(l1)
         ELSE IF t = l1 /\ i \in BlockEntries THEN e ELSE Nothing
  BY <1>4
<1>6. mem \in Memory
  <2>1. KernelPages \in SUBSET Pages /\ 1 \in 1 .. EARLY_TABLES_COUNT
    BY VmAssumption
  <2>2. Cardinality(Pages \ KernelPages) \in Int
    BY PagesFinite
  <2>3. mem.tab \in [Tables -> [Index -> Entry]]
    BY <1>2, <1>3, <1>4
  <2> QED BY <1>4, <2>1, <2>2, <2>3 DEF Memory
<1>7. PICK lv : lv = [t \in Tables |-> IF t = kernel_pgd THEN 0 ELSE IF t = l1 THEN 1 ELSE 4]
  OBVIOUS
<1>8. /\ lv \in [Tables -> 0 .. 4] /\ lv[kernel_pgd] = 0 /\ lv[l1] = 1
      /\ \A t \in Tables : t # kernel_pgd /\ t # l1 => lv[t] = 4
  BY <1>2, <1>7
<1>9. InUse(mem) = KernelPages \cup {kernel_pgd} \cup {l1}
  <2>1. NPages + 1 .. NPages + 1 = {l1}
    BY <1>1, TableNumbers
  <2>2. mem.early = 1 /\ mem.used = KernelPages
    BY <1>4
  <2>3. InUse(mem) = mem.used \cup {kernel_pgd} \cup (NPages + 1 .. NPages + mem.early)
    BY DEF InUse
  <2> QED BY <2>1, <2>2, <2>3
<1>10. kernel_pgd \notin KernelPages /\ l1 \notin KernelPages
  BY <1>2, TableNumbers, VmAssumption
<1>11. 0 \in Lower
  BY VmAssumption DEF Lower, Index
<1>12. PICK R, H : R = {kernel_pgd} /\ H = KernelPages
  OBVIOUS
<1>13. Good(mem, R, H, lv)
  <2>1. R \subseteq Tables /\ H \subseteq InUse(mem) /\ mem.free = Cardinality(Pages \ mem.used)
    BY <1>2, <1>4, <1>9, <1>12
  <2>2. \A t \in Tables : /\ lv[t] = 0 <=> t \in R
                          /\ lv[t] <= 3 => t \in InUse(mem) \ H
    BY <1>2, <1>8, <1>9, <1>10, <1>12
  <2>3. ASSUME NEW t \in Tables, NEW i \in Index, lv[t] <= 3
        PROVE  /\ GoodEntry(mem, H, lv, t, mem.tab[t][i])
               /\ lv[t] = 0 /\ i \notin Lower => mem.tab[t][i] = Nothing
    <3>1. t = kernel_pgd \/ t = l1
      BY <1>8, <2>3
    <3>2. TableEntry(l1).kind = "table" /\ TableEntry(l1).to = l1
      BY DEF TableEntry
    <3>3. e.kind = "block" /\ e.to = NoPage
      BY <1>3
    <3>4. CASE t = kernel_pgd /\ i = 0
      BY <1>2, <1>5, <1>8, <1>11, <3>2, <3>4 DEF GoodEntry
    <3>5. CASE ~ (t = kernel_pgd /\ i = 0)
      BY <1>2, <1>5, <1>8, <3>1, <3>3, <3>5 DEF GoodEntry
    <3> QED BY <3>4, <3>5
  <2>4. \A t \in Tables : lv[t] \in 1 .. 3 =>
          \E u \in Tables, i \in Index : lv[u] = lv[t] - 1 /\ mem.tab[u][i] = TableEntry(t)
    <3> SUFFICES ASSUME NEW t \in Tables, lv[t] \in 1 .. 3
                 PROVE \E u \in Tables, i \in Index :
                         lv[u] = lv[t] - 1 /\ mem.tab[u][i] = TableEntry(t)
      OBVIOUS
    <3>1. t = l1 /\ lv[t] = 1
      BY <1>8
    <3>2. 0 \in Index /\ mem.tab[kernel_pgd][0] = TableEntry(t)
      BY <1>2, <1>5, <1>11, <3>1 DEF Lower
    <3>3. kernel_pgd \in Tables /\ lv[kernel_pgd] = lv[t] - 1
      BY <1>2, <1>8, <3>1
    <3> QED BY <3>2, <3>3, Zenon
  <2>5. \A t, u \in Tables, i, j \in Index :
          lv[t] <= 3 /\ lv[u] <= 3 /\ mem.tab[t][i].to \in Tables
            /\ mem.tab[t][i].to = mem.tab[u][j].to
            => t = u /\ i = j
    <3>1. ASSUME NEW t \in Tables, NEW i \in Index, mem.tab[t][i].to \in Tables
          PROVE  t = kernel_pgd /\ i = 0
      <4>1. e.to \notin Tables /\ Nothing.to \notin Tables
        BY <1>3, NothingIsNone, TableNumbers
      <4> QED BY <1>5, <3>1, <4>1
    <3> QED BY <3>1
  <2> QED BY <1>6, <1>8, <2>1, <2>2, <2>3, <2>4, <2>5 DEF Good
<1>14. Live = {} /\ Roots = R /\ Taken = H /\ held = {}
  <2>1. mms = <<>> /\ held = {}
    BY DEF Init
  <2> QED BY <1>12, <2>1, NoSpaces DEF Taken, HeldPages
<1>15. SpacesInv
  <2>1. mms = <<>> /\ vma_index = 0 /\ ttbr0 = kernel_pgd /\ MmPool \in Nat /\ VmaPool \in Nat
    BY VmAssumption DEF Init
  <2> QED BY <1>2, <1>14, <2>1, PoolIs DEF SpacesInv, PoolInv
<1>16. BlocksInv /\ MappedInVma
  BY <1>14 DEF BlocksInv, MappedInVma
<1> QED BY <1>13, <1>14, <1>15, <1>16 DEF IInv, Ok

-----------------------------------------------------------------------------
(* Steps.                                                                  *)

\* What MapRangeAtomic, SpacesIsolated and LostOnlyByOverlap say of a step.
RangeStep ==
  /\ call'.op = "map_range" =>
       \A v \in Addresses :
         Leaf(mem', kernel_pgd, v) =
           IF call'.ok /\ v \in Span(call'.range) THEN PageEntry(Registers(v))
           ELSE Leaf(mem, kernel_pgd, v)
  /\ call'.op \in {"exec", "exec_lost"} =>
       \A v \in Addresses :
         Leaf(mem, kernel_pgd, v) \in {Nothing, Leaf(mem', kernel_pgd, v)}

\* The same of SpacesIsolated,
SpacesStep ==
  \A v \in Addresses :
    /\ call'.mm # 0 => Leaf(mem', kernel_pgd, v) = Leaf(mem, kernel_pgd, v)
    /\ \A k \in Live : k # call'.mm =>
         Leaf(mem', mms[k].pgd, v) = Leaf(mem, mms[k].pgd, v)

\* and of LostOnlyByOverlap.
LostStep ==
  Lost' \subseteq Lost \/ call'.op \in {"destroy", "exec_lost"}
    \/ (call'.op = "map_user" /\ Overlaps)

\* What every step is shown to do.
StepOk == IInv' /\ RangeStep /\ SpacesStep /\ LostStep

\* The lost pages, in terms of the pool.
LEMMA LostIs == IInv => Lost = LostOf(mem, RootsOf(mms), Taken)
BY ReferencesAre, PoolIs DEF IInv

\* The same after a step.
LEMMA LostIsNext == IInv' => Lost' = LostOf(mem', RootsOf(mms'), Taken')
<1>1. (IInv => Lost = LostOf(mem, RootsOf(mms), Taken))'
  BY LostIs, PTL
<1> QED BY <1>1 DEF LostOf, RootsOf, LiveOf, Refs, LiveIn, Pointed

\* The invariant, in terms of the pool.
LEMMA Now ==
  ASSUME IInv
  PROVE  /\ Ok(mem, RootsOf(mms), Taken) /\ PoolInv(mms) /\ BlocksInv /\ MappedInVma
         /\ kernel_pgd \in RootsOf(mms)
         /\ \A k \in LiveOf(mms) : mms[k].pgd \in RootsOf(mms) /\ mms[k].pgd # kernel_pgd
         /\ Lost = LostOf(mem, RootsOf(mms), Taken)
         /\ Live = LiveOf(mms) /\ vma_index \in 0 .. VmaPool /\ ttbr0 \in Tables
BY PoolIs, LostIs DEF IInv, SpacesInv, PoolInv, RootsOf

\* The invariant after a step, in terms of the pool.
LEMMA InvNext ==
  ASSUME Ok(mem', RootsOf(mms'), Taken'), PoolInv(mms'), BlocksInv', MappedInVma',
         vma_index' \in 0 .. VmaPool, ttbr0' \in Tables
  PROVE  IInv' /\ Lost' = LostOf(mem', RootsOf(mms'), Taken')
<1>1. IInv'
  <2>1. Roots' = RootsOf(mms')
    BY DEF Roots, Live, RootsOf, LiveOf
  <2>2. Ok(mem', Roots', Taken')
    BY <2>1
  <2> QED BY <2>2 DEF IInv, SpacesInv, Ok, PoolInv, LiveOf, Good, GoodEntry, InUse
<1> QED BY <1>1, LostIsNext

\* An address space that maps what it mapped, with its VMAs, or that maps nothing.
Inherits(k) ==
  \/ /\ k \in LiveOf(mms) /\ mms[k].vma_list \subseteq mms'[k].vma_list
     /\ \A v \in Virtual : Leaf(mem', mms'[k].pgd, v) = Leaf(mem, mms[k].pgd, v)
  \/ \A v \in Virtual : Leaf(mem', mms'[k].pgd, v) = Nothing

\* MappedInVma holds as long as nothing new is mapped.
LEMMA VmasKept ==
  ASSUME MappedInVma, vma_index' = vma_index, \A k \in LiveOf(mms') : Inherits(k)
  PROVE  MappedInVma'
<1> SUFFICES ASSUME vma_index < VmaPool, NEW k \in LiveOf(mms'), NEW v \in Addresses,
                    v < USER_VMA_END, Leaf(mem', mms'[k].pgd, v).kind # "none"
             PROVE  \E r \in mms'[k].vma_list : v \in Span(r)
  BY DEF MappedInVma, Live, LiveOf
<1>1. v \in Virtual /\ Nothing.kind = "none"
  BY AddressesVirtual, NothingIsNone
<1>2. /\ k \in LiveOf(mms) /\ mms[k].vma_list \subseteq mms'[k].vma_list
      /\ Leaf(mem', mms'[k].pgd, v) = Leaf(mem, mms[k].pgd, v)
  BY <1>1 DEF Inherits
<1> QED BY <1>2, PoolIs DEF MappedInVma

\* A step that leaves the address spaces alone, and maps what it maps.
LEMMA SpacesAlone ==
  ASSUME IInv, UNCHANGED <<mms, vma_index, ttbr0>>,
         Ok(mem', RootsOf(mms), Taken'), BlocksInv',
         SameMaps(mem, mem', RootsOf(mms) \ {kernel_pgd})
  PROVE  /\ IInv' /\ Lost' = LostOf(mem', RootsOf(mms), Taken')
         /\ \A k \in Live, v \in Addresses :
              Leaf(mem', mms[k].pgd, v) = Leaf(mem, mms[k].pgd, v)
<1>1. \A k \in LiveOf(mms), v \in Virtual : Leaf(mem', mms[k].pgd, v) = Leaf(mem, mms[k].pgd, v)
  BY Now DEF SameMaps
<1>2. \A k \in LiveOf(mms') : Inherits(k)
  BY <1>1 DEF Inherits
<1>3. MappedInVma'
  BY <1>2, Now, VmasKept
<1>4. IInv' /\ Lost' = LostOf(mem', RootsOf(mms'), Taken')
  <2>1. Ok(mem', RootsOf(mms'), Taken') /\ PoolInv(mms')
        /\ vma_index' \in 0 .. VmaPool /\ ttbr0' \in Tables
    BY Now
  <2> QED BY <1>3, <2>1, InvNext
<1> QED BY <1>1, <1>4, Now, AddressesVirtual

\* Nothing but call changes, or nothing but what is held and the bitmap.
LEMMA MapsAlone ==
  ASSUME IInv, UNCHANGED <<mms, vma_index, ttbr0>>,
         Ok(mem', RootsOf(mms), Taken'), BlocksInv', SameMaps(mem, mem', RootsOf(mms)),
         LostOf(mem', RootsOf(mms), Taken') = LostOf(mem, RootsOf(mms), Taken),
         call'.op \notin {"map_range", "exec", "exec_lost"}
  PROVE  StepOk
<1>1. SameMaps(mem, mem', RootsOf(mms) \ {kernel_pgd})
  BY DEF SameMaps
<1>2. /\ IInv' /\ Lost' = LostOf(mem', RootsOf(mms), Taken')
      /\ \A k \in Live, v \in Addresses :
           Leaf(mem', mms[k].pgd, v) = Leaf(mem, mms[k].pgd, v)
  BY <1>1, SpacesAlone
<1>3. Lost' = Lost
  BY <1>2, Now
<1>4. \A v \in Addresses : Leaf(mem', kernel_pgd, v) = Leaf(mem, kernel_pgd, v)
  BY Now, AddressesVirtual DEF SameMaps
<1> QED BY <1>2, <1>3, <1>4 DEF StepOk, RangeStep, SpacesStep, LostStep

\* alloc_stack keeps the forest and maps nothing.
LEMMA HoldStep ==
  ASSUME IInv, HoldPages(StackPages)
  PROVE  StepOk
<1>1. PICK a : a = pmm_alloc_pages(mem, StackPages)
  OBVIOUS
<1>2. /\ mem' = a.m /\ UNCHANGED <<mms, vma_index, ttbr0>>
      /\ held' = IF a.page = NoPage THEN held
                 ELSE held \cup {[start |-> a.page, n |-> StackPages]}
      /\ call'.op = "alloc"
  BY <1>1 DEF HoldPages, Called
<1>3. PICK R : R = RootsOf(mms)
  OBVIOUS
<1>4. Ok(mem, R, Taken) /\ BlocksInv
  BY <1>3, Now
<1>5. StackPages \in Nat \ {0}
  BY VmAssumption
<1>6. CASE a = [m |-> mem, page |-> NoPage]
  <2>1. mem' = mem /\ held' = held
    BY <1>2, <1>6
  <2>2. Taken' = Taken /\ BlocksInv'
    BY <1>4, <2>1 DEF Taken, HeldPages, BlocksInv
  <2> QED BY <1>2, <1>3, <1>4, <2>1, <2>2, MapsAlone DEF SameMaps
<1>7. CASE a # [m |-> mem, page |-> NoPage]
  <2>1. PICK B, G : B = Block(a.page, StackPages) /\ G = Taken \cup B
    OBVIOUS
  <2>2. /\ a.page \in Pages /\ B \subseteq Pages \ InUse(mem)
        /\ Ok(a.m, R, G) /\ LostOf(a.m, R, G) = LostOf(mem, R, Taken)
        /\ SameMaps(mem, a.m, R)
    <3>1. BlockTaken(mem, a, R, Taken, StackPages)
      BY <1>1, <1>4, <1>5, <1>7, PagesAllocated
    <3> QED BY <2>1, <3>1 DEF BlockTaken
  <2>3. PICK new : new = [start |-> a.page, n |-> StackPages]
    OBVIOUS
  <2>4. held' = held \cup {new} /\ Block(new.start, new.n) = B
    <3>1. a.page # NoPage
      BY <2>2, TableNumbers
    <3> QED BY <1>2, <2>1, <2>3, <3>1
  <2>5. HeldPages' = HeldPages \cup B
    <3>1. HeldPages' = UNION {Block(b.start, b.n) : b \in held'}
      BY DEF HeldPages
    <3> QED BY <2>4, <3>1 DEF HeldPages
  <2>6. Taken' = G
    BY <2>1, <2>5 DEF Taken
  <2>7. BlocksInv'
    <3>1. HeldPages \subseteq InUse(mem) /\ KernelPages \subseteq InUse(mem)
      BY <1>4 DEF Ok, Good, Taken
    <3>2. \A b \in held : Block(b.start, b.n) \cap B = {}
      BY <2>2, <3>1 DEF HeldPages
    <3>3. \A b \in held' : b \in held \/ b = new
      BY <2>4
    <3>4. /\ new = [start |-> new.start, n |-> new.n] /\ new.start \in Pages
          /\ new.n \in Nat \ {0} /\ Block(new.start, new.n) \subseteq Pages \ KernelPages
      BY <1>5, <2>2, <2>3, <2>4, <3>1
    <3>5. \A b \in held' : /\ b = [start |-> b.start, n |-> b.n]
                           /\ b.start \in Pages /\ b.n \in Nat \ {0}
                           /\ Block(b.start, b.n) \subseteq Pages \ KernelPages
      BY <1>4, <3>3, <3>4 DEF BlocksInv
    <3>6. \A b, c \in held' : b # c => Block(b.start, b.n) \cap Block(c.start, c.n) = {}
      BY <1>4, <2>4, <3>2, <3>3 DEF BlocksInv
    <3> QED BY <3>5, <3>6 DEF BlocksInv
  <2>8. PICK k : k = mem'
    OBVIOUS
  <2>9. Ok(mem', R, Taken') /\ LostOf(mem', R, Taken') = LostOf(mem, R, Taken)
        /\ SameMaps(mem, mem', R)
    BY <1>2, <2>2, <2>6
  <2> QED BY <1>2, <1>3, <2>7, <2>9, MapsAlone
<1> QED BY <1>6, <1>7

\* pmm_free_pages of a block that was held.
LEMMA ReleaseStep ==
  ASSUME IInv, NEW b \in held, ReleasePages(b)
  PROVE  StepOk
<1>1. /\ mem' = pmm_free_pages(mem, b.start, b.n) /\ held' = held \ {b}
      /\ UNCHANGED <<mms, vma_index, ttbr0>> /\ call'.op = "free"
  BY DEF ReleasePages, Called
<1>2. PICK R : R = RootsOf(mms)
  OBVIOUS
<1>3. Ok(mem, R, Taken) /\ BlocksInv
  BY <1>2, Now
<1>4. PICK s, n, B : s = b.start /\ n = b.n /\ B = Block(s, n)
  OBVIOUS
<1>5. s \in Nat /\ n \in Nat \ {0} /\ B \subseteq Pages \ KernelPages
      /\ \A c \in held : c # b => Block(c.start, c.n) \cap B = {}
  BY <1>3, <1>4, TableNumbers DEF BlocksInv
<1>6. HeldPages' = HeldPages \ B /\ B \subseteq HeldPages
  <2>1. HeldPages' = UNION {Block(c.start, c.n) : c \in held'}
    BY DEF HeldPages
  <2>2. B \subseteq HeldPages
    BY <1>4 DEF HeldPages
  <2>3. HeldPages' \subseteq HeldPages \ B
    BY <1>1, <1>5, <2>1 DEF HeldPages
  <2>4. HeldPages \ B \subseteq HeldPages'
    <3> SUFFICES ASSUME NEW p \in HeldPages, p \notin B PROVE p \in HeldPages'
      OBVIOUS
    <3>1. PICK c \in held : p \in Block(c.start, c.n)
      BY DEF HeldPages
    <3>2. c # b
      BY <1>4, <3>1
    <3> QED BY <1>1, <2>1, <3>1, <3>2
  <2> QED BY <2>2, <2>3, <2>4
<1>7. PICK H : H = Taken'
  OBVIOUS
<1>8. Taken = H \cup Block(s, n) /\ H \cap Block(s, n) = {} /\ Block(s, n) \subseteq Pages
  BY <1>4, <1>5, <1>6, <1>7 DEF Taken
<1>9. Ok(mem, R, H \cup Block(s, n))
  BY <1>3, <1>8
<1>10. PICK k : k = mem'
  OBVIOUS
<1>11. /\ Ok(k, R, H) /\ LostOf(k, R, H) = LostOf(mem, R, H \cup Block(s, n))
       /\ SameMaps(mem, k, R)
  <2>1. k = pmm_free_pages(mem, s, n)
    BY <1>1, <1>4, <1>10
  <2> QED BY <1>5, <1>8, <1>9, <2>1, PagesFreed
<1>12. BlocksInv'
  BY <1>1, <1>3 DEF BlocksInv
<1>13. Ok(mem', R, Taken') /\ LostOf(mem', R, Taken') = LostOf(mem, R, Taken)
       /\ SameMaps(mem, mem', R)
  BY <1>7, <1>8, <1>10, <1>11
<1> QED BY <1>1, <1>2, <1>12, <1>13, MapsAlone

\* Ranges of the configuration.
LEMMA ConfiguredRanges ==
  /\ \A r \in Devices \cup {Stack} : InLowerHalf(r)
  /\ ProgramsInLowerHalf => \A r \in Ranges : InLowerHalf(r)
  /\ \A r \in UserRanges : UserRange(r)
BY VmAssumption DEF InLowerHalf, UserRange, Virtual, ProgramsInLowerHalf

\* What a step has done that only the kernel's tables saw.
LEMMA KernelAlone ==
  ASSUME IInv, UNCHANGED <<mms, vma_index, held, ttbr0>>,
         Ok(mem', RootsOf(mms), Taken),
         LostOf(mem', RootsOf(mms), Taken) = LostOf(mem, RootsOf(mms), Taken),
         \A x \in RootsOf(mms), u \in Virtual :
           x # kernel_pgd => Leaf(mem', x, u) = Leaf(mem, x, u),
         call'.mm = 0, call'.op \notin {"exec", "exec_lost"},
         call'.op = "map_range" =>
           \A v \in Addresses :
             Leaf(mem', kernel_pgd, v) =
               IF call'.ok /\ v \in Span(call'.range) THEN PageEntry(Registers(v))
               ELSE Leaf(mem, kernel_pgd, v)
  PROVE  StepOk
<1>1. Taken' = Taken /\ BlocksInv'
  BY Now DEF Taken, HeldPages, BlocksInv
<1>2. SameMaps(mem, mem', RootsOf(mms) \ {kernel_pgd})
  BY DEF SameMaps
<1>3. Ok(mem', RootsOf(mms), Taken')
  BY <1>1
<1>4. /\ IInv' /\ Lost' = LostOf(mem', RootsOf(mms), Taken')
      /\ \A k \in Live, v \in Addresses :
           Leaf(mem', mms[k].pgd, v) = Leaf(mem, mms[k].pgd, v)
  BY <1>1, <1>2, <1>3, SpacesAlone
<1>5. Lost' = Lost
  <2>1. Lost = LostOf(mem, RootsOf(mms), Taken)
    BY Now
  <2>2. Lost' = LostOf(mem', RootsOf(mms), Taken)
    BY <1>1, <1>4
  <2> QED BY <2>1, <2>2
<1>6. RangeStep
  BY DEF RangeStep
<1>7. SpacesStep
  BY <1>4 DEF SpacesStep
<1> QED BY <1>4, <1>5, <1>6, <1>7 DEF StepOk, LostStep

\* vmm_map_range.
LEMMA MapDeviceStep ==
  ASSUME IInv, NEW r \in Devices, MapDevice(r)
  PROVE  StepOk
<1>1. PICK a : a = vmm_map_range(mem, r)
  OBVIOUS
<1>2. /\ mem' = a.m /\ UNCHANGED <<mms, vma_index, held, ttbr0>>
      /\ call'.op = "map_range" /\ call'.ok = a.ok /\ call'.mm = 0 /\ call'.range = r
  BY <1>1 DEF MapDevice, Called
<1>3. PICK R : R = RootsOf(mms)
  OBVIOUS
<1>4. Ok(mem, R, Taken) /\ kernel_pgd \in R
  BY <1>3, Now
<1>5. InLowerHalf(r)
  BY ConfiguredRanges
<1>6. Result(a, R, Taken) /\ RangeMapped(mem, a, R, Taken, r, r.n)
  BY <1>1, <1>4, <1>5, MapRangeKept
<1>7. First(r, r.n) = Span(r)
  BY DEF First, Span
<1>8. /\ Ok(mem', R, Taken) /\ LostOf(mem', R, Taken) = LostOf(mem, R, Taken)
      /\ \A x \in R, u \in Virtual : x # kernel_pgd => Leaf(mem', x, u) = Leaf(mem, x, u)
      /\ \A u \in Virtual : Leaf(mem', kernel_pgd, u) =
           IF a.ok /\ u \in Span(r) THEN PageEntry(Registers(u)) ELSE Leaf(mem, kernel_pgd, u)
  <2>1. PICK k : k = mem'
    OBVIOUS
  <2>2. k = a.m
    BY <1>2, <2>1
  <2>3. /\ Ok(k, R, Taken) /\ LostOf(k, R, Taken) = LostOf(mem, R, Taken)
        /\ \A x \in R, u \in Virtual : x # kernel_pgd => Leaf(k, x, u) = Leaf(mem, x, u)
        /\ \A u \in Virtual : Leaf(k, kernel_pgd, u) =
             IF a.ok /\ u \in Span(r) THEN PageEntry(Registers(u)) ELSE Leaf(mem, kernel_pgd, u)
    BY <1>4, <1>6, <1>7, <2>2 DEF Result, RangeMapped
  <2> QED BY <2>1, <2>3
<1>9. \A v \in Addresses :
        Leaf(mem', kernel_pgd, v) =
          IF call'.ok /\ v \in Span(call'.range) THEN PageEntry(Registers(v))
          ELSE Leaf(mem, kernel_pgd, v)
  BY <1>2, <1>8, AddressesVirtual
<1> QED BY <1>2, <1>3, <1>8, <1>9, KernelAlone

\* vmm_unmap_range of what a driver mapped.
LEMMA UnmapDeviceStep ==
  ASSUME IInv, NEW r \in Devices, UnmapDevice(r)
  PROVE  StepOk
<1>1. PICK k : k = mem'
  OBVIOUS
<1>2. /\ k = vmm_unmap_range(mem, r) /\ UNCHANGED <<mms, vma_index, held, ttbr0>>
      /\ call'.op = "unmap_range" /\ call'.mm = 0
      /\ \A v \in Span(r) : Leaf(mem, kernel_pgd, v) = PageEntry(Registers(v))
  BY <1>1 DEF UnmapDevice, Called
<1>3. PICK R : R = RootsOf(mms)
  OBVIOUS
<1>4. Ok(mem, R, Taken) /\ kernel_pgd \in R
  BY <1>3, Now
<1>5. InLowerHalf(r)
  BY ConfiguredRanges
<1>6. Unmapped(mem, k, R, Taken, r, r.n)
  BY <1>2, <1>4, <1>5, UnmapRangeKept
<1>7. \A v \in Span(r) : Leaf(mem, kernel_pgd, v).to \notin Tables
  BY <1>2, <1>5, RegistersOutside DEF InLowerHalf, Span
<1>8. /\ Ok(k, R, Taken) /\ LostOf(k, R, Taken) = LostOf(mem, R, Taken)
      /\ \A x \in R, u \in Virtual : x # kernel_pgd => Leaf(k, x, u) = Leaf(mem, x, u)
  BY <1>6, <1>7 DEF Unmapped
<1>9. /\ Ok(mem', R, Taken) /\ LostOf(mem', R, Taken) = LostOf(mem, R, Taken)
      /\ \A x \in R, u \in Virtual : x # kernel_pgd => Leaf(mem', x, u) = Leaf(mem, x, u)
  BY <1>1, <1>8
<1> QED BY <1>2, <1>3, <1>9, KernelAlone

\* vmm_switch_address_space changes no memory.
LEMMA SwitchStep ==
  ASSUME IInv, NEW k, vmm_switch_address_space(k)
  PROVE  StepOk
<1>1. /\ UNCHANGED <<mem, mms, vma_index, held>> /\ ttbr0' = mms[k].pgd /\ k \in Live
      /\ call'.op = "switch"
  BY DEF vmm_switch_address_space, Called
<1>2. ttbr0' \in Tables /\ RootsOf(mms') = RootsOf(mms) /\ Taken' = Taken
  <2>1. mms[k].pgd \in RootsOf(mms) /\ Ok(mem, RootsOf(mms), Taken)
    BY <1>1, Now
  <2> QED BY <1>1, <2>1 DEF Ok, Good, RootsOf, LiveOf, Taken, HeldPages
<1>3. MappedInVma'
  <2>1. \A j \in LiveOf(mms') : Inherits(j)
    BY <1>1 DEF Inherits
  <2> QED BY <1>1, <2>1, Now, VmasKept
<1>4. IInv' /\ Lost' = LostOf(mem', RootsOf(mms'), Taken')
  <2>1. /\ BlocksInv' /\ PoolInv(mms') /\ vma_index' \in 0 .. VmaPool
        /\ Ok(mem', RootsOf(mms'), Taken')
    BY <1>1, <1>2, Now DEF BlocksInv
  <2> QED BY <1>2, <1>3, <2>1, InvNext
<1>5. Lost' = Lost
  BY <1>1, <1>2, <1>4, Now
<1>6. RangeStep /\ SpacesStep
  BY <1>1 DEF RangeStep, SpacesStep
<1> QED BY <1>4, <1>5, <1>6 DEF StepOk, LostStep

\* Nothing happens.
LEMMA StutterStep ==
  ASSUME IInv, UNCHANGED vars
  PROVE  IInv'
<1>1. UNCHANGED <<mem, mms, vma_index, held, ttbr0>>
  BY DEF vars
<1>2. RootsOf(mms') = RootsOf(mms) /\ Taken' = Taken /\ BlocksInv'
  BY <1>1, Now DEF RootsOf, LiveOf, Taken, HeldPages, BlocksInv
<1>3. MappedInVma'
  <2>1. \A j \in LiveOf(mms') : Inherits(j)
    BY <1>1 DEF Inherits
  <2> QED BY <1>1, <2>1, Now, VmasKept
<1>4. /\ Ok(mem', RootsOf(mms'), Taken') /\ PoolInv(mms')
      /\ vma_index' \in 0 .. VmaPool /\ ttbr0' \in Tables
  BY <1>1, <1>2, Now
<1> QED BY <1>2, <1>3, <1>4, InvNext

-----------------------------------------------------------------------------
(* Steps that change mm_pool.                                              *)

\* An address space leaves the pool p.
Dropped(p, k) == [p EXCEPT ![k] = NoMm]

\* The others stay as they are.
LEMMA PoolDropped ==
  ASSUME NEW p, PoolInv(p), NEW k \in LiveOf(p), NEW q, q = Dropped(p, k)
  PROVE  /\ PoolInv(q) /\ RootsOf(q) = RootsOf(p) \ {p[k].pgd}
         /\ LiveOf(q) = LiveOf(p) \ {k} /\ \A j \in LiveOf(q) : q[j] = p[j]
<1>1. PICK M : M = [pgd : Tables \cup {NoPage}, vma_list : SUBSET UserRanges]
  OBVIOUS
<1>2. /\ p \in Seq(M) /\ Len(p) <= MmPool /\ k \in DOMAIN p
      /\ \A i, j \in LiveOf(p) : p[j].pgd = p[i].pgd => j = i
      /\ \A j \in LiveOf(p) : p[j].pgd # kernel_pgd
  BY <1>1 DEF PoolInv, LiveOf
<1>3. NoMm \in M /\ NoMm.pgd = NoPage
  BY <1>1 DEF NoMm
<1>4. /\ q \in Seq(M) /\ Len(q) = Len(p) /\ DOMAIN q = DOMAIN p
      /\ \A j \in DOMAIN q : q[j] = IF j = k THEN NoMm ELSE p[j]
  BY <1>2, <1>3 DEF Dropped
<1>5. LiveOf(q) = LiveOf(p) \ {k} /\ \A j \in LiveOf(q) : q[j] = p[j]
  BY <1>3, <1>4 DEF LiveOf
<1>6. RootsOf(q) = RootsOf(p) \ {p[k].pgd}
  <2>1. \A x : x \in RootsOf(q) <=> x = kernel_pgd \/ \E j \in LiveOf(q) : x = q[j].pgd
    BY DEF RootsOf
  <2>2. \A x : x \in RootsOf(p) <=> x = kernel_pgd \/ \E j \in LiveOf(p) : x = p[j].pgd
    BY DEF RootsOf
  <2> QED BY <1>2, <1>5, <2>1, <2>2
<1>7. PoolInv(q)
  BY <1>1, <1>2, <1>4, <1>5 DEF PoolInv
<1> QED BY <1>5, <1>6, <1>7

\* vmm_destroy_address_space: the others map what they mapped.
LEMMA DestroyStep ==
  ASSUME IInv, NEW k, vmm_destroy_address_space(k)
  PROVE  StepOk
<1>1. PICK q, n, p : q = mms[k].pgd /\ n = mem' /\ p = mms'
  OBVIOUS
<1>2. PICK R : R = RootsOf(mms)
  OBVIOUS
<1>3. /\ k \in LiveOf(mms) /\ ttbr0 # q /\ n = WithoutUser(mem, q) /\ p = Dropped(mms, k)
      /\ UNCHANGED <<vma_index, held, ttbr0>> /\ call'.op = "destroy" /\ call'.mm = k
  BY <1>1, PoolIs DEF vmm_destroy_address_space, Called, WithoutUser, Dropped
<1>4. /\ Ok(mem, R, Taken) /\ q \in R /\ q # kernel_pgd /\ PoolInv(mms) /\ BlocksInv
      /\ Live = LiveOf(mms) /\ kernel_pgd \in R
      /\ \A j \in LiveOf(mms) : mms[j].pgd \in R
      /\ \A j \in LiveOf(mms) : mms[j].pgd = q => j = k
  BY <1>1, <1>2, <1>3, Now DEF PoolInv
<1>5. Ok(n, R \ {q}, Taken) /\ SameMaps(mem, n, R \ {q})
  BY <1>3, <1>4, DestroyKept
<1>6. /\ PoolInv(p) /\ RootsOf(p) = R \ {q}
      /\ LiveOf(p) = LiveOf(mms) \ {k} /\ \A j \in LiveOf(p) : p[j] = mms[j]
  BY <1>1, <1>2, <1>3, <1>4, PoolDropped
<1>7. Taken' = Taken /\ BlocksInv'
  BY <1>3, <1>4 DEF Taken, HeldPages, BlocksInv
<1>8. /\ \A v \in Virtual : Leaf(mem', kernel_pgd, v) = Leaf(mem, kernel_pgd, v)
      /\ \A j \in LiveOf(mms), v \in Virtual : j # k
             => Leaf(mem', mms[j].pgd, v) = Leaf(mem, mms[j].pgd, v)
  BY <1>1, <1>4, <1>5 DEF SameMaps
<1>9. MappedInVma'
  <2>1. \A j \in LiveOf(mms') : Inherits(j)
    BY <1>1, <1>6, <1>8 DEF Inherits
  <2> QED BY <1>3, <2>1, Now, VmasKept
<1>10. IInv'
  <2>1. Ok(mem', RootsOf(mms'), Taken') /\ PoolInv(mms') /\ vma_index' \in 0 .. VmaPool
        /\ ttbr0' \in Tables
    BY <1>1, <1>3, <1>5, <1>6, <1>7, Now
  <2> QED BY <1>7, <1>9, <2>1, InvNext
<1>11. SpacesStep
  BY <1>3, <1>4, <1>8, AddressesVirtual DEF SpacesStep
<1> QED BY <1>3, <1>10, <1>11 DEF StepOk, RangeStep, LostStep
-----------------------------------------------------------------------------
(* vmm_create_address_space.                                               *)

\* An address space with the top table q enters the pool; NoPage is none.
Entered(p, q) == Append(p, [NoMm EXCEPT !.pgd = q])

\* The others stay as they are, and the new top table is one more root.
LEMMA PoolEntered ==
  ASSUME NEW p, PoolInv(p), Len(p) # MmPool,
         NEW q \in Tables \cup {NoPage}, q \notin RootsOf(p), NEW s, s = Entered(p, q)
  PROVE  /\ PoolInv(s) /\ \A j \in DOMAIN p : j \in DOMAIN s /\ s[j] = p[j]
         /\ \A j \in LiveOf(s) : j \in LiveOf(p) \/ s[j].pgd = q
         /\ \A j \in LiveOf(p) : j \in LiveOf(s) /\ j # Len(s)
         /\ RootsOf(s) = RootsOf(p) \cup ({q} \ {NoPage})
         /\ Len(s) # 0
<1>1. PICK M, x : /\ M = [pgd : Tables \cup {NoPage}, vma_list : SUBSET UserRanges]
                  /\ x = [NoMm EXCEPT !.pgd = q]
  OBVIOUS
<1>2. x \in M /\ x.pgd = q
  BY <1>1 DEF NoMm
<1>3. /\ p \in Seq(M) /\ Len(p) \in Nat /\ Len(p) <= MmPool /\ DOMAIN p = 1 .. Len(p)
      /\ \A i, j \in LiveOf(p) : p[j].pgd = p[i].pgd => j = i
      /\ \A j \in LiveOf(p) : p[j].pgd # kernel_pgd
  BY <1>1 DEF PoolInv
<1>4. PICK n : n = Len(p) + 1
  OBVIOUS
<1>5. /\ s \in Seq(M) /\ Len(s) = n /\ DOMAIN s = 1 .. n /\ s[n] = x
      /\ \A j \in 1 .. Len(p) : s[j] = p[j]
  BY <1>1, <1>2, <1>3, <1>4 DEF Entered
<1>6. Len(s) <= MmPool
  BY <1>3, <1>4, <1>5, VmAssumption
<1>7. /\ \A j \in DOMAIN p : j \in DOMAIN s /\ s[j] = p[j] /\ j # n
      /\ \A j \in DOMAIN s : j \in DOMAIN p \/ j = n
  BY <1>3, <1>4, <1>5
<1>8. /\ \A j \in LiveOf(p) : j \in LiveOf(s) /\ s[j] = p[j] /\ j # n /\ p[j].pgd \in RootsOf(p)
      /\ \A j \in LiveOf(s) : j \in LiveOf(p) \/ j = n
      /\ n \in LiveOf(s) <=> q # NoPage
  <2>1. n \in DOMAIN s
    BY <1>3, <1>4, <1>5
  <2> QED BY <1>2, <1>5, <1>7, <2>1 DEF LiveOf, RootsOf
<1>9. RootsOf(s) = RootsOf(p) \cup ({q} \ {NoPage})
  <2>1. \A y : y \in RootsOf(s) <=> y = kernel_pgd \/ \E j \in LiveOf(s) : y = s[j].pgd
    BY DEF RootsOf
  <2>2. \A y : y \in RootsOf(p) <=> y = kernel_pgd \/ \E j \in LiveOf(p) : y = p[j].pgd
    BY DEF RootsOf
  <2>3. ASSUME NEW y, y \in RootsOf(s) PROVE y \in RootsOf(p) \cup ({q} \ {NoPage})
    BY <1>2, <1>5, <1>8, <2>1, <2>2, <2>3
  <2>4. ASSUME NEW y, y \in RootsOf(p) PROVE y \in RootsOf(s)
    BY <1>8, <2>1, <2>2, <2>4
  <2>5. q # NoPage => q \in RootsOf(s)
    BY <1>2, <1>5, <1>8, <2>1
  <2> QED BY <2>3, <2>4, <2>5
<1>10. PoolInv(s)
  <2>1. \A i, j \in LiveOf(s) : s[j].pgd = s[i].pgd => j = i
    BY <1>2, <1>3, <1>5, <1>8
  <2>2. kernel_pgd \in RootsOf(p)
    BY DEF RootsOf
  <2>3. \A j \in LiveOf(s) : s[j].pgd # kernel_pgd
    BY <1>2, <1>3, <1>5, <1>8, <2>2
  <2> QED BY <1>1, <1>5, <1>6, <2>1, <2>3 DEF PoolInv
<1> QED BY <1>2, <1>3, <1>4, <1>5, <1>7, <1>8, <1>9, <1>10

\* Whether or not there is a new address space, the others map what they mapped,
\* and it maps nothing.
SpaceMade(m, p, c, H) ==
  /\ c.ok \in BOOLEAN /\ PoolInv(c.pool)
  /\ Ok(c.m, RootsOf(c.pool), H)
  /\ LostOf(c.m, RootsOf(c.pool), H) = LostOf(m, RootsOf(p), H)
  /\ SameMaps(m, c.m, RootsOf(p))
  /\ \A j \in LiveOf(p) : j \in LiveOf(c.pool) /\ c.pool[j] = p[j]
  /\ \A j \in LiveOf(c.pool) :
       j \in LiveOf(p) \/ \A u \in Virtual : Leaf(c.m, c.pool[j].pgd, u) = Nothing

\* An exec that needs no new address space.
LEMMA SameSpaces ==
  ASSUME NEW m, NEW p, NEW H, Ok(m, RootsOf(p), H), PoolInv(p),
         NEW c, c.m = m, c.pool = p, c.ok \in BOOLEAN
  PROVE  SpaceMade(m, p, c, H)
BY DEF SpaceMade, SameMaps

\* vmm_create_address_space, whether mm_pool is full, memory is, or neither.
LEMMA CreateSpace ==
  ASSUME NEW m, NEW p, NEW H, Ok(m, RootsOf(p), H), PoolInv(p),
         NEW c, c = vmm_create_address_space(m, p)
  PROVE  SpaceMade(m, p, c, H)
<1>1. PICK a : a = alloc_page_table(m)
  OBVIOUS
<1>2. PICK R : R = RootsOf(p) /\ kernel_pgd \in R
  BY DEF RootsOf
<1>3. /\ Len(p) = MmPool => c = [m |-> m, pool |-> p, ok |-> FALSE]
      /\ Len(p) # MmPool /\ a.page = NoPage
           => c = [m |-> a.m, pool |-> Entered(p, NoPage), ok |-> FALSE]
      /\ Len(p) # MmPool /\ a.page # NoPage
           => c = [m |-> WithKernel(m, a.m, a.page), pool |-> Entered(p, a.page), ok |-> TRUE]
  <2>1. Entered(p, NoPage) = Append(p, NoMm)
    BY DEF Entered, NoMm
  <2> QED BY <1>1, <2>1 DEF vmm_create_address_space, WithKernel, Entered
<1>4. CASE Len(p) = MmPool
  BY <1>3, <1>4, SameSpaces
<1>5. CASE Len(p) # MmPool /\ a.page = NoPage
  <2>1. a.m = m
    BY <1>1, <1>2, <1>5, CreateFails
  <2>2. PICK s : s = Entered(p, NoPage)
    OBVIOUS
  <2>3. c.m = m /\ c.pool = s /\ c.ok = FALSE
    BY <1>3, <1>5, <2>1, <2>2
  <2>4. NoPage \in Tables \cup {NoPage} /\ NoPage \notin RootsOf(p)
    <3>1. RootsOf(p) \subseteq Tables
      BY DEF Ok, Good
    <3> QED BY <3>1, TableNumbers
  <2>5. PICK q : q = NoPage
    OBVIOUS
  <2>6. /\ PoolInv(s) /\ \A j \in DOMAIN p : j \in DOMAIN s /\ s[j] = p[j]
        /\ \A j \in LiveOf(s) : j \in LiveOf(p) \/ s[j].pgd = q
        /\ RootsOf(s) = RootsOf(p) \cup ({q} \ {NoPage})
    BY <1>5, <2>2, <2>4, <2>5, PoolEntered
  <2>7. RootsOf(s) = RootsOf(p)
    BY <2>5, <2>6
  <2>8. \A j \in LiveOf(s) : j \in LiveOf(p)
    BY <2>5, <2>6 DEF LiveOf
  <2>9. \A j \in LiveOf(p) : j \in LiveOf(s) /\ s[j] = p[j]
    BY <2>6 DEF LiveOf
  <2> QED BY <2>3, <2>6, <2>7, <2>8, <2>9 DEF SpaceMade, SameMaps
<1>6. CASE Len(p) # MmPool /\ a.page # NoPage
  <2>1. PICK q, n, s : q = a.page /\ n = WithKernel(m, a.m, a.page) /\ s = Entered(p, q)
    OBVIOUS
  <2>2. c.m = n /\ c.pool = s /\ c.ok = TRUE
    BY <1>3, <1>6, <2>1
  <2>3. Created(m, n, R, H, q)
    <3>1. Created(m, n, R, H, a.page)
      BY <1>1, <1>2, <1>6, <2>1, CreateKept
    <3> QED BY <2>1, <3>1
  <2>4. /\ q \in Tables /\ q \notin R /\ q # NoPage
        /\ Ok(n, R \cup {q}, H) /\ LostOf(n, R \cup {q}, H) = LostOf(m, R, H)
        /\ SameMaps(m, n, R) /\ \A u \in Virtual : Leaf(n, q, u) = Nothing
    BY <2>3, TableNumbers DEF Created
  <2>5. /\ PoolInv(s) /\ \A j \in DOMAIN p : j \in DOMAIN s /\ s[j] = p[j]
        /\ \A j \in LiveOf(s) : j \in LiveOf(p) \/ s[j].pgd = q
        /\ RootsOf(s) = RootsOf(p) \cup ({q} \ {NoPage})
    BY <1>2, <1>6, <2>1, <2>4, PoolEntered
  <2>6. RootsOf(s) = R \cup {q}
    BY <1>2, <2>4, <2>5
  <2>7. \A j \in LiveOf(p) : j \in LiveOf(s) /\ s[j] = p[j]
    BY <2>5 DEF LiveOf
  <2>8. \A j \in LiveOf(s) : j \in LiveOf(p) \/ \A u \in Virtual : Leaf(n, s[j].pgd, u) = Nothing
    BY <2>4, <2>5
  <2> QED BY <1>2, <2>2, <2>4, <2>5, <2>6, <2>7, <2>8 DEF SpaceMade
<1> QED BY <1>4, <1>5, <1>6

\* What a step of fork or exec does to the address spaces after c.
LEMMA SpacesMadeStep ==
  ASSUME IInv, UNCHANGED <<vma_index, held, ttbr0>>,
         NEW c, SpaceMade(mem, mms, c, Taken), mms' = c.pool, NEW lost \in BOOLEAN,
         Added(c.m, mem', RootsOf(c.pool), Taken, lost)
  PROVE  /\ IInv' /\ (~lost => Lost' = Lost)
         /\ \A k \in Live, v \in Addresses :
              Leaf(mem', mms[k].pgd, v) = Leaf(mem, mms[k].pgd, v)
         /\ \A v \in Addresses :
              Leaf(mem, kernel_pgd, v) \in {Nothing, Leaf(mem', kernel_pgd, v)}
<1>1. PICK n, p, S : n = mem' /\ p = mms' /\ S = RootsOf(p)
  OBVIOUS
<1>2. /\ PoolInv(p) /\ LostOf(c.m, S, Taken) = LostOf(mem, RootsOf(mms), Taken)
      /\ SameMaps(mem, c.m, RootsOf(mms))
      /\ \A j \in LiveOf(mms) : j \in LiveOf(p) /\ p[j] = mms[j]
      /\ \A j \in LiveOf(p) :
           j \in LiveOf(mms) \/ \A u \in Virtual : Leaf(c.m, p[j].pgd, u) = Nothing
  BY <1>1 DEF SpaceMade
<1>3. /\ Ok(n, S, Taken)
      /\ \A r \in S, u \in Virtual : r # kernel_pgd => Leaf(n, r, u) = Leaf(c.m, r, u)
      /\ \A u \in Virtual : Leaf(c.m, kernel_pgd, u) \in {Nothing, Leaf(n, kernel_pgd, u)}
      /\ ~lost => LostOf(n, S, Taken) = LostOf(c.m, S, Taken)
  <2>1. kernel_pgd \in S
    BY <1>1 DEF RootsOf
  <2>2. Added(c.m, n, S, Taken, lost)
    BY <1>1
  <2> QED BY <2>1, <2>2 DEF Added
<1>4. /\ \A j \in LiveOf(mms) : mms[j].pgd \in RootsOf(mms)
      /\ \A j \in LiveOf(p) : p[j].pgd \in S /\ p[j].pgd # kernel_pgd
  BY <1>1, <1>2, Now DEF PoolInv, RootsOf
<1>5. ASSUME NEW k \in LiveOf(mms), NEW v \in Virtual
      PROVE  Leaf(n, mms[k].pgd, v) = Leaf(mem, mms[k].pgd, v)
  BY <1>2, <1>3, <1>4 DEF SameMaps
<1>6. ASSUME NEW k \in LiveOf(p)
      PROVE  Inherits(k)
  <2>1. CASE k \in LiveOf(mms)
    BY <1>1, <1>2, <1>5, <2>1 DEF Inherits
  <2>2. CASE k \notin LiveOf(mms)
    BY <1>1, <1>2, <1>3, <1>4, <2>2 DEF Inherits
  <2> QED BY <2>1, <2>2
<1>7. Taken' = Taken /\ BlocksInv'
  BY Now DEF Taken, HeldPages, BlocksInv
<1>8. IInv' /\ Lost' = LostOf(n, S, Taken)
  <2>1. MappedInVma'
    BY <1>1, <1>6, Now, VmasKept
  <2>2. Ok(mem', RootsOf(mms'), Taken') /\ PoolInv(mms') /\ vma_index' \in 0 .. VmaPool
        /\ ttbr0' \in Tables
    BY <1>1, <1>2, <1>3, <1>7, Now
  <2>3. IInv' /\ Lost' = LostOf(mem', RootsOf(mms'), Taken')
    BY <1>7, <2>1, <2>2, InvNext
  <2> QED BY <1>1, <1>7, <2>3
<1>9. ~lost => Lost' = Lost
  BY <1>2, <1>3, <1>8, Now
<1>10. \A v \in Virtual : Leaf(c.m, kernel_pgd, v) = Leaf(mem, kernel_pgd, v)
  BY <1>2, Now DEF SameMaps
<1> QED BY <1>1, <1>3, <1>5, <1>8, <1>9, <1>10, Now, AddressesVirtual

\* copy_mm.
LEMMA CopyStep ==
  ASSUME IInv, copy_mm
  PROVE  StepOk
<1>1. PICK c : c = vmm_create_address_space(mem, mms)
  OBVIOUS
<1>2. /\ mem' = c.m /\ mms' = c.pool /\ call'.op = "create"
      /\ UNCHANGED <<vma_index, held, ttbr0>>
  BY <1>1 DEF copy_mm, Called
<1>3. SpaceMade(mem, mms, c, Taken)
  BY <1>1, Now, CreateSpace
<1>4. Added(c.m, c.m, RootsOf(c.pool), Taken, FALSE)
  BY <1>3, AddedSelf DEF SpaceMade
<1>5. PICK b : b = FALSE /\ b \in BOOLEAN
  OBVIOUS
<1>6. Added(c.m, mem', RootsOf(c.pool), Taken, b)
  BY <1>2, <1>4, <1>5, Zenon
<1>7. /\ IInv' /\ (~b => Lost' = Lost)
      /\ \A k \in Live, v \in Addresses :
           Leaf(mem', mms[k].pgd, v) = Leaf(mem, mms[k].pgd, v)
  BY <1>2, <1>3, <1>5, <1>6, SpacesMadeStep
<1>8. \A v \in Virtual : Leaf(mem', kernel_pgd, v) = Leaf(mem, kernel_pgd, v)
  BY <1>2, <1>3, Now DEF SpaceMade, SameMaps
<1>9. RangeStep /\ SpacesStep
  BY <1>2, <1>7, <1>8, AddressesVirtual DEF RangeStep, SpacesStep
<1> QED BY <1>5, <1>7, <1>9 DEF StepOk, LostStep

\* What exec loses, it says; b: the program was lost, s: the stack.
LEMMA ExecStep ==
  ASSUME IInv, ProgramsInLowerHalf,
         NEW r \in Ranges, NEW first \in BOOLEAN, do_execve(r, first)
  PROVE  StepOk
<1>1. PICK c : c = IF first THEN vmm_create_address_space(mem, mms)
                   ELSE [m |-> mem, pool |-> mms, ok |-> TRUE]
  OBVIOUS
<1>2. PICK a : a = MapProgram(c.m, r)
  OBVIOUS
<1>3. PICK s : s = MapStack(a.m)
  OBVIOUS
<1>4. /\ mem' = IF ~c.ok THEN c.m ELSE IF ~a.ok THEN a.m ELSE s.m
      /\ mms' = c.pool /\ UNCHANGED <<vma_index, held, ttbr0>>
      /\ call' = Called(IF c.ok /\ (a.lost \/ ((c.ok /\ a.ok) /\ s.lost))
                        THEN "exec_lost" ELSE "exec",
                        c.ok /\ a.ok, 0, r)
  BY <1>1, <1>2, <1>3 DEF do_execve
<1>5. SpaceMade(mem, mms, c, Taken)
  <2>1. CASE first
    BY <1>1, <2>1, Now, CreateSpace
  <2>2. CASE ~first
    BY <1>1, <2>2, Now, SameSpaces
  <2> QED BY <2>1, <2>2
<1>6. PICK m, S : m = c.m /\ S = RootsOf(c.pool)
  OBVIOUS
<1>7. Ok(m, S, Taken) /\ kernel_pgd \in S /\ c.ok \in BOOLEAN
  BY <1>5, <1>6 DEF SpaceMade, RootsOf
<1>8. a.ok \in BOOLEAN /\ a.lost \in BOOLEAN /\ Added(m, a.m, S, Taken, a.lost)
  BY <1>2, <1>6, <1>7, ConfiguredRanges, ProgramAdded
<1>9. s.lost \in BOOLEAN /\ Added(a.m, s.m, S, Taken, s.lost)
  <2>1. Ok(a.m, S, Taken)
    BY <1>8 DEF Added
  <2> QED BY <1>3, <1>7, <2>1, StackAdded
<1>10. PICK lost \in BOOLEAN : /\ Added(m, mem', S, Taken, lost)
                               /\ lost => call'.op = "exec_lost"
  <2>1. CASE ~c.ok
    <3>1. Added(m, m, S, Taken, FALSE)
      BY <1>7, AddedSelf
    <3> QED BY <1>4, <1>6, <2>1, <3>1, Zenon
  <2>2. CASE c.ok /\ ~a.ok
    <3>1. a.lost => call'.op = "exec_lost"
      BY <1>4, <2>2 DEF Called
    <3>2. mem' = a.m
      BY <1>4, <2>2
    <3> QED BY <1>8, <3>1, <3>2, Zenon
  <2>3. CASE c.ok /\ a.ok
    <3>1. a.lost \/ s.lost => call'.op = "exec_lost"
      BY <1>4, <2>3 DEF Called
    <3>2. mem' = s.m
      BY <1>4, <2>3
    <3>3. Added(m, s.m, S, Taken, a.lost \/ s.lost)
      BY <1>8, <1>9, AddedTwice
    <3>4. PICK b : b = (a.lost \/ s.lost) /\ b \in BOOLEAN
      OBVIOUS
    <3> QED BY <3>1, <3>2, <3>3, <3>4, Zenon
  <2> QED BY <1>7, <1>8, <2>1, <2>2, <2>3
<1>11. Added(c.m, mem', RootsOf(c.pool), Taken, lost)
  BY <1>6, <1>10, Zenon
<1>12. /\ IInv' /\ (~lost => Lost' = Lost)
       /\ \A k \in Live, v \in Addresses :
            Leaf(mem', mms[k].pgd, v) = Leaf(mem, mms[k].pgd, v)
       /\ \A v \in Addresses :
            Leaf(mem, kernel_pgd, v) \in {Nothing, Leaf(mem', kernel_pgd, v)}
  BY <1>4, <1>5, <1>10, <1>11, SpacesMadeStep
<1>13. call'.mm = 0 /\ call'.op \in {"exec", "exec_lost"}
  BY <1>4 DEF Called
<1>14. RangeStep /\ SpacesStep
  BY <1>12, <1>13 DEF RangeStep, SpacesStep
<1>15. LostStep
  BY <1>10, <1>12 DEF LostStep
<1> QED BY <1>12, <1>14, <1>15 DEF StepOk

\* An address space of the pool p gets the VMA r.
WithVma(p, k, r) == [p EXCEPT ![k].vma_list = @ \cup {r}]

\* The address spaces keep their top tables.
LEMMA PoolVma ==
  ASSUME NEW p, PoolInv(p), NEW k \in LiveOf(p), NEW r \in UserRanges,
         NEW q, q = WithVma(p, k, r)
  PROVE  /\ PoolInv(q) /\ LiveOf(q) = LiveOf(p) /\ RootsOf(q) = RootsOf(p)
         /\ \A j \in LiveOf(p) : /\ q[j].pgd = p[j].pgd
                                 /\ p[j].vma_list \subseteq q[j].vma_list
         /\ r \in q[k].vma_list
<1>1. PICK M : M = [pgd : Tables \cup {NoPage}, vma_list : SUBSET UserRanges]
  OBVIOUS
<1>2. /\ p \in Seq(M) /\ Len(p) <= MmPool /\ k \in DOMAIN p
      /\ \A i, j \in LiveOf(p) : p[j].pgd = p[i].pgd => j = i
      /\ \A j \in LiveOf(p) : p[j].pgd # kernel_pgd
  BY <1>1 DEF PoolInv, LiveOf
<1>3. PICK x : x = [p[k] EXCEPT !.vma_list = @ \cup {r}]
  OBVIOUS
<1>4. p[k] \in M
  BY <1>2
<1>5. x \in M /\ x.pgd = p[k].pgd /\ p[k].vma_list \subseteq x.vma_list /\ r \in x.vma_list
  BY <1>1, <1>3, <1>4
<1>6. q = [p EXCEPT ![k] = x]
  BY <1>2, <1>3 DEF WithVma
<1>7. /\ q \in Seq(M) /\ Len(q) = Len(p) /\ DOMAIN q = DOMAIN p
      /\ \A j \in DOMAIN q : q[j] = IF j = k THEN x ELSE p[j]
  BY <1>2, <1>5, <1>6
<1>8. \A j \in DOMAIN p : q[j].pgd = p[j].pgd /\ p[j].vma_list \subseteq q[j].vma_list
  BY <1>5, <1>7
<1>9. LiveOf(q) = LiveOf(p)
  BY <1>7, <1>8 DEF LiveOf
<1>10. RootsOf(q) = RootsOf(p)
  <2>1. \A j \in LiveOf(p) : q[j].pgd = p[j].pgd
    BY <1>8 DEF LiveOf
  <2> QED BY <1>9, <2>1 DEF RootsOf
<1>11. PoolInv(q)
  BY <1>1, <1>2, <1>7, <1>8, <1>9 DEF PoolInv, LiveOf
<1> QED BY <1>2, <1>5, <1>7, <1>8, <1>9, <1>10, <1>11 DEF LiveOf

\* vmm_map_user_range: a mapping that stood is lost only where the range overlaps it.
LEMMA MapUserRangeStep ==
  ASSUME IInv, NEW k \in 1 .. MmPool, NEW r \in UserRanges, vmm_map_user_range(k, r)
  PROVE  StepOk
<1>1. PICK s, R, n, p : s = mms[k].pgd /\ R = RootsOf(mms) /\ n = mem' /\ p = mms'
  OBVIOUS
<1>2. PICK a : a = MapUserPages(mem, s, r)
  OBVIOUS
<1>3. /\ k \in LiveOf(mms) /\ n = a.m
      /\ p = IF vma_index < VmaPool THEN WithVma(mms, k, r) ELSE mms
      /\ vma_index' = IF vma_index < VmaPool THEN vma_index + 1 ELSE vma_index
      /\ UNCHANGED <<held, ttbr0>>
      /\ call'.op = "map_user" /\ call'.mm = k /\ call'.range = r
  BY <1>1, <1>2, PoolIs DEF vmm_map_user_range, Called, WithVma
<1>4. /\ Ok(mem, R, Taken) /\ s \in R /\ s # kernel_pgd /\ kernel_pgd \in R
      /\ PoolInv(mms) /\ BlocksInv /\ MappedInVma /\ Live = LiveOf(mms)
      /\ \A j \in LiveOf(mms) : mms[j].pgd \in R
      /\ \A j \in LiveOf(mms) : mms[j].pgd = s => j = k
      /\ vma_index \in 0 .. VmaPool /\ ttbr0 \in Tables
      /\ Lost = LostOf(mem, R, Taken)
  BY <1>1, <1>3, Now DEF PoolInv
<1>5. UserRange(r)
  BY ConfiguredRanges
<1>6. Result(a, R, Taken) /\ UserMapped(mem, a, R, Taken, s, r, r.n)
  BY <1>2, <1>4, <1>5, MapUserKept
<1>7. /\ Ok(n, R, Taken)
      /\ \A x \in R, u \in Virtual : ~ (x = s /\ u \in Span(r)) => Leaf(n, x, u) = Leaf(mem, x, u)
      /\ (\A u \in Span(r) : Leaf(mem, s, u) = Nothing)
           => LostOf(n, R, Taken) = LostOf(mem, R, Taken)
  <2>1. First(r, r.n) = Span(r)
    BY DEF First, Span
  <2> QED BY <1>3, <1>6, <2>1 DEF Result, UserMapped
<1>8. /\ PoolInv(p) /\ LiveOf(p) = LiveOf(mms) /\ RootsOf(p) = R
      /\ \A j \in LiveOf(mms) : /\ p[j].pgd = mms[j].pgd
                                /\ mms[j].vma_list \subseteq p[j].vma_list
      /\ vma_index < VmaPool => r \in p[k].vma_list
  <2>1. CASE vma_index < VmaPool
    <3>1. p = WithVma(mms, k, r)
      BY <1>3, <2>1
    <3> QED BY <1>1, <1>3, <1>4, <3>1, PoolVma
  <2>2. CASE ~ (vma_index < VmaPool)
    BY <1>1, <1>3, <1>4, <2>2
  <2> QED BY <2>1, <2>2
<1>9. Taken' = Taken /\ BlocksInv'
  BY <1>3, <1>4 DEF Taken, HeldPages, BlocksInv
<1>10. vma_index' \in 0 .. VmaPool /\ (vma_index' < VmaPool => vma_index < VmaPool)
  BY <1>3, <1>4, VmAssumption
<1>11. MappedInVma'
  <2> SUFFICES ASSUME vma_index' < VmaPool, NEW j \in LiveOf(p), NEW v \in Addresses,
                      v < USER_VMA_END, Leaf(n, p[j].pgd, v).kind # "none"
               PROVE  \E x \in p[j].vma_list : v \in Span(x)
    BY <1>1 DEF MappedInVma, Live, LiveOf
  <2>1. v \in Virtual /\ vma_index < VmaPool
    BY <1>10, AddressesVirtual
  <2>2. /\ j \in LiveOf(mms) /\ p[j].pgd = mms[j].pgd /\ mms[j].pgd \in R
        /\ mms[j].vma_list \subseteq p[j].vma_list
    BY <1>4, <1>8
  <2>3. CASE mms[j].pgd = s /\ v \in Span(r)
    BY <1>4, <1>8, <2>1, <2>2, <2>3
  <2>4. CASE ~ (mms[j].pgd = s /\ v \in Span(r))
    <3>1. Leaf(mem, mms[j].pgd, v).kind # "none"
      BY <1>7, <2>1, <2>2, <2>4
    <3>2. \E x \in mms[j].vma_list : v \in Span(x)
      BY <1>4, <2>1, <2>2, <3>1 DEF MappedInVma
    <3> QED BY <2>2, <3>2
  <2> QED BY <2>3, <2>4
<1>12. IInv' /\ Lost' = LostOf(n, R, Taken)
  <2>1. Ok(mem', RootsOf(mms'), Taken') /\ PoolInv(mms') /\ ttbr0' \in Tables
    BY <1>1, <1>3, <1>4, <1>7, <1>8, <1>9
  <2>2. IInv' /\ Lost' = LostOf(mem', RootsOf(mms'), Taken')
    BY <1>9, <1>10, <1>11, <2>1, InvNext
  <2> QED BY <1>1, <1>8, <1>9, <2>2
<1>13. SpacesStep
  <2>1. \A v \in Addresses : Leaf(n, kernel_pgd, v) = Leaf(mem, kernel_pgd, v)
    BY <1>4, <1>7, AddressesVirtual
  <2>2. ASSUME NEW j \in LiveOf(mms), j # k, NEW v \in Addresses
        PROVE  Leaf(n, mms[j].pgd, v) = Leaf(mem, mms[j].pgd, v)
    BY <1>4, <1>7, <2>2, AddressesVirtual
  <2> QED BY <1>1, <1>3, <1>4, <2>1, <2>2 DEF SpacesStep
<1>14. LostStep
  <2>1. CASE Overlaps
    BY <1>3, <2>1 DEF LostStep
  <2>2. CASE ~Overlaps
    <3>1. \A u \in Span(r) : Leaf(mem, s, u).kind = "none"
      BY <1>1, <1>3, <2>2 DEF Overlaps
    <3>2. \A u \in Span(r) : u \in Nat
      BY <1>5 DEF UserRange, Span
    <3>3. \A u \in Span(r) : Leaf(mem, s, u) = Nothing
      BY <1>4, <3>1, <3>2, LeafKind
    <3> QED BY <1>4, <1>7, <1>12, <3>3 DEF LostStep
  <2> QED BY <2>1, <2>2
<1> QED BY <1>3, <1>12, <1>13, <1>14 DEF StepOk, RangeStep

\* Every call keeps the invariant, and does only what its kind of call may do.
LEMMA NextOk == ProgramsInLowerHalf /\ IInv /\ Next => StepOk
<1> SUFFICES ASSUME ProgramsInLowerHalf, IInv, Next PROVE StepOk
  OBVIOUS
<1>1. CASE HoldPages(StackPages)
  BY <1>1, HoldStep
<1>2. ASSUME NEW b \in held, ReleasePages(b) PROVE StepOk
  BY <1>2, ReleaseStep
<1>3. ASSUME NEW r \in Devices, MapDevice(r) PROVE StepOk
  BY <1>3, MapDeviceStep
<1>4. ASSUME NEW r \in Devices, UnmapDevice(r) PROVE StepOk
  BY <1>4, UnmapDeviceStep
<1>5. CASE copy_mm
  BY <1>5, CopyStep
<1>6. ASSUME NEW k \in 1 .. MmPool, vmm_destroy_address_space(k) PROVE StepOk
  BY <1>6, DestroyStep
<1>7. ASSUME NEW k \in 1 .. MmPool, vmm_switch_address_space(k) PROVE StepOk
  BY <1>7, SwitchStep
<1>8. ASSUME NEW k \in 1 .. MmPool, NEW r \in UserRanges, vmm_map_user_range(k, r)
      PROVE  StepOk
  BY <1>8, MapUserRangeStep
<1>9. ASSUME NEW r \in Ranges, NEW first \in BOOLEAN, do_execve(r, first) PROVE StepOk
  BY <1>9, ExecStep
<1> QED BY <1>1, <1>2, <1>3, <1>4, <1>5, <1>6, <1>7, <1>8, <1>9, ZenonT(60) DEF Next

\* Memory, address spaces and VMAs satisfy the inductive invariant: the page
\* tables form a forest beside the pages that the kernel, tasks and drivers hold.
THEOREM Invariance == ProgramsInLowerHalf /\ Spec => []IInv
<1> SUFFICES ASSUME ProgramsInLowerHalf PROVE Spec => []IInv
  OBVIOUS
<1>1. Init => IInv
  BY InitInv
<1>2. IInv /\ [Next]_vars => IInv'
  BY NextOk, StutterStep DEF StepOk
<1> QED BY <1>1, <1>2, PTL DEF Spec

\* If programs are linked to the lower half: however allocations fail half way, a
\* page has one purpose among pmm's users, the count of free pages is that of the
\* bitmap, and every address that vmm_map_user_range mapped lies in a VMA while
\* vma_pool has room (pmm.c, vmm.c).
THEOREM VmMemoryConsistent == ProgramsInLowerHalf /\ Spec => []MemoryConsistent
BY Invariance, Consistent, PTL

\* vmm_map_range maps all of a range or leaves every translation as it was, for
\* ranges of any length and tables of any size, and an exec never replaces a
\* mapping that stands.
THEOREM VmMapRangeAtomic == ProgramsInLowerHalf /\ Spec => MapRangeAtomic
<1> SUFFICES ASSUME ProgramsInLowerHalf PROVE Spec => MapRangeAtomic
  OBVIOUS
<1>1. IInv /\ [Next]_vars => [RangeStep]_vars
  BY NextOk DEF StepOk
<1>2. [][RangeStep]_vars <=> MapRangeAtomic
  BY PTL DEF RangeStep, MapRangeAtomic
<1> QED BY Invariance, <1>1, <1>2, PTL DEF Spec

\* No call changes a translation of an address space that it is not about.
THEOREM VmSpacesIsolated == ProgramsInLowerHalf /\ Spec => SpacesIsolated
<1> SUFFICES ASSUME ProgramsInLowerHalf PROVE Spec => SpacesIsolated
  OBVIOUS
<1>1. IInv /\ [Next]_vars => [SpacesStep]_vars
  BY NextOk DEF StepOk
<1>2. [][SpacesStep]_vars <=> SpacesIsolated
  BY PTL DEF SpacesStep, SpacesIsolated
<1> QED BY Invariance, <1>1, <1>2, PTL DEF Spec

\* Pages are lost only by vmm_destroy_address_space, by a user range over one that
\* is mapped, and by an exec whose mapping failed.
THEOREM VmLostOnlyByOverlap == ProgramsInLowerHalf /\ Spec => LostOnlyByOverlap
<1> SUFFICES ASSUME ProgramsInLowerHalf PROVE Spec => LostOnlyByOverlap
  OBVIOUS
<1>1. IInv /\ [Next]_vars => [LostStep]_vars
  BY NextOk DEF StepOk
<1>2. [][LostStep]_vars <=> LostOnlyByOverlap
  BY PTL DEF LostStep, LostOnlyByOverlap
<1> QED BY Invariance, <1>1, <1>2, PTL DEF Spec

-----------------------------------------------------------------------------
(* Locks.                                                                  *)

\* spin_lock_irqsave to spin_unlock_irqrestore: on the CPU with interrupts
\* masked, and the lock word tells who is between lock and unlock.
TableSection ==
  \A t \in Threads :
    /\ pc[t] \in {"tlock", "table", "unmask"} => cur = t /\ masked[t]
    /\ proc_table_lock = t <=> pc[t] = "table"

\* On x86_64 a thread loses the CPU only in process_schedule, and the lock word
\* of the heap tells who is between lock and unlock.
NoPreemption ==
  arch = "x86_64" =>
    \A t \in Threads :
      /\ t # cur => pc[t] \in {"run", "sched", "gone"}
      /\ heap_lock = t <=> pc[t] = "heap"

\* A thread that has been through process_schedule runs its own code unmasked,
\* and saved that mask if it is in a section that masks.
MaskCarried ==
  \A t \in scheduled :
    ~ exiting[t] =>
      /\ pc[t] \in {"run", "lock", "heap", "kill", "dead", "yield"} => ~ masked[t]
      /\ pc[t] \in {"tlock", "table", "unmask"} => ~ flags[t]

\* Who has freed a stack still has the process to mark.
VictimLeft == \A t \in Threads : pc[t] = "dead" => todo[t] # <<>>

LocksIInv ==
  /\ LocksTypeOK /\ scheduled \subseteq Threads
  /\ TableSection /\ NoPreemption /\ MaskCarried /\ VictimLeft

-----------------------------------------------------------------------------

\* The kernel is a thread, a slot is one, and no thread is Nobody.
LEMMA Identities ==
  /\ Slots \subseteq Threads /\ Kernel \in Threads /\ Kernel \notin Slots
  /\ Nobody \notin Threads
BY LocksAssumption DEF Slots, Threads, Kernel, Nobody

\* The orders of kill_children are sequences of processes.
LEMMA OrdersAreSequences ==
  ASSUME NEW S \in SUBSET Slots, NEW s \in KillOrders(S)
  PROVE  s \in Seq(Slots)
<1>1. PICK m \in 0 .. MAX_PROCESSES : s \in [1 .. m -> S]
  BY DEF KillOrders, SeqOf
<1>2. s \in [1 .. m -> Slots] /\ m \in Nat
  BY <1>1, LocksAssumption
<1> QED BY <1>2

\* The thread t and what a victim v of it is.
LEMMA Victim ==
  ASSUME LocksIInv, NEW t \in Threads, pc[t] = "dead"
  PROVE  Head(todo[t]) \in Slots /\ Tail(todo[t]) \in Seq(Slots)
<1>1. todo[t] \in Seq(Slots) /\ todo[t] # <<>>
  BY DEF LocksIInv, LocksTypeOK, VictimLeft
<1> QED BY <1>1, HeadTailProperties

\* Every function is one on its domain.
LEMMA Domains ==
  ASSUME LocksTypeOK
  PROVE  /\ pc = [t \in Threads |-> pc[t]] /\ masked = [t \in Threads |-> masked[t]]
         /\ flags = [t \in Threads |-> flags[t]]
         /\ exiting = [t \in Threads |-> exiting[t]]
         /\ todo = [t \in Threads |-> todo[t]]
BY DEF LocksTypeOK

\* The actions of LocksNext.
LocksStep(t) ==
  \/ lock_heap(t) \/ unlock_heap(t) \/ CallHeap(t)
  \/ CallTable(t) \/ spin_lock(t) \/ spin_unlock(t) \/ arch_irq_restore_local(t)
  \/ process_yield(t) \/ ScheduleSwitch(t) \/ ScheduleStay(t) \/ Resume(t) \/ TimerIrq(t)
  \/ process_exit(t) \/ \E v \in Slots : process_kill(t, v)
  \/ SkipFree(t) \/ FreeStack(t) \/ MarkFree(t) \/ KillDone(t)

\* LocksNext is a LocksStep of some thread.
LEMMA NextIsLocksStep == LocksNext => \E t \in Threads : LocksStep(t)
BY DEF LocksNext, Timer, Continue, Call, LocksStep

\* Every step keeps the types.
LEMMA LocksTypeStep ==
  ASSUME LocksIInv, NEW t \in Threads, LocksStep(t)
  PROVE  LocksTypeOK'
<1>0. LocksTypeOK
  BY DEF LocksIInv
<1> USE Identities
<1>1. CASE lock_heap(t) \/ unlock_heap(t) \/ CallHeap(t)
  BY <1>0, <1>1 DEF lock_heap, unlock_heap, CallHeap, LocksTypeOK, Go, build, private, locks
<1>2. CASE CallTable(t) \/ arch_irq_restore_local(t)
  <2>1. masked[t] \in BOOLEAN /\ flags[t] \in BOOLEAN
    BY <1>0 DEF LocksTypeOK
  <2>2. flags' \in [Threads -> BOOLEAN] /\ masked' \in [Threads -> BOOLEAN]
    <3>1. CASE CallTable(t)
      BY <1>0, <2>1, <3>1 DEF CallTable, LocksTypeOK
    <3>2. CASE arch_irq_restore_local(t)
      BY <1>0, <2>1, <3>2 DEF arch_irq_restore_local, LocksTypeOK, private
    <3> QED BY <1>2, <3>1, <3>2
  <2>3. /\ pc' = [pc EXCEPT ![t] = "tlock"] \/ pc' = [pc EXCEPT ![t] = "run"]
        /\ UNCHANGED <<arch, stacks, state, cur, todo, exiting, heap_lock, proc_table_lock>>
    BY <1>2 DEF CallTable, arch_irq_restore_local, Go, build, private, locks
  <2> QED BY <1>0, <2>2, <2>3 DEF LocksTypeOK
<1>3. CASE spin_lock(t) \/ spin_unlock(t)
  BY <1>0, <1>3 DEF spin_lock, spin_unlock, LocksTypeOK, Go, build, private, locks
<1>4. CASE process_yield(t)
  BY <1>0, <1>4 DEF process_yield, LocksTypeOK, Go, build, private, locks
<1>5. CASE ScheduleSwitch(t) \/ TimerIrq(t)
  <2>1. PICK n \in Slots : state' = Switched(t, n) /\ cur' = n
    BY <1>5 DEF ScheduleSwitch, TimerIrq, Ready
  <2>2. state' \in [Slots -> {"READY", "RUNNING", "FREE"}]
    BY <1>0, <2>1 DEF Switched, LocksTypeOK
  <2>3. masked' \in [Threads -> BOOLEAN]
    BY <1>0, <1>5 DEF ScheduleSwitch, TimerIrq, LocksTypeOK
  <2>4. pc' = [pc EXCEPT ![t] = "sched"] \/ pc' = [pc EXCEPT ![t] = "astray"] \/ pc' = pc
    <3>1. CASE ScheduleSwitch(t)
      BY <3>1 DEF ScheduleSwitch, Go
    <3>2. CASE TimerIrq(t)
      <4>1. pc = [pc EXCEPT ![t] = pc[t]]
        BY <1>0 DEF LocksTypeOK
      <4> QED BY <3>2, <4>1 DEF TimerIrq
    <3> QED BY <1>5, <3>1, <3>2
  <2>5. UNCHANGED <<arch, stacks, flags, todo, exiting, heap_lock, proc_table_lock>>
    BY <1>5 DEF ScheduleSwitch, TimerIrq, build, private, locks
  <2> QED BY <1>0, <2>1, <2>2, <2>3, <2>4, <2>5 DEF LocksTypeOK
<1>6. CASE ScheduleStay(t) \/ Resume(t)
  <2>1. state' \in [Slots -> {"READY", "RUNNING", "FREE"}]
    BY <1>0, <1>6 DEF ScheduleStay, Resume, LocksTypeOK
  <2> QED BY <1>0, <1>6, <2>1, ZenonT(60)
       DEF ScheduleStay, Resume, LocksTypeOK, Go, build, private, locks
<1>7. ASSUME process_exit(t) \/ \E v \in Slots : process_kill(t, v)
      PROVE  LocksTypeOK'
  <2>1. PICK l \in Seq(Slots) : todo' = [todo EXCEPT ![t] = l]
    <3>1. \A p : Victims(p) \in SUBSET Slots
      BY DEF Victims, Below
    <3>2. CASE process_exit(t)
      BY <3>1, <3>2, OrdersAreSequences DEF process_exit
    <3>3. ASSUME NEW v \in Slots, process_kill(t, v)
          PROVE  \E l \in Seq(Slots) : todo' = [todo EXCEPT ![t] = l]
      <4>1. PICK s \in KillOrders(Victims(v)) : todo' = [todo EXCEPT ![t] = Append(s, v)]
        BY <3>3 DEF process_kill
      <4>2. Append(s, v) \in Seq(Slots)
        BY <3>1, OrdersAreSequences, AppendProperties
      <4> QED BY <4>1, <4>2
    <3> QED BY <1>7, <3>2, <3>3
  <2>2. /\ pc' = [pc EXCEPT ![t] = "kill"]
        /\ masked' = masked \/ masked' = [masked EXCEPT ![t] = TRUE]
        /\ exiting' = exiting \/ exiting' = [exiting EXCEPT ![t] = TRUE]
        /\ UNCHANGED <<arch, stacks, state, cur, flags, heap_lock, proc_table_lock>>
    BY <1>7 DEF process_exit, process_kill, Go, build, locks
  <2>3. masked' \in [Threads -> BOOLEAN] /\ exiting' \in [Threads -> BOOLEAN]
    BY <1>0, <2>2 DEF LocksTypeOK
  <2> QED BY <1>0, <2>1, <2>2, <2>3 DEF LocksTypeOK
<1>8. CASE SkipFree(t)
  <2>1. todo[t] \in Seq(Slots) /\ todo[t] # <<>>
    BY <1>0, <1>8 DEF SkipFree, LocksTypeOK
  <2>2. Tail(todo[t]) \in Seq(Slots)
    BY <2>1, HeadTailProperties
  <2> QED BY <1>0, <1>8, <2>2 DEF SkipFree, LocksTypeOK, build, locks
<1>9. CASE FreeStack(t)
  BY <1>0, <1>9 DEF FreeStack, LocksTypeOK, Go, build, private, locks
<1>10. CASE MarkFree(t)
  <2> DEFINE v == Head(todo[t])
  <2>1. v \in Slots /\ v \in Threads /\ Tail(todo[t]) \in Seq(Slots) /\ <<>> \in Seq(Slots)
    BY <1>10, Victim DEF MarkFree
  <2>2. todo' = [todo EXCEPT ![t] = Tail(todo[t]), ![v] = <<>>]
        /\ stacks' = stacks \ {v}
        /\ Forget(v, [pc EXCEPT ![t] = "kill"])
        /\ UNCHANGED <<arch, cur, locks>>
    BY <1>10 DEF MarkFree
  <2> HIDE DEF v
  <2>3. todo' \in [Threads -> Seq(Slots)]
    BY <1>0, <2>1, <2>2 DEF LocksTypeOK
  <2> QED BY <1>0, <2>1, <2>2, <2>3 DEF Forget, LocksTypeOK, locks
<1>11. CASE KillDone(t)
  <2>1. CASE exiting[t]
    BY <1>0, <1>11, <2>1 DEF KillDone, Forget, LocksTypeOK, build, locks
  <2>2. CASE ~ exiting[t]
    BY <1>0, <1>11, <2>2 DEF KillDone, Go, LocksTypeOK, build, locks
  <2> QED BY <2>1, <2>2
<1> QED
  BY <1>1, <1>2, <1>3, <1>4, <1>5, <1>6, <1>7, <1>8, <1>9, <1>10, <1>11 DEF LocksStep

\* Every step keeps the table's critical section on the CPU and masked.
LEMMA TableStep ==
  ASSUME LocksIInv, NEW t \in Threads, LocksStep(t)
  PROVE  TableSection'
<1>0. /\ LocksTypeOK /\ TableSection
      /\ pc = [u \in Threads |-> pc[u]] /\ masked = [u \in Threads |-> masked[u]]
  BY Domains DEF LocksIInv
<1> USE Identities
<1>1. CASE lock_heap(t) \/ unlock_heap(t) \/ CallHeap(t) \/ process_yield(t) \/ FreeStack(t)
  <2>1. PICK l \in {"run", "lock", "heap", "dead", "yield"} : pc' = [pc EXCEPT ![t] = l]
    BY <1>1 DEF lock_heap, unlock_heap, CallHeap, process_yield, FreeStack, Go
  <2>2. /\ pc[t] \in {"run", "lock", "heap", "kill"}
        /\ UNCHANGED <<cur, masked, proc_table_lock>>
    BY <1>1 DEF lock_heap, unlock_heap, CallHeap, process_yield, FreeStack, locks
  <2> QED BY <1>0, <2>1, <2>2 DEF TableSection
<1>2. CASE CallTable(t)
  BY <1>0, <1>2 DEF CallTable, Go, locks, TableSection
<1>3. CASE spin_lock(t)
  BY <1>0, <1>3 DEF spin_lock, Go, TableSection
<1>4. CASE spin_unlock(t)
  BY <1>0, <1>4 DEF spin_unlock, Go, TableSection
<1>5. CASE arch_irq_restore_local(t)
  BY <1>0, <1>5 DEF arch_irq_restore_local, Go, locks, TableSection
<1>6. CASE ScheduleSwitch(t) \/ ScheduleStay(t) \/ Resume(t)
  <2>1. /\ cur = t /\ pc[t] \in {"run", "yield", "sched"}
        /\ proc_table_lock' = proc_table_lock
    BY <1>6 DEF ScheduleSwitch, ScheduleStay, Resume, CallsSchedule, locks
  <2>2. PICK l \in {"run", "sched"}, m \in BOOLEAN :
          pc' = [pc EXCEPT ![t] = l] /\ masked' = [masked EXCEPT ![t] = m]
    BY <1>6 DEF ScheduleSwitch, ScheduleStay, Resume, Go
  <2> QED BY <1>0, <2>1, <2>2 DEF TableSection
<1>7. CASE TimerIrq(t)
  <2>1. /\ cur = t /\ ~ masked[t] /\ UNCHANGED <<masked, proc_table_lock>>
        /\ pc' = [pc EXCEPT ![t] = IF t = Kernel THEN "astray" ELSE @]
    BY <1>7 DEF TimerIrq, locks
  <2> QED BY <1>0, <2>1 DEF TableSection
<1>8. CASE process_exit(t) \/ \E v \in Slots : process_kill(t, v)
  <2>1. /\ cur = t /\ pc[t] = "run" /\ pc' = [pc EXCEPT ![t] = "kill"]
        /\ UNCHANGED <<cur, proc_table_lock>>
        /\ masked' = masked \/ masked' = [masked EXCEPT ![t] = TRUE]
    BY <1>8 DEF process_exit, process_kill, Go, locks
  <2> QED BY <1>0, <2>1 DEF TableSection
<1>9. CASE SkipFree(t)
  BY <1>0, <1>9 DEF SkipFree, locks, TableSection
<1>10. CASE MarkFree(t)
  <2>1. PICK v \in Slots :
          /\ cur = t /\ pc[t] = "dead" /\ UNCHANGED <<cur, proc_table_lock>>
          /\ pc' = [pc EXCEPT ![t] = "kill", ![v] = "gone"]
          /\ masked' = [masked EXCEPT ![v] = FALSE]
    BY <1>10, Victim DEF MarkFree, Forget, locks
  <2> QED BY <1>0, <2>1 DEF TableSection
<1>11. CASE KillDone(t)
  <2>1. CASE exiting[t]
    BY <1>0, <1>11, <2>1 DEF KillDone, Forget, TableSection, locks
  <2>2. CASE ~ exiting[t]
    BY <1>0, <1>11, <2>2 DEF KillDone, Go, TableSection, locks
  <2> QED BY <2>1, <2>2
<1> QED
  BY <1>1, <1>2, <1>3, <1>4, <1>5, <1>6, <1>7, <1>8, <1>9, <1>10, <1>11 DEF LocksStep

\* Every step keeps waiting contexts of x86_64 outside of critical sections.
LEMMA PreemptionStep ==
  ASSUME LocksIInv, NEW t \in Threads, LocksStep(t)
  PROVE  NoPreemption'
<1>0. /\ LocksTypeOK /\ NoPreemption /\ pc = [u \in Threads |-> pc[u]] /\ UNCHANGED arch
  BY Domains DEF LocksIInv, LocksStep, lock_heap, unlock_heap, CallHeap, CallTable, spin_lock,
    spin_unlock, arch_irq_restore_local, process_yield, ScheduleSwitch, ScheduleStay,
    Resume, TimerIrq, process_exit, process_kill, SkipFree, FreeStack, MarkFree,
    KillDone, build
<1> USE Identities
<1>1. CASE arch # "x86_64"
  BY <1>0, <1>1 DEF NoPreemption
<1>2. CASE arch = "x86_64"
  <2> SUFFICES ASSUME NEW u \in Threads
               PROVE  /\ u # cur' => pc'[u] \in {"run", "sched", "gone"}
                      /\ heap_lock' = u <=> pc'[u] = "heap"
    BY <1>0, <1>2 DEF NoPreemption
  <2>0. /\ \A w \in Threads : /\ w # cur => pc[w] \in {"run", "sched", "gone"}
                              /\ heap_lock = w <=> pc[w] = "heap"
    BY <1>2, <1>0 DEF NoPreemption
  <2>1. CASE lock_heap(t)
    BY <1>0, <2>0, <2>1 DEF lock_heap, Go
  <2>2. CASE unlock_heap(t)
    BY <1>0, <2>0, <2>2 DEF unlock_heap, Go
  <2>3. CASE \/ CallHeap(t) \/ CallTable(t) \/ spin_lock(t) \/ spin_unlock(t)
             \/ arch_irq_restore_local(t) \/ process_yield(t) \/ ScheduleStay(t)
             \/ Resume(t) \/ FreeStack(t)
    <3>1. PICK l \in {"run", "lock", "tlock", "table", "unmask", "yield", "dead"} :
            pc' = [pc EXCEPT ![t] = l]
      BY <2>3 DEF CallHeap, CallTable, spin_lock, spin_unlock, arch_irq_restore_local,
        process_yield, ScheduleStay, Resume, FreeStack, Go
    <3>2. cur = t /\ pc[t] # "heap" /\ UNCHANGED <<cur, heap_lock>>
      BY <2>3 DEF CallHeap, CallTable, spin_lock, spin_unlock, arch_irq_restore_local,
        process_yield, ScheduleStay, CallsSchedule, Resume, FreeStack, locks
    <3> QED BY <1>0, <2>0, <3>1, <3>2
  <2>4. CASE ScheduleSwitch(t)
    <3>1. /\ cur = t /\ pc[t] # "heap" /\ pc' = [pc EXCEPT ![t] = "sched"]
          /\ heap_lock' = heap_lock
      BY <2>4 DEF ScheduleSwitch, CallsSchedule, Go, locks
    <3> QED BY <1>0, <2>0, <3>1
  <2>5. CASE TimerIrq(t)
    BY <1>2, <2>5 DEF TimerIrq
  <2>6. CASE process_exit(t) \/ \E v \in Slots : process_kill(t, v)
    <3>1. /\ cur = t /\ pc[t] = "run" /\ pc' = [pc EXCEPT ![t] = "kill"]
          /\ UNCHANGED <<cur, heap_lock>>
      BY <2>6 DEF process_exit, process_kill, Go, locks
    <3> QED BY <1>0, <2>0, <3>1
  <2>7. CASE SkipFree(t)
    BY <2>0, <2>7 DEF SkipFree, locks
  <2>8. CASE MarkFree(t)
    <3>1. PICK v \in Slots :
            /\ cur = t /\ pc[t] = "dead" /\ UNCHANGED <<cur, heap_lock>>
            /\ pc' = [pc EXCEPT ![t] = "kill", ![v] = "gone"]
      BY <2>8, Victim DEF MarkFree, Forget, locks
    <3>2. v # t => pc[v] # "heap"
      BY <2>0, <3>1
    <3> QED BY <1>0, <2>0, <3>1, <3>2
  <2>9. CASE KillDone(t)
    <3>1. /\ cur = t /\ pc[t] = "kill" /\ heap_lock' = heap_lock
          /\ \/ cur' = Kernel /\ pc' = [pc EXCEPT ![t] = "gone"]
             \/ cur' = cur /\ pc' = [pc EXCEPT ![t] = "run"]
      BY <2>9 DEF KillDone, Forget, Go, locks
    <3> QED BY <1>0, <2>0, <3>1
  <2> QED
    BY <2>1, <2>2, <2>3, <2>4, <2>5, <2>6, <2>7, <2>8, <2>9 DEF LocksStep
<1> QED BY <1>1, <1>2

\* What MaskCarried says of one thread.
Carries(u) ==
  u \in scheduled /\ ~ exiting[u] =>
    /\ pc[u] \in {"run", "lock", "heap", "kill", "dead", "yield"} => ~ masked[u]
    /\ pc[u] \in {"tlock", "table", "unmask"} => ~ flags[u]

\* Every step hands the mask on.
LEMMA MaskStep ==
  ASSUME LocksIInv, NEW t \in Threads, LocksStep(t)
  PROVE  MaskCarried' /\ scheduled' \subseteq Threads
<1>0. /\ LocksTypeOK /\ MaskCarried /\ scheduled \subseteq Threads
      /\ pc = [u \in Threads |-> pc[u]] /\ masked = [u \in Threads |-> masked[u]]
      /\ flags = [u \in Threads |-> flags[u]]
      /\ exiting = [u \in Threads |-> exiting[u]]
  BY Domains DEF LocksIInv
<1> USE Identities
<1>a. \A u \in Threads : Carries(u)
  BY <1>0 DEF MaskCarried, Carries
<1>1. CASE \/ lock_heap(t) \/ unlock_heap(t) \/ CallHeap(t) \/ process_yield(t) \/ FreeStack(t)
           \/ spin_lock(t) \/ spin_unlock(t) \/ SkipFree(t)
  <2>1. UNCHANGED <<masked, flags, exiting, scheduled>>
    BY <1>1 DEF lock_heap, unlock_heap, CallHeap, process_yield, FreeStack, spin_lock,
      spin_unlock, SkipFree, private
  <2>2. \/ pc' = pc
        \/ /\ pc[t] \in {"run", "lock", "heap", "kill"}
           /\ \E l \in {"run", "lock", "heap", "dead", "yield"} : pc' = [pc EXCEPT ![t] = l]
        \/ /\ pc[t] \in {"tlock", "table"}
           /\ \E l \in {"table", "unmask"} : pc' = [pc EXCEPT ![t] = l]
    BY <1>1 DEF lock_heap, unlock_heap, CallHeap, process_yield, FreeStack, spin_lock,
      spin_unlock, SkipFree, Go
  <2>3. ASSUME NEW u \in Threads PROVE Carries(u)'
    BY <1>0, <1>a, <2>1, <2>2, <2>3 DEF Carries
  <2> QED BY <1>0, <2>1, <2>3 DEF MaskCarried, Carries
<1>2. CASE CallTable(t)
  BY <1>0, <1>2 DEF CallTable, Go, MaskCarried
<1>3. CASE arch_irq_restore_local(t)
  BY <1>0, <1>3 DEF arch_irq_restore_local, Go, private, MaskCarried
<1>4. CASE ScheduleSwitch(t)
  BY <1>0, <1>4 DEF ScheduleSwitch, Go, private, MaskCarried
<1>5. CASE ScheduleStay(t)
  BY <1>0, <1>5 DEF ScheduleStay, Go, private, MaskCarried
<1>6. CASE Resume(t)
  BY <1>0, <1>6 DEF Resume, Go, private, MaskCarried
<1>7. CASE TimerIrq(t)
  BY <1>0, <1>7 DEF TimerIrq, private, MaskCarried
<1>8. CASE process_exit(t)
  BY <1>0, <1>8 DEF process_exit, Go, MaskCarried
<1>9. ASSUME NEW v \in Slots, process_kill(t, v) PROVE MaskCarried' /\ scheduled' \subseteq Threads
  BY <1>0, <1>9 DEF process_kill, Go, MaskCarried
<1>10. CASE MarkFree(t)
  <2>1. PICK v \in Slots :
          /\ pc[t] = "dead" /\ pc' = [pc EXCEPT ![t] = "kill", ![v] = "gone"]
          /\ masked' = [masked EXCEPT ![v] = FALSE]
          /\ flags' = [flags EXCEPT ![v] = FALSE]
          /\ exiting' = [exiting EXCEPT ![v] = FALSE]
          /\ scheduled' = scheduled \ {v}
    BY <1>10, Victim DEF MarkFree, Forget
  <2> QED BY <1>0, <2>1 DEF MaskCarried
<1>11. CASE KillDone(t)
  <2>1. CASE exiting[t]
    BY <1>0, <1>11, <2>1 DEF KillDone, Forget, MaskCarried
  <2>2. CASE ~ exiting[t]
    BY <1>0, <1>11, <2>2 DEF KillDone, Go, MaskCarried
  <2> QED BY <2>1, <2>2
<1> QED
  BY <1>1, <1>2, <1>3, <1>4, <1>5, <1>6, <1>7, <1>8, <1>9, <1>10, <1>11 DEF LocksStep

\* Every step leaves the process to mark in place.
LEMMA VictimStep ==
  ASSUME LocksIInv, NEW t \in Threads, LocksStep(t)
  PROVE  VictimLeft'
<1>0. /\ LocksTypeOK /\ VictimLeft /\ pc = [u \in Threads |-> pc[u]]
      /\ todo = [u \in Threads |-> todo[u]]
  BY Domains DEF LocksIInv
<1> USE Identities
<1>1. CASE unlock_heap(t) \/ FreeStack(t)
  BY <1>0, <1>1 DEF unlock_heap, FreeStack, Go, private, VictimLeft
<1>2. CASE \/ lock_heap(t) \/ CallHeap(t) \/ process_yield(t)
           \/ spin_lock(t) \/ spin_unlock(t) \/ CallTable(t) \/ arch_irq_restore_local(t)
           \/ ScheduleSwitch(t) \/ ScheduleStay(t) \/ Resume(t) \/ TimerIrq(t)
  <2>1. todo' = todo
    BY <1>2 DEF lock_heap, CallHeap, process_yield, spin_lock, spin_unlock, CallTable,
      arch_irq_restore_local, ScheduleSwitch, ScheduleStay, Resume, TimerIrq, private
  <2>2. \A u \in Threads : pc'[u] = "dead" => pc[u] = "dead"
    BY <1>0, <1>2 DEF lock_heap, CallHeap, process_yield, spin_lock, spin_unlock, CallTable,
      arch_irq_restore_local, ScheduleSwitch, ScheduleStay, Resume, TimerIrq, Go
  <2> QED BY <1>0, <2>1, <2>2 DEF VictimLeft
<1>3. CASE process_exit(t) \/ \E v \in Slots : process_kill(t, v)
  <2>1. PICK l : pc' = [pc EXCEPT ![t] = "kill"] /\ todo' = [todo EXCEPT ![t] = l]
    BY <1>3 DEF process_exit, process_kill, Go
  <2> QED BY <1>0, <2>1 DEF VictimLeft
<1>4. CASE SkipFree(t)
  BY <1>0, <1>4 DEF SkipFree, VictimLeft
<1>5. CASE MarkFree(t)
  <2>1. PICK v, l :
          /\ v \in Slots
          /\ pc' = [pc EXCEPT ![t] = "kill", ![v] = "gone"]
          /\ todo' = [todo EXCEPT ![t] = l, ![v] = <<>>]
    BY <1>5, Victim DEF MarkFree, Forget
  <2> QED BY <1>0, <2>1 DEF VictimLeft
<1>6. CASE KillDone(t)
  <2>1. todo' = todo /\ (pc' = [pc EXCEPT ![t] = "gone"] \/ pc' = [pc EXCEPT ![t] = "run"])
    BY <1>6 DEF KillDone, Forget, Go
  <2> QED BY <1>0, <2>1 DEF VictimLeft
<1> QED BY <1>1, <1>2, <1>3, <1>4, <1>5, <1>6 DEF LocksStep

-----------------------------------------------------------------------------

\* The initial state satisfies the invariant.
LEMMA LocksInitIInv == LocksInit => LocksIInv
<1> SUFFICES ASSUME LocksInit PROVE LocksIInv
  OBVIOUS
<1> USE Identities DEF LocksInit
<1>1. LocksTypeOK
  <2>1. masked \in [Threads -> BOOLEAN] /\ flags \in [Threads -> BOOLEAN]
    OBVIOUS
  <2>2. todo \in [Threads -> Seq(Slots)]
    OBVIOUS
  <2> QED BY <2>1, <2>2 DEF LocksTypeOK
<1>2. TableSection /\ NoPreemption /\ MaskCarried /\ VictimLeft /\ scheduled \subseteq Threads
  BY DEF TableSection, NoPreemption, MaskCarried, VictimLeft
<1> QED BY <1>1, <1>2 DEF LocksIInv

\* LocksIInv is inductive.
LEMMA LocksNextIInv == LocksIInv /\ [LocksNext]_lockVars => LocksIInv'
<1> SUFFICES ASSUME LocksIInv, [LocksNext]_lockVars PROVE LocksIInv'
  OBVIOUS
<1>1. CASE LocksNext
  <2>1. PICK t \in Threads : LocksStep(t)
    BY <1>1, NextIsLocksStep
  <2> QED BY <2>1, LocksTypeStep, TableStep, PreemptionStep, MaskStep, VictimStep DEF LocksIInv
<1>2. CASE UNCHANGED lockVars
  BY <1>2 DEF lockVars, LocksIInv, LocksTypeOK, TableSection, NoPreemption, MaskCarried, VictimLeft
<1> QED BY <1>1, <1>2

\* The inductive invariant of locks, mask and preemption.
THEOREM LocksInvariance == LocksSpec => []LocksIInv
BY LocksInitIInv, LocksNextIInv, PTL DEF LocksSpec

\* The handler of the timer never finds proc_table_lock taken by the thread it
\* interrupted, and without preemption no thread finds heap_lock taken: neither
\* can spin for ever.
THEOREM LocksFreeWhenNeeded == LocksSpec => []LockFreeWhenNeeded
<1>1. LocksIInv => HandlerFindsLockFree
  BY DEF LocksIInv, LocksTypeOK, TableSection, HandlerFindsLockFree
<1>2. LocksIInv => NoContentionOnX86
  BY DEF LocksIInv, LocksTypeOK, NoPreemption, NoContentionOnX86
<1> QED BY <1>1, <1>2, LocksInvariance, PTL DEF LockFreeWhenNeeded, LocksIInv

\* A process that has been through process_schedule runs its own code with
\* interrupts enabled, whichever thread masked them, and whichever switch
\* brought the process back.
THEOREM LocksInterruptsComeBack == LocksSpec => []InterruptsComeBack
<1>1. LocksIInv => InterruptsComeBack
  BY DEF LocksIInv, MaskCarried, InterruptsComeBack
<1> QED BY <1>1, LocksInvariance, PTL
=============================================================================
