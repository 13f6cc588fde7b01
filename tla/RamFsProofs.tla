---------------------------- MODULE RamFsProofs ----------------------------
(***************************************************************************)
(* Proofs about RamFs for every number of inodes, descriptors, components  *)
(* and bytes, and paths of every length.  Everything rests on one          *)
(* invariant of all the lists, those the root does not reach any more      *)
(* included: what is in a list is allocated, is there once, and has the    *)
(* directory it is in as its parent.  A path is then the only one that     *)
(* leads where it leads, and what a call does to one list is seen only     *)
(* through the paths it was called with.                                   *)
(***************************************************************************)
EXTENDS RamFs, SequenceTheorems, FiniteSetTheorems, WellFoundedInduction, TLAPS

-----------------------------------------------------------------------------
(* The inductive invariant. *)

\* The lists, of every inode.
Lists ==
  /\ kind[Root] = "dir" /\ parent[Root] = NULL
  /\ \A d \in Inodes :
       /\ IsInjective(children[d])
       /\ \A c \in Range(children[d]) : kind[c] # "free" /\ parent[c] = d /\ c # Root

TreeInv ==
  /\ kind \in [Inodes -> {"dir", "file", "free"}]
  /\ name \in [Inodes -> Paths \cup {<<>>}]
  /\ parent \in [Inodes -> Inodes \cup {NULL}]
  /\ children \in [Inodes -> Seq(Inodes)]
  /\ next_ino \in 2 .. MaxIno + 1 /\ inode_count = Cardinality(Live)
  /\ Lists

\* A buffer holds bytes without a gap, and the file's size of them.
DataInv ==
  /\ data = [i \in Inodes |-> data[i]]
  /\ size \in [Inodes -> 0 .. MaxSize]
  /\ \A i \in Inodes : /\ capacity(i) \in Nat /\ size[i] <= capacity(i)
                       /\ data[i] \in [0 .. capacity(i) - 1 -> Bytes \cup {JUNK}]

FdInv ==
  /\ fd_table \in [Fds -> Files \cup {NULL}]
  /\ stale \subseteq {fd \in Fds : fd_table[fd] # NULL}
  /\ booting \in BOOLEAN

IInv == TreeInv /\ DataInv /\ FdInv /\ HeldLive

-----------------------------------------------------------------------------
(* Numbers and sequences. *)

\* Every set of numbers that is not empty has a least element.
LEMMA LeastElement ==
  ASSUME NEW S \in SUBSET Nat, S # {}
  PROVE  Min(S) \in S /\ \A y \in S : Min(S) <= y
<1> DEFINE R == OpToRel(<, Nat)
<1>1. IsWellFoundedOn(R, Nat)
  BY NatLessThanWellFounded
<1>2. \A x, y \in Nat : (<<y, x>> \in R) <=> y < x
  BY DEF OpToRel
<1> HIDE DEF R
<1>3. PICK x \in S : \A y \in S : ~ (<<y, x>> \in R)
  BY <1>1, WFMin
<1>4. x \in Nat /\ \A y \in S : y \in Nat
  OBVIOUS
<1>5. ASSUME NEW y \in S PROVE x <= y
  <2>1. ~ (y < x)
    BY <1>2, <1>3, <1>4
  <2> QED BY <1>4, <2>1
<1> QED BY <1>5 DEF Min

\* Induction: a set of numbers that has zero and every successor has them all.
LEMMA AllNumbers ==
  ASSUME NEW S \in SUBSET Nat, 0 \in S, \A n \in S : n + 1 \in S
  PROVE  S = Nat
<1> DEFINE T == Nat \ S
<1>1. SUFFICES ASSUME T # {} PROVE FALSE
  OBVIOUS
<1> DEFINE m == Min(T)
<1>2. m \in T /\ \A y \in T : m <= y
  BY <1>1, LeastElement
<1> HIDE DEF m
<1>3. m \in Nat /\ m # 0
  BY <1>2
<1>4. m - 1 \in Nat /\ ~ (m <= m - 1)
  BY <1>3
<1>5. m - 1 \in S
  BY <1>2, <1>4
<1>6. (m - 1) + 1 \in S
  BY <1>5
<1>7. (m - 1) + 1 = m
  BY <1>3
<1> QED BY <1>2, <1>6, <1>7

LEMMA ListRange ==
  ASSUME NEW T, NEW s \in Seq(T)
  PROVE  \A x : x \in Range(s) <=> \E n \in 1 .. Len(s) : x = s[n]
<1>1. DOMAIN s = 1 .. Len(s)
  OBVIOUS
<1>2. \A x : x \in Range(s) <=> \E n \in DOMAIN s : x = s[n]
  BY DEF Range
<1> QED BY ONLY <1>1, <1>2

LEMMA RangeType ==
  ASSUME NEW T, NEW s \in Seq(T)
  PROVE  Range(s) \subseteq T
<1>1. \A n \in 1 .. Len(s) : s[n] \in T
  OBVIOUS
<1> QED BY <1>1, ListRange

\* What a new element at the front of a list does.
LEMMA Prepended ==
  ASSUME NEW T, NEW s \in Seq(T), NEW e \in T
  PROVE  /\ <<e>> \o s \in Seq(T)
         /\ Len(<<e>> \o s) = Len(s) + 1
         /\ (<<e>> \o s)[1] = e
         /\ \A n \in 1 .. Len(s) : (<<e>> \o s)[n + 1] = s[n]
         /\ Range(<<e>> \o s) = Range(s) \cup {e}
         /\ IsInjective(s) /\ e \notin Range(s) => IsInjective(<<e>> \o s)
<1> DEFINE r == <<e>> \o s
<1>1. <<e>> \in Seq(T) /\ Len(<<e>>) = 1 /\ <<e>>[1] = e /\ Len(s) \in Nat
  OBVIOUS
<1>2. /\ r \in Seq(T) /\ Len(r) = 1 + Len(s)
      /\ \A n \in 1 .. 1 + Len(s) : r[n] = IF n <= 1 THEN <<e>>[n] ELSE s[n - 1]
  BY <1>1, ConcatProperties
<1> HIDE DEF r
<1>3. r[1] = e /\ \A n \in 1 .. Len(s) : r[n + 1] = s[n]
  <2>1. 1 \in 1 .. 1 + Len(s)
    BY <1>1
  <2>2. r[1] = <<e>>[1]
    BY <2>1, <1>2
  <2>3. ASSUME NEW n \in 1 .. Len(s) PROVE r[n + 1] = s[n]
    <3>1. n + 1 \in 1 .. 1 + Len(s) /\ ~ (n + 1 <= 1) /\ (n + 1) - 1 = n
      BY <1>1
    <3> QED BY <3>1, <1>2
  <2> QED BY <2>2, <2>3, <1>1
<1>4. DOMAIN r = 1 .. Len(s) + 1 /\ DOMAIN s = 1 .. Len(s)
  BY <1>2, <1>1
<1>5. \A n \in DOMAIN r : n = 1 \/ (n - 1 \in 1 .. Len(s) /\ r[n] = s[n - 1])
  BY <1>1, <1>2, <1>4
<1>6. \A n \in 1 .. Len(s) : n + 1 \in DOMAIN r
  BY <1>1, <1>4
<1>7. Range(r) = Range(s) \cup {e}
  <2>1. ASSUME NEW x, x \in Range(r) PROVE x \in Range(s) \cup {e}
    BY <2>1, <1>3, <1>4, <1>5 DEF Range
  <2>2. ASSUME NEW x, x \in Range(s) PROVE x \in Range(r)
    BY <2>2, <1>3, <1>4, <1>6 DEF Range
  <2>3. 1 \in DOMAIN r
    BY <1>1, <1>4
  <2>4. e \in Range(r)
    BY <2>3, <1>3 DEF Range
  <2> QED BY <2>1, <2>2, <2>4
<1>8. ASSUME IsInjective(s), e \notin Range(s) PROVE IsInjective(r)
  <2>1. ASSUME NEW a \in DOMAIN r, NEW b \in DOMAIN r, r[a] = r[b] PROVE a = b
    <3>1. \A n \in 1 .. Len(s) : s[n] # e
      BY <1>8, <1>4 DEF Range
    <3>2. \A m, n \in 1 .. Len(s) : s[m] = s[n] => m = n
      BY <1>8, <1>4 DEF IsInjective
    <3>3. a \in Int /\ b \in Int
      BY <1>1, <1>4
    <3> QED BY <2>1, <3>1, <3>2, <3>3, <1>3, <1>5
  <2> QED BY <2>1 DEF IsInjective
<1> QED BY <1>1, <1>2, <1>3, <1>7, <1>8 DEF r

\* What taking the first occurrence of an element out of a list leaves.
LEMMA Removed ==
  ASSUME NEW T, NEW s \in Seq(T), NEW e \in Range(s)
  PROVE  \E k \in 1 .. Len(s) :
           /\ s[k] = e
           /\ RemoveFirst(s, e) \in Seq(T)
           /\ Len(RemoveFirst(s, e)) = Len(s) - 1
           /\ \A n \in 1 .. Len(s) - 1 :
                RemoveFirst(s, e)[n] = IF n < k THEN s[n] ELSE s[n + 1]
<1> DEFINE I == {n \in 1 .. Len(s) : s[n] = e}
           k == Min(I)
           a == SubSeq(s, 1, k - 1)
           b == SubSeq(s, k + 1, Len(s))
           r == a \o b
<1>1. Len(s) \in Nat /\ \E n \in 1 .. Len(s) : s[n] = e
  <2>1. \E n \in 1 .. Len(s) : e = s[n]
    BY ListRange
  <2> QED BY <2>1
<1>2. I \in SUBSET Nat /\ I # {}
  BY <1>1
<1>3. k \in I
  BY <1>2, LeastElement
<1>4. RemoveFirst(s, e) = r
  <2>1. SelectInSeq(s, LAMBDA v : v = e) = k
    BY <1>2 DEF SelectInSeq
  <2> QED BY <1>1, <2>1 DEF RemoveFirst, RemoveAt
<1>5. k \in 1 .. Len(s) /\ s[k] = e
  BY <1>3
<1> HIDE DEF k, I
<1>6. /\ a \in Seq(T) /\ Len(a) = k - 1
      /\ \A n \in 1 .. Len(a) : a[n] = s[n]
  BY <1>1, <1>5
<1>7. /\ b \in Seq(T) /\ Len(b) = Len(s) - k
      /\ \A n \in 1 .. Len(b) : b[n] = s[k + n]
  BY <1>1, <1>5
<1> HIDE DEF a, b
<1>8. /\ r \in Seq(T) /\ Len(r) = Len(a) + Len(b)
      /\ \A n \in 1 .. Len(a) + Len(b) : r[n] = IF n <= Len(a) THEN a[n] ELSE b[n - Len(a)]
  BY <1>6, <1>7, ConcatProperties
<1> HIDE DEF r
<1>9. ASSUME NEW n \in 1 .. Len(s) - 1 PROVE r[n] = IF n < k THEN s[n] ELSE s[n + 1]
  <2>1. n \in 1 .. Len(a) + Len(b) /\ n \in Int /\ k \in Int
    BY <1>1, <1>5, <1>6, <1>7
  <2>2. CASE n < k
    <3>1. n <= Len(a) /\ n \in 1 .. Len(a)
      BY <2>1, <2>2, <1>6
    <3> QED BY <3>1, <2>1, <2>2, <1>6, <1>8
  <2>3. CASE ~ (n < k)
    <3> DEFINE m == n - Len(a)
    <3>1. ~ (n <= Len(a)) /\ m \in 1 .. Len(b) /\ k + m = n + 1
      BY <2>1, <2>3, <1>1, <1>5, <1>6, <1>7
    <3>2. r[n] = b[m]
      BY <3>1, <2>1, <1>8
    <3> HIDE DEF m
    <3>3. b[m] = s[k + m]
      BY <3>1, <1>7
    <3> QED BY <3>1, <3>2, <3>3, <2>3
  <2> QED BY <2>2, <2>3
<1>10. Len(r) = Len(s) - 1
  BY <1>1, <1>5, <1>6, <1>7, <1>8
<1> QED BY <1>4, <1>5, <1>8, <1>9, <1>10

\* A list without repetition loses the element and nothing else.
LEMMA RemovedRange ==
  ASSUME NEW T, NEW s \in Seq(T), NEW e \in Range(s), IsInjective(s)
  PROVE  /\ RemoveFirst(s, e) \in Seq(T)
         /\ IsInjective(RemoveFirst(s, e))
         /\ Range(RemoveFirst(s, e)) = Range(s) \ {e}
<1> DEFINE r == RemoveFirst(s, e)
<1>1. PICK k \in 1 .. Len(s) :
        /\ s[k] = e /\ r \in Seq(T) /\ Len(r) = Len(s) - 1
        /\ \A n \in 1 .. Len(s) - 1 : r[n] = IF n < k THEN s[n] ELSE s[n + 1]
  BY Removed
<1> HIDE DEF r
<1>2. /\ DOMAIN s = 1 .. Len(s) /\ Len(s) \in Nat /\ DOMAIN r = 1 .. Len(s) - 1
      /\ \A m, n \in 1 .. Len(s) : s[m] = s[n] => m = n
  BY <1>1 DEF IsInjective
<1>3. \A n \in 1 .. Len(s) - 1 : \/ n < k /\ n \in 1 .. Len(s) /\ r[n] = s[n]
                                 \/ ~ (n < k) /\ n + 1 \in 1 .. Len(s) /\ r[n] = s[n + 1]
  BY <1>1, <1>2
<1>4. IsInjective(r)
  <2>1. ASSUME NEW m \in 1 .. Len(s) - 1, NEW n \in 1 .. Len(s) - 1, r[m] = r[n]
        PROVE  m = n
    <3>1. m \in Int /\ n \in Int /\ k \in Int
      BY <1>2
    <3>2. \/ m < k /\ m \in 1 .. Len(s) /\ r[m] = s[m]
          \/ ~ (m < k) /\ m + 1 \in 1 .. Len(s) /\ r[m] = s[m + 1]
      BY <1>3
    <3>3. \/ n < k /\ n \in 1 .. Len(s) /\ r[n] = s[n]
          \/ ~ (n < k) /\ n + 1 \in 1 .. Len(s) /\ r[n] = s[n + 1]
      BY <1>3
    <3> QED BY <2>1, <3>1, <3>2, <3>3, <1>2
  <2> QED BY <2>1, <1>2 DEF IsInjective
<1>5. ASSUME NEW x, x \in Range(r) PROVE x \in Range(s) \ {e}
  <2>1. PICK n \in 1 .. Len(s) - 1 : x = r[n]
    BY <1>5, <1>2 DEF Range
  <2>2. \/ n < k /\ n \in 1 .. Len(s) /\ r[n] = s[n]
        \/ ~ (n < k) /\ n + 1 \in 1 .. Len(s) /\ r[n] = s[n + 1]
    BY <1>3
  <2>3. PICK l \in 1 .. Len(s) : x = s[l] /\ l # k
    BY <2>1, <2>2, <1>2
  <2> QED BY <2>3, <1>1, <1>2 DEF Range
<1>6. ASSUME NEW x, x \in Range(s), x # e PROVE x \in Range(r)
  <2>1. PICK l \in 1 .. Len(s) : x = s[l] /\ l # k
    BY <1>6, <1>1, <1>2 DEF Range
  <2>2. l \in Int /\ k \in Int
    BY <1>2
  <2>3. CASE l < k
    <3>1. l \in 1 .. Len(s) - 1
      BY <2>3, <2>2, <1>2
    <3>2. r[l] = s[l]
      BY <3>1, <2>3, <1>1
    <3> QED BY <3>1, <3>2, <2>1, <1>2 DEF Range
  <2>4. CASE k < l
    <3>1. l - 1 \in 1 .. Len(s) - 1 /\ ~ (l - 1 < k) /\ (l - 1) + 1 = l
      BY <2>4, <2>2, <1>2
    <3>2. r[l - 1] = s[l]
      BY <3>1, <1>1
    <3> QED BY <3>1, <3>2, <2>1, <1>2 DEF Range
  <2> QED BY <2>1, <2>2, <2>3, <2>4
<1> QED BY <1>1, <1>4, <1>5, <1>6 DEF r

-----------------------------------------------------------------------------
(* Looking a name up in a list.                                            *)

\* The first member of the list s that nm is the name of, by the names N.
FirstOf(s, N, nm) ==
  LET hits == {n \in DOMAIN s : N[s[n]] = nm}
  IN  IF hits = {} THEN NULL ELSE s[Min(hits)]

\* It stands at the place k.
FirstAt(s, N, nm, k) ==
  /\ k \in 1 .. Len(s) /\ N[s[k]] = nm
  /\ \A n \in 1 .. Len(s) : n < k => N[s[n]] # nm

LEMMA LookupIsFirst ==
  \A d, nm : lookup_child(d, nm) =
               IF kind[d] = "dir" THEN FirstOf(children[d], name, nm) ELSE NULL
BY DEF lookup_child, FirstOf

\* NULL is not an inode.
LEMMA NullIsNoInode == NULL \notin Inodes
BY RamFsAssumption DEF Inodes

\* What the result of a lookup says, and what is enough to know it.
LEMMA FirstFacts ==
  ASSUME NEW s \in Seq(Inodes), NEW N, NEW nm
  PROVE  /\ FirstOf(s, N, nm) = NULL => \A n \in 1 .. Len(s) : N[s[n]] # nm
         /\ FirstOf(s, N, nm) # NULL =>
              \E k : FirstAt(s, N, nm, k) /\ FirstOf(s, N, nm) = s[k]
<1> DEFINE hits == {n \in DOMAIN s : N[s[n]] = nm}
<1>1. DOMAIN s = 1 .. Len(s) /\ hits \in SUBSET Nat
  BY ListRange
<1>2. CASE hits = {}
  <2>1. FirstOf(s, N, nm) = NULL
    BY <1>2 DEF FirstOf
  <2> QED BY <1>1, <1>2, <2>1
<1>3. CASE hits # {}
  <2> DEFINE k == Min(hits)
  <2>1. k \in hits /\ \A n \in hits : k <= n
    BY <1>1, <1>3, LeastElement
  <2>2. FirstOf(s, N, nm) = s[k]
    BY <1>3 DEF FirstOf
  <2> HIDE DEF k
  <2>3. k \in 1 .. Len(s) /\ N[s[k]] = nm
    BY <1>1, <2>1
  <2>4. \A n \in 1 .. Len(s) : n < k => N[s[n]] # nm
    <3> SUFFICES ASSUME NEW n \in 1 .. Len(s), n < k, N[s[n]] = nm PROVE FALSE
      OBVIOUS
    <3>1. n \in hits
      BY <1>1
    <3>2. k <= n
      BY <2>1, <3>1
    <3> QED BY <3>2, <2>3
  <2>5. s[k] # NULL
    BY <2>3, NullIsNoInode
  <2>6. FirstAt(s, N, nm, k)
    BY <2>3, <2>4 DEF FirstAt
  <2> QED BY <2>2, <2>5, <2>6
<1> QED BY <1>2, <1>3

LEMMA FirstIs ==
  ASSUME NEW s \in Seq(Inodes), NEW N, NEW nm, NEW k, FirstAt(s, N, nm, k)
  PROVE  FirstOf(s, N, nm) = s[k]
<1>1. FirstOf(s, N, nm) # NULL
  BY FirstFacts DEF FirstAt
<1>2. PICK j : FirstAt(s, N, nm, j) /\ FirstOf(s, N, nm) = s[j]
  BY <1>1, FirstFacts
<1>3. Len(s) \in Nat /\ ~ (j < k) /\ ~ (k < j) /\ j \in Int /\ k \in Int
  BY <1>2 DEF FirstAt
<1>4. j = k
  BY <1>3
<1> QED BY <1>2, <1>4

LEMMA FirstInRange ==
  ASSUME NEW s \in Seq(Inodes), NEW N, NEW nm
  PROVE  /\ FirstOf(s, N, nm) = NULL <=> \A c \in Range(s) : N[c] # nm
         /\ FirstOf(s, N, nm) # NULL =>
              FirstOf(s, N, nm) \in Range(s) /\ N[FirstOf(s, N, nm)] = nm
<1>1. \A x : x \in Range(s) <=> \E n \in 1 .. Len(s) : x = s[n]
  BY ListRange
<1> QED BY <1>1, FirstFacts DEF FirstAt

\* The three things that happen to a list and its names: a member in front, a
\* member of another name gone, members renamed neither from nor to the name.
LEMMA FirstPrepended ==
  ASSUME NEW s \in Seq(Inodes), NEW e \in Inodes, NEW N, NEW nm
  PROVE  FirstOf(<<e>> \o s, N, nm) = IF N[e] = nm THEN e ELSE FirstOf(s, N, nm)
<1> DEFINE r == <<e>> \o s
<1>1. /\ r \in Seq(Inodes) /\ Len(r) = Len(s) + 1 /\ Len(s) \in Nat
      /\ r[1] = e /\ \A n \in 1 .. Len(s) : r[n + 1] = s[n]
  BY Prepended
<1> HIDE DEF r
<1>2. \A n \in 1 .. Len(r) : n = 1 \/ (n - 1 \in 1 .. Len(s) /\ r[n] = s[n - 1])
  BY <1>1
<1>3. CASE N[e] = nm
  <2>1. FirstAt(r, N, nm, 1)
    BY <1>1, <1>3 DEF FirstAt
  <2>2. FirstOf(r, N, nm) = r[1]
    BY <1>1, <2>1, FirstIs
  <2> QED BY <1>1, <1>3, <2>2 DEF r
<1>4. CASE N[e] # nm /\ FirstOf(s, N, nm) = NULL
  <2>1. \A n \in 1 .. Len(s) : N[s[n]] # nm
    BY <1>4, FirstFacts
  <2>2. \A n \in 1 .. Len(r) : N[r[n]] # nm
    BY <1>1, <1>2, <1>4, <2>1
  <2>3. FirstOf(r, N, nm) = NULL
    BY <1>1, <2>2, FirstFacts DEF FirstAt
  <2> QED BY <1>4, <2>3 DEF r
<1>5. CASE N[e] # nm /\ FirstOf(s, N, nm) # NULL
  <2>0. PICK k : FirstAt(s, N, nm, k) /\ FirstOf(s, N, nm) = s[k]
    BY <1>5, FirstFacts
  <2>1. /\ k \in 1 .. Len(s) /\ N[s[k]] = nm
        /\ \A n \in 1 .. Len(s) : n < k => N[s[n]] # nm
    BY <2>0 DEF FirstAt
  <2> DEFINE l == k + 1
  <2>2. l \in 1 .. Len(r) /\ r[l] = s[k]
    BY <2>1, <1>1
  <2>3. ASSUME NEW n \in 1 .. Len(r), n < l PROVE N[r[n]] # nm
    <3>1. CASE n = 1
      BY <3>1, <1>1, <1>5
    <3>2. CASE n - 1 \in 1 .. Len(s) /\ r[n] = s[n - 1]
      <4>1. n - 1 < k
        BY <2>3, <2>1, <1>1
      <4> QED BY <3>2, <4>1, <2>1
    <3> QED BY <3>1, <3>2, <1>2
  <2> HIDE DEF l
  <2>4. FirstAt(r, N, nm, l)
    BY <2>1, <2>2, <2>3 DEF FirstAt
  <2>5. FirstOf(r, N, nm) = r[l]
    BY <1>1, <2>4, FirstIs
  <2> QED BY <1>5, <2>0, <2>2, <2>5 DEF r
<1> QED BY <1>3, <1>4, <1>5

LEMMA FirstRemoved ==
  ASSUME NEW s \in Seq(Inodes), NEW e \in Range(s), NEW N, NEW nm, N[e] # nm
  PROVE  FirstOf(RemoveFirst(s, e), N, nm) = FirstOf(s, N, nm)
<1> DEFINE r == RemoveFirst(s, e)
<1>1. PICK k \in 1 .. Len(s) :
        /\ s[k] = e /\ r \in Seq(Inodes) /\ Len(r) = Len(s) - 1
        /\ \A n \in 1 .. Len(s) - 1 : r[n] = IF n < k THEN s[n] ELSE s[n + 1]
  BY Removed
<1> HIDE DEF r
<1>2. Len(s) \in Nat /\ k \in Int
  BY <1>1
<1>3. \A n \in 1 .. Len(r) : \/ n < k /\ n \in 1 .. Len(s) /\ r[n] = s[n]
                             \/ ~ (n < k) /\ n + 1 \in 1 .. Len(s) /\ r[n] = s[n + 1]
  BY <1>1, <1>2
<1>4. CASE FirstOf(s, N, nm) = NULL
  <2>1. \A n \in 1 .. Len(s) : N[s[n]] # nm
    BY <1>4, FirstFacts
  <2>2. \A n \in 1 .. Len(r) : N[r[n]] # nm
    BY <1>3, <2>1
  <2>3. FirstOf(r, N, nm) = NULL
    BY <1>1, <2>2, FirstFacts DEF FirstAt
  <2> QED BY <1>4, <2>3 DEF r
<1>5. CASE FirstOf(s, N, nm) # NULL
  <2>0. PICK j : FirstAt(s, N, nm, j) /\ FirstOf(s, N, nm) = s[j]
    BY <1>5, FirstFacts
  <2>1. /\ j \in 1 .. Len(s) /\ N[s[j]] = nm
        /\ \A n \in 1 .. Len(s) : n < j => N[s[n]] # nm
    BY <2>0 DEF FirstAt
  <2>2. j # k /\ j \in Int
    BY <1>1, <1>2, <2>1
  <2> DEFINE l == IF j < k THEN j ELSE j - 1
  <2>3. l \in 1 .. Len(r) /\ r[l] = s[j]
    <3>1. CASE j < k
      <4>1. l = j /\ j \in 1 .. Len(s) - 1
        BY <3>1, <1>1, <2>1, <1>2, <2>2
      <4> QED BY <4>1, <3>1, <1>1
    <3>2. CASE k < j
      <4>1. l = j - 1 /\ l \in 1 .. Len(s) - 1 /\ ~ (l < k) /\ l + 1 = j
        BY <3>2, <1>1, <2>1, <1>2, <2>2
      <4> HIDE DEF l
      <4> QED BY <4>1, <1>1
    <3> QED BY <3>1, <3>2, <1>2, <2>2
  <2>4. ASSUME NEW n \in 1 .. Len(r), n < l PROVE N[r[n]] # nm
    <3>1. n \in Int /\ n < j /\ (~ (n < k) => n + 1 < j)
      BY <2>4, <1>2, <2>2
    <3> QED BY <3>1, <1>3, <2>1
  <2> HIDE DEF l
  <2>5. FirstAt(r, N, nm, l)
    BY <2>1, <2>3, <2>4 DEF FirstAt
  <2>6. FirstOf(r, N, nm) = r[l]
    BY <1>1, <2>5, FirstIs
  <2> QED BY <2>0, <2>3, <2>6 DEF r
<1> QED BY <1>4, <1>5

LEMMA FirstRenamed ==
  ASSUME NEW s \in Seq(Inodes), NEW N, NEW M, NEW nm,
         \A c \in Range(s) : N[c] = nm <=> M[c] = nm
  PROVE  FirstOf(s, M, nm) = FirstOf(s, N, nm)
<1>1. \A n \in 1 .. Len(s) : N[s[n]] = nm <=> M[s[n]] = nm
  BY ListRange
<1>2. CASE FirstOf(s, N, nm) = NULL
  <2>1. \A n \in 1 .. Len(s) : M[s[n]] # nm
    BY <1>1, <1>2, FirstFacts
  <2> QED BY <1>2, <2>1, FirstFacts DEF FirstAt
<1>3. CASE FirstOf(s, N, nm) # NULL
  <2>1. PICK k : FirstAt(s, N, nm, k) /\ FirstOf(s, N, nm) = s[k]
    BY <1>3, FirstFacts
  <2>2. FirstAt(s, M, nm, k)
    BY <1>1, <2>1 DEF FirstAt
  <2>3. FirstOf(s, M, nm) = s[k]
    BY <2>2, FirstIs
  <2> QED BY <2>1, <2>3
<1> QED BY <1>2, <1>3

-----------------------------------------------------------------------------
(* Walking the tree. *)

\* The inodes that the first n components of a path lead to.
IsWalk(path, w) ==
  /\ w[0] = Root
  /\ \A n \in 1 .. Len(path) :
       w[n] = IF w[n - 1] = NULL THEN NULL ELSE lookup_child(w[n - 1], <<path[n]>>)

\* lookup_parent and resolve walk the tree, below the root.
Walks(path) ==
  \E w \in [0 .. Len(path) -> Reachable \cup {NULL}] :
    /\ IsWalk(path, w)
    /\ lookup_parent(path) = w[Len(path) - 1]
    /\ resolve(path) = w[Len(path)]

LEMMA PathFacts ==
  ASSUME NEW path \in Paths
  PROVE  /\ path \in Seq(Components) /\ Len(path) \in 1 .. MaxDepth
         /\ Len(path) \in Nat /\ Len(path) >= 1
         /\ LastName(path) \in Paths
<1>1. PICK n \in 1 .. MaxDepth : path \in [1 .. n -> Components]
  BY DEF Paths
<1>2. n \in Nat /\ n >= 1 /\ 1 \in 1 .. MaxDepth
  BY RamFsAssumption
<1>3. path \in Seq(Components) /\ Len(path) = n
  BY <1>1, <1>2
<1>4. path[n] \in Components
  BY <1>1, <1>2
<1>5. LastName(path) \in [1 .. 1 -> Components]
  BY <1>3, <1>4 DEF LastName
<1> QED BY <1>2, <1>3, <1>5 DEF Paths

\* What a lookup finds is in the list of the directory it is made in.
LEMMA LookupFacts ==
  IInv => \A d \in Inodes : \A nm : lookup_child(d, nm) # NULL =>
    /\ lookup_child(d, nm) \in ListOf(d) \cap Inodes /\ kind[d] = "dir"
    /\ lookup_child(d, nm) \in Range(children[d])
    /\ name[lookup_child(d, nm)] = nm
    /\ parent[lookup_child(d, nm)] = d
    /\ lookup_child(d, nm) # Root /\ kind[lookup_child(d, nm)] # "free"
<1> SUFFICES ASSUME IInv, NEW d \in Inodes, NEW nm, lookup_child(d, nm) # NULL
             PROVE  /\ lookup_child(d, nm) \in ListOf(d) \cap Inodes /\ kind[d] = "dir"
                    /\ lookup_child(d, nm) \in Range(children[d])
                    /\ name[lookup_child(d, nm)] = nm
                    /\ parent[lookup_child(d, nm)] = d
                    /\ lookup_child(d, nm) # Root /\ kind[lookup_child(d, nm)] # "free"
  OBVIOUS
<1>1. children[d] \in Seq(Inodes)
  BY DEF IInv, TreeInv
<1>2. kind[d] = "dir" /\ lookup_child(d, nm) = FirstOf(children[d], name, nm)
  BY LookupIsFirst
<1>3. lookup_child(d, nm) \in Range(children[d]) /\ name[lookup_child(d, nm)] = nm
  BY <1>1, <1>2, FirstInRange
<1>4. lookup_child(d, nm) \in Inodes
  BY <1>1, <1>3, RangeType
<1> QED BY <1>2, <1>3, <1>4 DEF IInv, TreeInv, Lists, ListOf

\* What the root reaches, and how.
LEMMA ReachableFacts ==
  IInv => /\ Root \in Reachable /\ Reachable \subseteq Live
          /\ \A d \in Reachable : ListOf(d) \subseteq Reachable
          /\ \A S \in SUBSET Inodes : Closed(S) => Reachable \subseteq S
          /\ \A e \in Reachable \ {Root} : \E d \in Reachable : e \in ListOf(d)
<1> SUFFICES ASSUME IInv
             PROVE  /\ Root \in Reachable /\ Reachable \subseteq Live
                    /\ \A d \in Reachable : ListOf(d) \subseteq Reachable
                    /\ \A S \in SUBSET Inodes : Closed(S) => Reachable \subseteq S
                    /\ \A e \in Reachable \ {Root} : \E d \in Reachable : e \in ListOf(d)
  OBVIOUS
<1>1. Root \in Inodes /\ Reachable \in SUBSET Inodes
  BY RamFsAssumption DEF Root, Inodes, Reachable
<1>2. \A S \in SUBSET Inodes : Closed(S) => Reachable \subseteq S
  BY DEF Reachable
<1>3. \A d \in Inodes : ListOf(d) \subseteq Live
  <2> SUFFICES ASSUME NEW d \in Inodes, NEW c \in ListOf(d) PROVE c \in Live
    OBVIOUS
  <2>1. children[d] \in Seq(Inodes)
    BY DEF IInv, TreeInv
  <2>2. c \in Range(children[d])
    BY DEF ListOf
  <2>3. c \in Inodes /\ kind[c] # "free"
    BY <2>1, <2>2, RangeType DEF IInv, TreeInv, Lists
  <2> QED BY <2>3 DEF Live
<1>4. Root \in Reachable
  BY <1>1 DEF Reachable, Closed
<1>5. ASSUME NEW d \in Reachable, NEW c \in ListOf(d) PROVE c \in Reachable
  <2>1. c \in Inodes
    BY <1>1, <1>3 DEF Live
  <2>2. ASSUME NEW S \in SUBSET Inodes, Closed(S) PROVE c \in S
    BY <2>2, <1>2 DEF Closed
  <2> QED BY <2>1, <2>2 DEF Reachable
<1>6. Reachable \subseteq Live
  <2>1. Live \in SUBSET Inodes /\ Root \in Live
    BY <1>1 DEF Live, IInv, TreeInv, Lists
  <2>2. Closed(Live)
    BY <1>3, <2>1 DEF Closed
  <2> QED BY <1>2, <2>1, <2>2
<1>7. ASSUME NEW e \in Reachable \ {Root} PROVE \E d \in Reachable : e \in ListOf(d)
  <2> SUFFICES ASSUME \A d \in Reachable : e \notin ListOf(d) PROVE FALSE
    OBVIOUS
  <2> DEFINE S == Reachable \ {e}
  <2>1. S \in SUBSET Inodes /\ Root \in S
    BY <1>1, <1>4
  <2>2. \A d \in S : ListOf(d) \subseteq S
    BY <1>5
  <2>3. Closed(S)
    BY <2>1, <2>2 DEF Closed
  <2> QED BY <1>2, <2>1, <2>3
<1> QED BY <1>2, <1>4, <1>5, <1>6, <1>7

LEMMA WalkExists == IInv => \A path \in Paths : Walks(path)
<1> SUFFICES ASSUME IInv, NEW path \in Paths PROVE Walks(path)
  OBVIOUS
<1> DEFINE K == Len(path) - 1
           Up(g, n) == IF n = 0 THEN Root
                       ELSE IF g[n - 1] = NULL THEN NULL
                       ELSE lookup_child(g[n - 1], <<path[n]>>)
           Good == {N \in Nat : \E g : g = [n \in 0 .. N |-> Up(g, n)]}
           walk == CHOOSE g : g = [n \in 0 .. K |-> Up(g, n)]
<1>1. Len(path) \in Nat /\ K \in Nat /\ Len(path) = K + 1 /\ Len(path) - 1 = K
  BY PathFacts
<1> HIDE DEF K
<1>2. 0 \in Good
  <2> DEFINE g == [n \in 0 .. 0 |-> Root]
  <2>1. g = [n \in 0 .. 0 |-> Up(g, n)]
    OBVIOUS
  <2> QED BY <2>1
<1>3. ASSUME NEW N \in Good PROVE N + 1 \in Good
  <2>1. PICK g : g = [n \in 0 .. N |-> Up(g, n)]
    OBVIOUS
  <2> DEFINE h == [n \in 0 .. N + 1 |-> IF n = N + 1 THEN Up(g, n) ELSE g[n]]
  <2>2. ASSUME NEW n \in 0 .. N + 1 PROVE h[n] = Up(h, n)
    <3>1. n # 0 => n - 1 \in 0 .. N + 1 /\ n - 1 # N + 1 /\ h[n - 1] = g[n - 1]
      OBVIOUS
    <3>2. Up(h, n) = Up(g, n)
      BY <3>1
    <3>3. n # N + 1 => n \in 0 .. N
      OBVIOUS
    <3>4. n # N + 1 => g[n] = Up(g, n)
      BY <2>1, <3>3
    <3> QED BY <3>2, <3>4
  <2>3. h = [n \in 0 .. N + 1 |-> Up(h, n)]
    BY <2>2
  <2> HIDE DEF h
  <2>4. \E f : f = [n \in 0 .. N + 1 |-> Up(f, n)]
    BY <2>3
  <2>5. N + 1 \in Nat
    OBVIOUS
  <2> QED BY <2>4, <2>5
<1>4. Good = Nat
  <2>1. Good \in SUBSET Nat
    OBVIOUS
  <2> HIDE DEF Good
  <2> QED BY <1>2, <1>3, <2>1, AllNumbers
<1>5. \E g : g = [n \in 0 .. K |-> Up(g, n)]
  BY <1>1, <1>4
<1>6. walk = [n \in 0 .. K |-> Up(walk, n)]
  BY <1>5
<1>7. lookup_parent(path) = walk[K]
  BY DEF lookup_parent, K
<1> HIDE DEF walk
<1> DEFINE w == [n \in 0 .. Len(path) |-> IF n = Len(path) THEN resolve(path) ELSE walk[n]]
<1>8. w[0] = Root /\ w[K] = walk[K] /\ w[Len(path)] = resolve(path)
  <2>1. /\ 0 \in 0 .. Len(path) /\ 0 # Len(path) /\ 0 \in 0 .. K
        /\ K \in 0 .. Len(path) /\ K # Len(path)
        /\ Len(path) \in 0 .. Len(path)
    BY ONLY <1>1
  <2>2. walk[0] = Up(walk, 0)
    BY <2>1, <1>6
  <2> QED BY <2>1, <2>2
<1>9. ASSUME NEW n \in 1 .. Len(path)
      PROVE  w[n] = IF w[n - 1] = NULL THEN NULL ELSE lookup_child(w[n - 1], <<path[n]>>)
  <2>0. n - 1 \in 0 .. Len(path) /\ n - 1 # Len(path) /\ n \in 0 .. Len(path)
    BY ONLY <1>1, n \in 1 .. Len(path)
  <2>1. w[n - 1] = walk[n - 1]
    BY <2>0
  <2>2. CASE n = Len(path)
    <3>1. n - 1 = K /\ w[n - 1] = lookup_parent(path) /\ w[n] = resolve(path)
      BY <1>1, <1>7, <1>8, <2>2
    <3> QED BY <2>2, <3>1 DEF resolve, LastName
  <2>3. CASE n # Len(path)
    <3>0. n \in 0 .. K /\ n # 0
      BY ONLY <1>1, <2>3, n \in 1 .. Len(path)
    <3>1. n \in 0 .. K /\ n # 0 /\ w[n] = walk[n]
      BY <2>0, <2>3, <3>0
    <3>2. walk[n] = Up(walk, n)
      BY <1>6, <3>1
    <3> QED BY <2>1, <3>1, <3>2
  <2> QED BY <2>2, <2>3
<1>10. IsWalk(path, w)
  BY <1>8, <1>9 DEF IsWalk
<1>11. w \in [0 .. Len(path) -> Reachable \cup {NULL}]
  <2> DEFINE In == {n \in Nat : n <= Len(path) => w[n] \in Reachable \cup {NULL}}
  <2>1. 0 \in In
    BY <1>8, ReachableFacts
  <2>2. ASSUME NEW n \in In PROVE n + 1 \in In
    <3> SUFFICES ASSUME n + 1 <= Len(path) PROVE w[n + 1] \in Reachable \cup {NULL}
      OBVIOUS
    <3> DEFINE m == n + 1
    <3>0. n \in Nat
      OBVIOUS
    <3>1. m \in 1 .. Len(path) /\ m - 1 = n /\ n <= Len(path)
      BY ONLY <3>0, <1>1, n + 1 <= Len(path) DEF m
    <3>2. w[n] \in Reachable \cup {NULL}
      BY <3>1
    <3> HIDE DEF w
    <3>3. w[m] = IF w[m - 1] = NULL THEN NULL ELSE lookup_child(w[m - 1], <<path[m]>>)
      BY <3>1, <1>9
    <3> HIDE DEF m
    <3>4. w[m] = IF w[n] = NULL THEN NULL ELSE lookup_child(w[n], <<path[m]>>)
      BY <3>1, <3>3
    <3>5. w[n] # NULL => w[n] \in Inodes
      BY <3>2 DEF Reachable
    <3>6. w[m] \in Reachable \cup {NULL}
      BY <3>2, <3>4, <3>5, LookupFacts, ReachableFacts
    <3> QED BY <3>6 DEF m
  <2>3. In \in SUBSET Nat
    OBVIOUS
  <2> HIDE DEF In
  <2>4. In = Nat
    BY <2>1, <2>2, <2>3, AllNumbers
  <2>5. \A n \in 0 .. Len(path) : n \in In /\ n <= Len(path)
    BY <1>1, <2>4
  <2>6. \A n \in 0 .. Len(path) : w[n] \in Reachable \cup {NULL}
    BY <2>5 DEF In
  <2> QED BY <2>6
<1>12. w[Len(path) - 1] = lookup_parent(path)
  BY <1>1, <1>7, <1>8
<1> HIDE DEF w
<1> QED BY <1>8, <1>10, <1>11, <1>12 DEF Walks

LEMMA WalkExistsNext == IInv' => \A path \in Paths : Walks(path)'
<1>1. (IInv => \A path \in Paths : Walks(path))'
  BY WalkExists, PTL
<1> QED BY <1>1

\* The n-th inode of a walk is a child of the one before, of the name of the
\* path's n-th component.
ChildAt(path, w, n) ==
  /\ w[n - 1] \in Reachable /\ w[n] # Root
  /\ parent[w[n]] = w[n - 1] /\ name[w[n]] = <<path[n]>>

LEMMA WalkStep ==
  ASSUME IInv, NEW path \in Paths, NEW w \in [0 .. Len(path) -> Reachable \cup {NULL}],
         IsWalk(path, w), NEW n \in 1 .. Len(path), w[n] # NULL
  PROVE  ChildAt(path, w, n)
<1>1. w[n] = IF w[n - 1] = NULL THEN NULL ELSE lookup_child(w[n - 1], <<path[n]>>)
  BY DEF IsWalk
<1>2. Len(path) \in Nat
  BY PathFacts
<1>3. n \in 0 .. Len(path) /\ n - 1 \in 0 .. Len(path)
  BY <1>2
<1>4. w[n] \in Reachable /\ w[n - 1] \in Reachable
  BY <1>1, <1>3
<1>5. w[n - 1] \in Inodes /\ w[n - 1] # NULL
  BY <1>4, NullIsNoInode DEF Reachable
<1>6. w[n] = lookup_child(w[n - 1], <<path[n]>>)
  BY <1>1, <1>5
<1> QED BY <1>4, <1>5, <1>6, LookupFacts DEF ChildAt

\* Only one path leads to an inode.
LEMMA WalkUnique ==
  ASSUME IInv, NEW p \in Paths, NEW q \in Paths,
         NEW v \in [0 .. Len(p) -> Reachable \cup {NULL}], IsWalk(p, v),
         NEW w \in [0 .. Len(q) -> Reachable \cup {NULL}], IsWalk(q, w)
  PROVE  \A m \in 0 .. Len(p), k \in 0 .. Len(q) :
           v[m] = w[k] /\ v[m] # NULL => m = k /\ \A j \in 1 .. m : p[j] = q[j]
<1> DEFINE Same(m, k) == v[m] = w[k] /\ v[m] # NULL => m = k /\ \A j \in 1 .. m : p[j] = q[j]
           Good == {m \in Nat : m <= Len(p) => \A k \in 0 .. Len(q) : Same(m, k)}
<1>1. Len(p) \in Nat /\ Len(q) \in Nat
  BY PathFacts
<1>2. v[0] = Root /\ w[0] = Root
  BY DEF IsWalk
<1>a. \A n \in 1 .. Len(p) : v[n] # NULL => ChildAt(p, v, n)
  BY WalkStep
<1>b. \A n \in 1 .. Len(q) : w[n] # NULL => ChildAt(q, w, n)
  BY WalkStep
<1>3. 0 \in Good
  <2> SUFFICES ASSUME NEW k \in 0 .. Len(q), v[0] = w[k] PROVE k = 0
    OBVIOUS
  <2>1. CASE k # 0
    <3>1. k \in 1 .. Len(q)
      BY <2>1, <1>1
    <3>2. w[k] # NULL
      BY <1>2, NullIsNoInode, RamFsAssumption DEF Root, Inodes
    <3>3. w[k] # Root
      BY <3>1, <3>2, <1>b DEF ChildAt
    <3> QED BY <3>3, <1>2
  <2> QED BY <2>1
<1>4. ASSUME NEW m \in Good PROVE m + 1 \in Good
  <2>0. PICK l \in Nat : l = m + 1
    OBVIOUS
  <2>1. m \in Nat /\ l \in Nat /\ l = m + 1
    BY <2>0
  <2> SUFFICES ASSUME l <= Len(p), NEW k \in 0 .. Len(q), v[l] = w[k], v[l] # NULL
               PROVE  l = k /\ \A j \in 1 .. l : p[j] = q[j]
    BY <2>1
  <2>2. l \in 1 .. Len(p) /\ l - 1 = m /\ m <= Len(p)
    BY ONLY <1>1, <2>1, l <= Len(p)
  <2>3. v[l - 1] \in Reachable /\ v[l] # Root /\ parent[v[l]] = v[l - 1] /\ name[v[l]] = <<p[l]>>
    BY <2>2, <1>a DEF ChildAt
  <2>4. k \in 1 .. Len(q)
    BY <1>1, <1>2, <2>3
  <2>5. parent[w[k]] = w[k - 1] /\ name[w[k]] = <<q[k]>>
    BY <2>4, <1>b DEF ChildAt
  <2>6. v[m] = w[k - 1] /\ v[m] # NULL /\ p[l] = q[k]
    BY <2>2, <2>3, <2>5, NullIsNoInode DEF Reachable
  <2>7. k - 1 \in 0 .. Len(q)
    BY <1>1, <2>4
  <2>8. m = k - 1 /\ \A j \in 1 .. m : p[j] = q[j]
    BY <2>2, <2>6, <2>7
  <2> HIDE DEF Good
  <2>9. l = k /\ \A j \in 1 .. l : j \in 1 .. m \/ j = l
    BY ONLY <1>1, <2>1, <2>2, <2>8, <2>4
  <2> QED BY <2>6, <2>8, <2>9
<1>5. Good \in SUBSET Nat
  OBVIOUS
<1> HIDE DEF Good
<1>6. Good = Nat
  BY <1>3, <1>4, <1>5, AllNumbers
<1>7. ASSUME NEW m \in 0 .. Len(p) PROVE \A k \in 0 .. Len(q) : Same(m, k)
  <2>1. m \in Good /\ m <= Len(p)
    BY <1>1, <1>6
  <2> QED BY <2>1 DEF Good
<1> QED BY <1>7

-----------------------------------------------------------------------------
(* What the helpers of ramfs do to the tree. *)

LEMMA InodeFacts ==
  /\ Root \in Inodes /\ NULL \notin Inodes
  /\ IsFiniteSet(Inodes) /\ Inodes \subseteq Nat
  /\ IsFiniteSet(Live) /\ Live \subseteq Inodes
<1>1. Root \in Inodes /\ Inodes \subseteq Nat
  BY RamFsAssumption DEF Root, Inodes
<1>2. IsFiniteSet(Inodes)
  BY FS_Interval, RamFsAssumption DEF Inodes
<1>3. Live \in SUBSET Inodes
  BY DEF Live
<1> QED BY <1>1, <1>2, <1>3, FS_Subset, NullIsNoInode

LEMMA NewInode ==
  ASSUME new_inode # NULL
  PROVE  new_inode \in Inodes \ Live
<1>1. Inodes \ Live \in SUBSET Nat /\ Live \in SUBSET Inodes
  BY InodeFacts
<1>2. Live # Inodes /\ new_inode = Min(Inodes \ Live)
  BY DEF new_inode
<1>3. Inodes \ Live # {}
  BY <1>1, <1>2
<1>4. Min(Inodes \ Live) \in Inodes \ Live
  BY <1>1, <1>3, LeastElement
<1> QED BY <1>2, <1>4

LEMMA EmptyList ==
  /\ <<>> \in Seq(Inodes) /\ Range(<<>>) = {} /\ IsInjective(<<>>)
BY DEF Range, IsInjective

\* The tree with a new inode at the front of a directory's list, or in none.
LEMMA AllocKeepsTree ==
  ASSUME IInv, NEW dir \in Live, NEW i \in Inodes \ Live, NEW k \in {"dir", "file"},
         NEW nm \in Paths, alloc_and_add(dir, i, k, nm)
  PROVE  TreeInv'
<1>1. /\ kind' = [kind EXCEPT ![i] = k] /\ name' = [name EXCEPT ![i] = nm]
      /\ next_ino <= MaxIno /\ next_ino' = next_ino + 1 /\ inode_count' = inode_count + 1
      /\ parent' = [parent EXCEPT ![i] = IF kind[dir] = "dir" THEN dir ELSE NULL]
      /\ children' = [children EXCEPT ![i] = <<>>,
                        ![dir] = IF kind[dir] = "dir" THEN <<i>> \o @ ELSE @]
  BY DEF alloc_and_add
<1>2. i \in Inodes /\ dir \in Inodes /\ dir # i /\ kind[i] = "free" /\ Root # i
  BY InodeFacts DEF Live, IInv, TreeInv, Lists
<1>3. \A d \in Inodes : children'[d] =
        IF d = i THEN <<>>
        ELSE IF d = dir /\ kind[dir] = "dir" THEN <<i>> \o children[d] ELSE children[d]
  BY <1>1, <1>2 DEF IInv, TreeInv
<1>4. ASSUME NEW d \in Inodes
      PROVE  /\ children[d] \in Seq(Inodes) /\ IsInjective(children[d])
             /\ i \notin Range(children[d])
             /\ \A c \in Range(children[d]) :
                  c \in Inodes /\ kind[c] # "free" /\ parent[c] = d /\ c # Root
  <2>1. children[d] \in Seq(Inodes)
    BY DEF IInv, TreeInv
  <2> QED BY <2>1, <1>2, RangeType DEF IInv, TreeInv, Lists
<1>5. ASSUME NEW d \in Inodes
      PROVE  /\ <<i>> \o children[d] \in Seq(Inodes) /\ IsInjective(<<i>> \o children[d])
             /\ Range(<<i>> \o children[d]) = Range(children[d]) \cup {i}
  BY <1>2, <1>4, Prepended
<1>6. ASSUME NEW d \in Inodes
      PROVE  /\ children'[d] \in Seq(Inodes) /\ IsInjective(children'[d])
             /\ \A c \in Range(children'[d]) : kind'[c] # "free" /\ parent'[c] = d /\ c # Root
  <2>1. CASE d = i
    BY <2>1, <1>3, EmptyList
  <2>2. CASE d # i /\ d = dir /\ kind[dir] = "dir"
    <3>1. children'[d] = <<i>> \o children[d]
      BY <2>2, <1>3
    <3>2. parent'[i] = d /\ kind'[i] # "free"
      BY <2>2, <1>1, <1>2 DEF IInv, TreeInv
    <3>3. ASSUME NEW c \in Range(children[d])
          PROVE  kind'[c] # "free" /\ parent'[c] = d /\ c # Root
      BY <1>1, <1>2, <1>4 DEF IInv, TreeInv
    <3> QED BY <3>1, <3>2, <3>3, <1>2, <1>5
  <2>3. CASE d # i /\ ~ (d = dir /\ kind[dir] = "dir")
    <3>1. children'[d] = children[d]
      BY <2>3, <1>3
    <3>2. ASSUME NEW c \in Range(children[d])
          PROVE  kind'[c] # "free" /\ parent'[c] = d /\ c # Root
      BY <1>1, <1>2, <1>4 DEF IInv, TreeInv
    <3> QED BY <3>1, <3>2, <1>4
  <2> QED BY <2>1, <2>2, <2>3
<1>7. children' \in [Inodes -> Seq(Inodes)]
  BY <1>1, <1>6 DEF IInv, TreeInv
<1>8. Lists'
  <2>1. kind'[Root] = "dir" /\ parent'[Root] = NULL
    BY <1>1, <1>2, InodeFacts DEF IInv, TreeInv, Lists
  <2> QED BY <2>1, <1>6 DEF Lists, Root, Inodes
<1>9. inode_count' = Cardinality(Live')
  <2>1. Live' = Live \cup {i}
    BY <1>1, <1>2 DEF Live, IInv, TreeInv
  <2>2. Cardinality(Live \cup {i}) = Cardinality(Live) + 1
    BY InodeFacts, FS_AddElement
  <2> QED BY <2>1, <2>2, <1>1 DEF IInv, TreeInv
<1>10. /\ kind' \in [Inodes -> {"dir", "file", "free"}]
       /\ name' \in [Inodes -> Paths \cup {<<>>}]
       /\ parent' \in [Inodes -> Inodes \cup {NULL}]
  BY <1>1, <1>2 DEF IInv, TreeInv
<1>11. next_ino' \in 2 .. MaxIno + 1
  BY <1>1, RamFsAssumption DEF IInv, TreeInv
<1> QED BY <1>7, <1>8, <1>9, <1>10, <1>11 DEF TreeInv

\* The tree without an inode that was in the list of a directory.
LEMMA UnlinkKeepsTree ==
  ASSUME IInv, NEW dir \in Inodes, NEW i \in Range(children[dir]), unlink_and_free(dir, i)
  PROVE  TreeInv'
<1>1. /\ kind' = [kind EXCEPT ![i] = "free"] /\ name' = [name EXCEPT ![i] = <<>>]
      /\ next_ino' = next_ino /\ inode_count' = inode_count - 1
      /\ parent' = [parent EXCEPT ![i] = NULL]
      /\ children' = [[children EXCEPT ![dir] = RemoveFirst(@, i)] EXCEPT ![i] = <<>>]
  BY DEF unlink_and_free, without
<1>2. ASSUME NEW d \in Inodes
      PROVE  /\ children[d] \in Seq(Inodes) /\ IsInjective(children[d])
             /\ \A c \in Range(children[d]) :
                  c \in Inodes /\ kind[c] # "free" /\ parent[c] = d /\ c # Root
  <2>1. children[d] \in Seq(Inodes)
    BY DEF IInv, TreeInv
  <2> QED BY <2>1, RangeType DEF IInv, TreeInv, Lists
<1>3. i \in Inodes /\ i # Root /\ kind[i] # "free" /\ parent[i] = dir
  BY <1>2
<1>4. /\ RemoveFirst(children[dir], i) \in Seq(Inodes)
      /\ IsInjective(RemoveFirst(children[dir], i))
      /\ Range(RemoveFirst(children[dir], i)) = Range(children[dir]) \ {i}
  BY <1>2, RemovedRange
<1>5. \A d \in Inodes : children'[d] =
        IF d = i THEN <<>> ELSE IF d = dir THEN RemoveFirst(children[dir], i) ELSE children[d]
  BY <1>1, <1>3 DEF IInv, TreeInv
<1>6. ASSUME NEW d \in Inodes
      PROVE  /\ children'[d] \in Seq(Inodes) /\ IsInjective(children'[d])
             /\ Range(children'[d]) \subseteq Range(children[d]) \ {i}
  <2>1. CASE d = i
    BY <2>1, <1>5, EmptyList
  <2>2. CASE d # i /\ d = dir
    BY <2>2, <1>4, <1>5
  <2>3. CASE d # i /\ d # dir
    <3>1. children'[d] = children[d] /\ i \notin Range(children[d])
      BY <2>3, <1>2, <1>3, <1>5
    <3> QED BY <3>1, <1>2
  <2> QED BY <2>1, <2>2, <2>3
<1>7. ASSUME NEW d \in Inodes, NEW c \in Range(children'[d])
      PROVE  kind'[c] # "free" /\ parent'[c] = d /\ c # Root
  <2>1. c \in Range(children[d]) /\ c # i
    BY <1>6
  <2>2. c \in Inodes /\ kind[c] # "free" /\ parent[c] = d /\ c # Root
    BY <2>1, <1>2
  <2> QED BY <2>1, <2>2, <1>1 DEF IInv, TreeInv
<1>8. children' \in [Inodes -> Seq(Inodes)]
  BY <1>1, <1>6 DEF IInv, TreeInv
<1>9. kind'[Root] = "dir" /\ parent'[Root] = NULL
  BY <1>1, <1>3, InodeFacts DEF IInv, TreeInv, Lists
<1>10. Lists'
  BY <1>6, <1>7, <1>9 DEF Lists, Root, Inodes
<1>11. inode_count' = Cardinality(Live')
  <2>1. Live' = Live \ {i} /\ i \in Live
    BY <1>1, <1>3 DEF Live, IInv, TreeInv
  <2>2. Cardinality(Live \ {i}) = Cardinality(Live) - 1
    BY <2>1, InodeFacts, FS_RemoveElement
  <2> QED BY <2>1, <2>2, <1>1 DEF IInv, TreeInv
<1>12. /\ kind' \in [Inodes -> {"dir", "file", "free"}]
       /\ name' \in [Inodes -> Paths \cup {<<>>}]
       /\ parent' \in [Inodes -> Inodes \cup {NULL}]
  BY <1>1, <1>3 DEF IInv, TreeInv
<1> QED BY <1>1, <1>8, <1>10, <1>11, <1>12 DEF TreeInv, IInv

\* The tree with an inode moved from one list to the front of another.
LEMMA RelinkKeepsTree ==
  ASSUME IInv, NEW old_dir \in Inodes, NEW new_dir \in Inodes,
         NEW i \in Range(children[old_dir]), NEW nm \in Paths,
         relink(old_dir, new_dir, i, nm), UNCHANGED <<kind, next_ino, inode_count>>
  PROVE  TreeInv'
<1>1. /\ children' = [[children EXCEPT ![old_dir] = RemoveFirst(@, i)]
                        EXCEPT ![new_dir] = <<i>> \o @]
      /\ parent' = [parent EXCEPT ![i] = new_dir] /\ name' = [name EXCEPT ![i] = nm]
  BY DEF relink, without
<1>2. ASSUME NEW d \in Inodes
      PROVE  /\ children[d] \in Seq(Inodes) /\ IsInjective(children[d])
             /\ \A c \in Range(children[d]) :
                  c \in Inodes /\ kind[c] # "free" /\ parent[c] = d /\ c # Root
  <2>1. children[d] \in Seq(Inodes)
    BY DEF IInv, TreeInv
  <2> QED BY <2>1, RangeType DEF IInv, TreeInv, Lists
<1>3. i \in Inodes /\ i # Root /\ kind[i] # "free" /\ parent[i] = old_dir
  BY <1>2
<1> DEFINE rest(d) == IF d = old_dir THEN RemoveFirst(children[old_dir], i) ELSE children[d]
<1>4. ASSUME NEW d \in Inodes
      PROVE  /\ rest(d) \in Seq(Inodes) /\ IsInjective(rest(d))
             /\ Range(rest(d)) = Range(children[d]) \ {i}
  <2>1. CASE d = old_dir
    BY <2>1, <1>2, RemovedRange
  <2>2. CASE d # old_dir
    <3>1. i \notin Range(children[d])
      BY <2>2, <1>2, <1>3
    <3> QED BY <2>2, <3>1, <1>2
  <2> QED BY <2>1, <2>2
<1>5. \A d \in Inodes : children'[d] = IF d = new_dir THEN <<i>> \o rest(d) ELSE rest(d)
  BY <1>1, <1>3 DEF IInv, TreeInv
<1> HIDE DEF rest
<1>6. ASSUME NEW d \in Inodes
      PROVE  /\ children'[d] \in Seq(Inodes) /\ IsInjective(children'[d])
             /\ \A c \in Range(children'[d]) :
                  (c \in Range(children[d]) /\ c # i) \/ (c = i /\ d = new_dir)
  <2>1. CASE d = new_dir
    <3>1. /\ <<i>> \o rest(d) \in Seq(Inodes) /\ IsInjective(<<i>> \o rest(d))
          /\ Range(<<i>> \o rest(d)) = Range(rest(d)) \cup {i}
      BY <1>3, <1>4, Prepended
    <3>2. children'[d] = <<i>> \o rest(d)
      BY <2>1, <1>5
    <3> QED BY <2>1, <3>1, <3>2, <1>4
  <2>2. CASE d # new_dir
    BY <2>2, <1>4, <1>5
  <2> QED BY <2>1, <2>2
<1>7. ASSUME NEW d \in Inodes, NEW c \in Range(children'[d])
      PROVE  kind'[c] # "free" /\ parent'[c] = d /\ c # Root
  <2>1. CASE c = i /\ d = new_dir
    BY <2>1, <1>1, <1>3 DEF IInv, TreeInv
  <2>2. CASE c \in Range(children[d]) /\ c # i
    <3>1. c \in Inodes /\ kind[c] # "free" /\ parent[c] = d /\ c # Root
      BY <2>2, <1>2
    <3> QED BY <2>2, <3>1, <1>1 DEF IInv, TreeInv
  <2> QED BY <2>1, <2>2, <1>6
<1>8. children' \in [Inodes -> Seq(Inodes)]
  BY <1>1, <1>6 DEF IInv, TreeInv
<1>9. kind'[Root] = "dir" /\ parent'[Root] = NULL
  BY <1>1, <1>3, InodeFacts DEF IInv, TreeInv, Lists
<1>10. Lists'
  BY <1>6, <1>7, <1>9 DEF Lists, Root, Inodes
<1>11. inode_count' = Cardinality(Live')
  BY DEF Live, IInv, TreeInv
<1>12. /\ name' \in [Inodes -> Paths \cup {<<>>}]
       /\ parent' \in [Inodes -> Inodes \cup {NULL}]
  BY <1>1, <1>3 DEF IInv, TreeInv
<1> QED BY <1>8, <1>10, <1>11, <1>12 DEF TreeInv, IInv

-----------------------------------------------------------------------------
(* Descriptors. *)

\* An allocated inode that keeps its kind keeps its descriptors right.
LEMMA FdsKept ==
  ASSUME IInv, UNCHANGED <<fd_table, stale>>, booting' \in BOOLEAN,
         \A j \in Inodes : kind[j] # "free" => kind'[j] = kind[j]
  PROVE  FdInv' /\ HeldLive'
<1>1. FdInv'
  BY DEF IInv, FdInv
<1>2. ASSUME NEW fd \in Fds, fd_table[fd] # NULL, fd \notin stale
      PROVE  kind'[fd_table[fd].inode] = IF fd_table[fd].dir THEN "dir" ELSE "file"
  <2>1. kind[fd_table[fd].inode] = IF fd_table[fd].dir THEN "dir" ELSE "file"
    BY <1>2 DEF IInv, HeldLive
  <2>2. fd_table[fd].inode \in Inodes
    BY <1>2 DEF IInv, FdInv, Files
  <2> QED BY <2>1, <2>2
<1> QED BY <1>1, <1>2 DEF HeldLive

\* A new descriptor names an inode of the kind it was opened as.
LEMMA InstallKeepsFds ==
  ASSUME IInv, free_fds # {}, NEW i \in Inodes, NEW sz \in 0 .. MaxSize, NEW dir \in BOOLEAN,
         install(File(i, sz, dir)), UNCHANGED <<stale, booting>>,
         kind'[i] = IF dir THEN "dir" ELSE "file",
         \A j \in Inodes : kind[j] # "free" => kind'[j] = kind[j]
  PROVE  FdInv' /\ HeldLive'
<1> DEFINE new == Min(free_fds)
           file == File(i, sz, dir)
<1>1. free_fds \in SUBSET Nat /\ free_fds \subseteq Fds
  BY RamFsAssumption DEF free_fds, Fds
<1>2. new \in free_fds
  BY <1>1, LeastElement
<1>3. new \in Fds /\ fd_table[new] = NULL
  BY <1>2 DEF free_fds
<1>4. fd_table' = [fd_table EXCEPT ![new] = file]
  BY DEF install
<1>5. file \in Files /\ file.inode = i /\ file.dir = dir
  BY RamFsAssumption DEF File, Files
<1> HIDE DEF new, file
<1>6. FdInv'
  <2>1. fd_table' \in [Fds -> Files \cup {NULL}]
    BY <1>3, <1>4, <1>5 DEF IInv, FdInv
  <2>2. ASSUME NEW fd \in stale PROVE fd \in Fds /\ fd_table'[fd] # NULL
    BY <1>3, <1>4 DEF IInv, FdInv
  <2> QED BY <2>1, <2>2 DEF IInv, FdInv, Fds
<1>7. ASSUME NEW fd \in Fds, fd_table'[fd] # NULL, fd \notin stale
      PROVE  kind'[fd_table'[fd].inode] = IF fd_table'[fd].dir THEN "dir" ELSE "file"
  <2>1. CASE fd = new
    <3>1. fd_table'[fd] = file
      BY <2>1, <1>3, <1>4 DEF IInv, FdInv
    <3> QED BY <3>1, <1>5
  <2>2. CASE fd # new
    <3>1. fd_table'[fd] = fd_table[fd]
      BY <2>2, <1>4 DEF IInv, FdInv
    <3>2. kind[fd_table[fd].inode] = IF fd_table[fd].dir THEN "dir" ELSE "file"
      BY <3>1, <1>7 DEF IInv, HeldLive
    <3>3. fd_table[fd].inode \in Inodes
      BY <3>1, <1>7 DEF IInv, FdInv, Files
    <3> QED BY <3>1, <3>2, <3>3
  <2> QED BY <2>1, <2>2
<1> QED BY <1>6, <1>7 DEF HeldLive, Fds

\* Moving the position of a descriptor.
LEMMA SeekKeepsFds ==
  ASSUME IInv, NEW fd \in Fds, fd_table[fd] # NULL, NEW pos \in 0 .. MaxSize,
         fd_table' = [fd_table EXCEPT ![fd].pos = pos],
         UNCHANGED <<kind, stale, booting>>
  PROVE  FdInv' /\ HeldLive'
<1> DEFINE f == fd_table[fd]
           g == [f EXCEPT !.pos = pos]
<1>1. f \in Files
  BY DEF IInv, FdInv
<1>2. g \in Files /\ g.inode = f.inode /\ g.dir = f.dir
  BY <1>1 DEF Files
<1>3. g # NULL
  BY <1>2, RamFsAssumption DEF Files, Inodes
<1>4. fd_table' = [fd_table EXCEPT ![fd] = g]
  BY DEF IInv, FdInv
<1> HIDE DEF g
<1>5. FdInv'
  <2>1. fd_table' \in [Fds -> Files \cup {NULL}]
    BY <1>2, <1>4 DEF IInv, FdInv
  <2>2. ASSUME NEW x \in stale PROVE x \in Fds /\ fd_table'[x] # NULL
    BY <1>3, <1>4 DEF IInv, FdInv
  <2> QED BY <2>1, <2>2 DEF IInv, FdInv, Fds
<1>6. ASSUME NEW x \in Fds, fd_table'[x] # NULL, x \notin stale
      PROVE  kind[fd_table'[x].inode] = IF fd_table'[x].dir THEN "dir" ELSE "file"
  <2>1. CASE x = fd
    <3>1. fd_table'[x] = g
      BY <2>1, <1>4 DEF IInv, FdInv
    <3>2. kind[f.inode] = IF f.dir THEN "dir" ELSE "file"
      BY <2>1, <1>6 DEF IInv, HeldLive
    <3> QED BY <3>1, <3>2, <1>2
  <2>2. CASE x # fd
    <3>1. fd_table'[x] = fd_table[x]
      BY <2>2, <1>4 DEF IInv, FdInv
    <3> QED BY <3>1, <1>6 DEF IInv, HeldLive
  <2> QED BY <2>1, <2>2
<1> QED BY <1>5, <1>6 DEF HeldLive, Fds

-----------------------------------------------------------------------------
(* Buffers. *)

\* The capacity that a write asks for is enough.
LEMMA RoundUp ==
  ASSUME NEW n \in Nat, NEW b \in Nat \ {0}
  PROVE  ((n + b - 1) \div b) * b \in Nat /\ n <= ((n + b - 1) \div b) * b
<1> DEFINE x == n + b - 1
           q == x \div b
           r == x % b
<1>1. x \in Int /\ q \in Int /\ r \in 0 .. b - 1 /\ x = q * b + r
  OBVIOUS
<1> HIDE DEF q, r
<1>2. q * b \in Int /\ q * b = x - r
  BY <1>1
<1>3. q * b >= n
  BY <1>1, <1>2
<1> QED BY <1>2, <1>3 DEF q

\* A buffer of n bytes has the capacity n.
LEMMA Capacity ==
  ASSUME NEW n \in Nat, NEW S, NEW b \in [0 .. n - 1 -> S]
  PROVE  Cardinality(DOMAIN b) = n
<1>1. DOMAIN b = 0 .. n - 1
  OBVIOUS
<1>2. Cardinality(0 .. n - 1) = n
  BY FS_Interval
<1> QED BY <1>1, <1>2

LEMMA BufferUpdate ==
  ASSUME IInv, NEW i \in Inodes, NEW n \in Nat,
         NEW b \in [0 .. n - 1 -> Bytes \cup {JUNK}], NEW s \in 0 .. MaxSize, s <= n,
         data' = [data EXCEPT ![i] = b], size' = [size EXCEPT ![i] = s]
  PROVE  DataInv'
<1>1. data' = [j \in Inodes |-> data'[j]] /\ size' \in [Inodes -> 0 .. MaxSize]
  BY DEF IInv, DataInv
<1>2. ASSUME NEW j \in Inodes
      PROVE  /\ Cardinality(DOMAIN data'[j]) \in Nat
             /\ size'[j] <= Cardinality(DOMAIN data'[j])
             /\ data'[j] \in [0 .. Cardinality(DOMAIN data'[j]) - 1 -> Bytes \cup {JUNK}]
  <2>1. CASE j = i
    <3>1. data'[j] = b /\ size'[j] = s
      BY <2>1 DEF IInv, DataInv
    <3>2. Cardinality(DOMAIN b) = n
      BY Capacity
    <3> QED BY <3>1, <3>2
  <2>2. CASE j # i
    <3>1. data'[j] = data[j] /\ size'[j] = size[j]
      BY <2>2 DEF IInv, DataInv
    <3> QED BY <3>1 DEF IInv, DataInv, capacity
  <2> QED BY <2>1, <2>2
<1> QED BY <1>1, <1>2 DEF DataInv, capacity

\* A buffer that is grown holds what is to be written, and what the file had.
LEMMA GrownFacts ==
  ASSUME IInv, NEW i \in Inodes, NEW new_size \in Nat
  PROVE  \E n \in Nat :
           /\ Grown(i, new_size) \in [0 .. n - 1 -> Bytes \cup {JUNK}]
           /\ new_size <= n /\ size[i] <= n
           /\ \A p \in 0 .. size[i] - 1 : p \in 0 .. n - 1 /\ Grown(i, new_size)[p] = data[i][p]
<1>1. /\ capacity(i) \in Nat /\ size[i] \in Nat /\ size[i] <= capacity(i)
      /\ data[i] \in [0 .. capacity(i) - 1 -> Bytes \cup {JUNK}]
  BY RamFsAssumption DEF IInv, DataInv
<1>2. CASE new_size <= capacity(i)
  <2>1. Grown(i, new_size) = data[i]
    BY <1>2 DEF Grown
  <2>2. \A p \in 0 .. size[i] - 1 : p \in 0 .. capacity(i) - 1
    BY <1>1
  <2> QED BY <1>1, <1>2, <2>1, <2>2
<1>3. CASE ~ (new_size <= capacity(i))
  <2> DEFINE cap == ((new_size + Block - 1) \div Block) * Block
             g == [p \in 0 .. cap - 1 |-> IF p < size[i] THEN data[i][p] ELSE JUNK]
  <2>1. cap \in Nat /\ new_size <= cap
    BY RamFsAssumption, RoundUp
  <2>2. Grown(i, new_size) = g
    BY <1>3 DEF Grown
  <2> HIDE DEF cap
  <2>3. size[i] <= cap /\ \A p \in 0 .. size[i] - 1 : p \in 0 .. cap - 1 /\ p < size[i]
    BY <1>1, <1>3, <2>1
  <2>4. ASSUME NEW p \in 0 .. cap - 1 PROVE g[p] \in Bytes \cup {JUNK}
    <3>1. p < size[i] => p \in 0 .. capacity(i) - 1
      BY <1>1, <2>1
    <3> QED BY <1>1, <3>1
  <2>5. g \in [0 .. cap - 1 -> Bytes \cup {JUNK}]
    BY <2>4
  <2>6. \A p \in 0 .. size[i] - 1 : g[p] = data[i][p]
    BY <2>3
  <2> QED BY <2>1, <2>2, <2>3, <2>5, <2>6
<1> QED BY <1>2, <1>3

\* What a write leaves in the buffer.
Written(i, from, end, byte) ==
  [p \in DOMAIN Grown(i, end) |-> IF p \in from .. end - 1 THEN byte ELSE Grown(i, end)[p]]

\* The bytes below the file's size that are not written stay.
Untouched(i, from, end, byte) ==
  \A p \in 0 .. size[i] - 1 :
    p \notin from .. end - 1 => Written(i, from, end, byte)[p] = data[i][p]

LEMMA WrittenFacts ==
  ASSUME IInv, NEW i \in Inodes, NEW from \in Nat, NEW end \in Nat, NEW byte \in Bytes
  PROVE  /\ \E n \in Nat : /\ Written(i, from, end, byte) \in [0 .. n - 1 -> Bytes \cup {JUNK}]
                         /\ end <= n /\ size[i] <= n
         /\ Untouched(i, from, end, byte)
<1> DEFINE g == Grown(i, end)
<1>1. PICK n \in Nat :
        /\ g \in [0 .. n - 1 -> Bytes \cup {JUNK}]
        /\ end <= n /\ size[i] <= n
        /\ \A p \in 0 .. size[i] - 1 : p \in 0 .. n - 1 /\ g[p] = data[i][p]
  BY GrownFacts
<1>2. Written(i, from, end, byte) =
        [p \in 0 .. n - 1 |-> IF p \in from .. end - 1 THEN byte ELSE g[p]]
  BY <1>1 DEF Written
<1> HIDE DEF g
<1>3. Written(i, from, end, byte) \in [0 .. n - 1 -> Bytes \cup {JUNK}]
  BY <1>1, <1>2
<1>4. Untouched(i, from, end, byte)
  BY <1>1, <1>2 DEF Untouched
<1> QED BY <1>1, <1>3, <1>4

-----------------------------------------------------------------------------
(* Every action keeps the invariant. *)

\* What a call finds where its path leads.
LEMMA PathResult ==
  ASSUME IInv, NEW path \in Paths
  PROVE  /\ lookup_parent(path) # NULL => lookup_parent(path) \in Live \cap Reachable
         /\ resolve(path) # NULL =>
              /\ lookup_parent(path) # NULL
              /\ resolve(path) \in Range(children[lookup_parent(path)]) \cap Live \cap Reachable
              /\ resolve(path) # Root /\ name[resolve(path)] = LastName(path)
              /\ parent[resolve(path)] = lookup_parent(path)
<1>1. PICK w \in [0 .. Len(path) -> Reachable \cup {NULL}] :
        /\ IsWalk(path, w)
        /\ lookup_parent(path) = w[Len(path) - 1]
        /\ resolve(path) = w[Len(path)]
  BY WalkExists DEF Walks
<1>2. Len(path) \in Nat /\ Len(path) >= 1
  BY PathFacts
<1>3. Len(path) - 1 \in 0 .. Len(path) /\ Len(path) \in 0 .. Len(path)
  BY <1>2
<1>4. /\ lookup_parent(path) \in Reachable \cup {NULL}
      /\ resolve(path) \in Reachable \cup {NULL} /\ Reachable \subseteq Live
  BY <1>1, <1>3, ReachableFacts
<1>5. ASSUME resolve(path) # NULL
      PROVE  /\ lookup_parent(path) # NULL
             /\ resolve(path) \in Range(children[lookup_parent(path)])
             /\ resolve(path) # Root /\ name[resolve(path)] = LastName(path)
             /\ parent[resolve(path)] = lookup_parent(path)
  <2>1. lookup_parent(path) # NULL
    BY <1>5 DEF resolve
  <2>2. resolve(path) = lookup_child(lookup_parent(path), LastName(path))
    BY <2>1 DEF resolve
  <2>3. lookup_parent(path) \in Inodes
    BY <2>1, <1>4, InodeFacts
  <2> QED BY <2>1, <2>2, <2>3, <1>5, LookupFacts
<1> QED BY <1>4, <1>5

LEMMA ReturnKeeps ==
  ASSUME IInv, UNCHANGED <<tree, data, size, fd_table, stale, booting>>
  PROVE  IInv'
BY DEF IInv, TreeInv, Lists, DataInv, FdInv, HeldLive, tree, Live, capacity, Fds, Files, Inodes, Root

LEMMA KindsKept ==
  ASSUME IInv, NEW i \in Inodes \ Live, NEW k, kind' = [kind EXCEPT ![i] = k]
  PROVE  \A j \in Inodes : kind[j] # "free" => kind'[j] = kind[j]
BY DEF IInv, TreeInv, Live

LEMMA DataKept ==
  ASSUME IInv, UNCHANGED <<data, size>>
  PROVE  DataInv'
BY DEF IInv, DataInv, capacity

LEMMA CreateKeeps ==
  ASSUME IInv, NEW path \in Paths, NEW k \in {"dir", "file"}, vfs_create(path, k)
  PROVE  IInv'
<1> DEFINE dir == lookup_parent(path)
<1>1. CASE dir = NULL \/ new_inode = NULL
  <2>1. UNCHANGED <<tree, data, size, fd_table, stale, booting>>
    BY <1>1 DEF vfs_create, Return
  <2> QED BY <2>1, ReturnKeeps
<1>2. CASE dir # NULL /\ new_inode # NULL
  <2>1. /\ alloc_and_add(dir, new_inode, k, LastName(path))
        /\ UNCHANGED <<data, size, fd_table, stale, booting>>
    BY <1>2 DEF vfs_create
  <2>2. dir \in Live /\ new_inode \in Inodes \ Live /\ LastName(path) \in Paths
    BY <1>2, PathResult, NewInode, PathFacts
  <2>3. TreeInv'
    BY <2>1, <2>2, AllocKeepsTree
  <2>4. \A j \in Inodes : kind[j] # "free" => kind'[j] = kind[j]
    BY <2>1, <2>2, KindsKept DEF alloc_and_add
  <2>5. FdInv' /\ HeldLive'
    BY <2>1, <2>4, FdsKept DEF IInv, FdInv
  <2> QED BY <2>1, <2>3, <2>5, DataKept DEF IInv
<1> QED BY <1>1, <1>2

LEMMA FreeKeeps ==
  ASSUME IInv, NEW path \in Paths, resolve(path) # NULL,
         unlink_and_free(lookup_parent(path), resolve(path)), UNCHANGED <<fd_table, booting>>
  PROVE  IInv'
<1> DEFINE dir == lookup_parent(path)
           i == resolve(path)
<1>1. dir \in Inodes /\ i \in Range(children[dir]) /\ i \in Inodes
  BY PathResult, InodeFacts
<1> HIDE DEF dir, i
<1>2. unlink_and_free(dir, i)
  BY DEF dir, i
<1>3. TreeInv'
  BY <1>1, <1>2, UnlinkKeepsTree
<1>4. DataInv'
  <2>0. PICK n \in Nat : n = 0
    OBVIOUS
  <2>1. NoData \in [0 .. n - 1 -> Bytes \cup {JUNK}]
    BY <2>0 DEF NoData
  <2>2. 0 \in 0 .. MaxSize /\ 0 <= n
    BY <2>0, RamFsAssumption
  <2>3. data' = [data EXCEPT ![i] = NoData] /\ size' = [size EXCEPT ![i] = 0]
    BY <1>2 DEF unlink_and_free
  <2> HIDE DEF NoData
  <2> QED BY <1>1, <2>1, <2>2, <2>3, BufferUpdate
<1>5. /\ kind' = [kind EXCEPT ![i] = "free"]
      /\ stale' = stale \cup {fd \in Fds : fd_table[fd] # NULL /\ fd_table[fd].inode = i}
  BY <1>2 DEF unlink_and_free
<1>6. FdInv'
  BY <1>5 DEF IInv, FdInv, Fds
<1>7. ASSUME NEW fd \in Fds, fd_table[fd] # NULL, fd \notin stale'
      PROVE  kind'[fd_table[fd].inode] = IF fd_table[fd].dir THEN "dir" ELSE "file"
  <2>1. fd_table[fd].inode # i /\ fd \notin stale
    BY <1>5, <1>7
  <2>2. kind[fd_table[fd].inode] = IF fd_table[fd].dir THEN "dir" ELSE "file"
    BY <2>1, <1>7 DEF IInv, HeldLive
  <2>3. fd_table[fd].inode \in Inodes
    BY <1>7 DEF IInv, FdInv, Files
  <2> QED BY <2>1, <2>2, <2>3, <1>5 DEF IInv, TreeInv
<1>8. HeldLive'
  BY <1>7 DEF HeldLive, Fds
<1> QED BY <1>3, <1>4, <1>6, <1>8 DEF IInv

LEMMA UnlinkKeeps ==
  ASSUME IInv, NEW path \in Paths, vfs_unlink(path) \/ vfs_rmdir(path)
  PROVE  IInv'
<1>1. \/ UNCHANGED <<tree, data, size, fd_table, stale, booting>>
      \/ /\ resolve(path) # NULL
         /\ unlink_and_free(lookup_parent(path), resolve(path))
         /\ UNCHANGED <<fd_table, booting>>
  BY DEF vfs_unlink, vfs_rmdir, Return
<1> QED BY <1>1, ReturnKeeps, FreeKeeps

LEMMA RenameKeeps ==
  ASSUME IInv, NEW old \in Paths, NEW new \in Paths, vfs_rename(old, new)
  PROVE  IInv'
<1> DEFINE old_dir == lookup_parent(old)
           new_dir == lookup_parent(new)
           i == resolve(old)
<1>1. \/ UNCHANGED <<tree, data, size, fd_table, stale, booting>>
      \/ /\ old_dir # NULL /\ new_dir # NULL /\ i # NULL
         /\ relink(old_dir, new_dir, i, LastName(new))
         /\ UNCHANGED <<kind, next_ino, inode_count, data, size, fd_table, stale, booting>>
  BY DEF vfs_rename, Return
<1>2. CASE UNCHANGED <<tree, data, size, fd_table, stale, booting>>
  BY <1>2, ReturnKeeps
<1>3. CASE /\ old_dir # NULL /\ new_dir # NULL /\ i # NULL
           /\ relink(old_dir, new_dir, i, LastName(new))
           /\ UNCHANGED <<kind, next_ino, inode_count, data, size, fd_table, stale, booting>>
  <2>1. old_dir \in Inodes /\ new_dir \in Inodes /\ i \in Range(children[old_dir])
    BY <1>3, PathResult, InodeFacts
  <2>2. LastName(new) \in Paths
    BY PathFacts
  <2>3. TreeInv'
    BY <1>3, <2>1, <2>2, RelinkKeepsTree
  <2>4. FdInv' /\ HeldLive'
    BY <1>3, FdsKept DEF IInv, FdInv
  <2> QED BY <1>3, <2>3, <2>4, DataKept DEF IInv
<1> QED BY <1>1, <1>2, <1>3

LEMMA OpenKeeps ==
  ASSUME IInv, NEW path \in Paths, NEW creat \in BOOLEAN, sys_openat(path, creat)
  PROVE  IInv'
<1> DEFINE dir == lookup_parent(path)
           found == resolve(path)
<1>1. \/ UNCHANGED <<tree, data, size, fd_table, stale, booting>>
      \/ /\ free_fds # {} /\ found # NULL
         /\ install(File(found, size[found], kind[found] = "dir"))
         /\ UNCHANGED <<tree, data, size, stale, booting>>
      \/ /\ free_fds # {} /\ dir # NULL /\ new_inode # NULL
         /\ alloc_and_add(dir, new_inode, "file", LastName(path))
         /\ UNCHANGED fd_table \/ install(File(new_inode, 0, FALSE))
         /\ UNCHANGED <<data, size, stale, booting>>
  BY DEF sys_openat, Return
<1>2. CASE UNCHANGED <<tree, data, size, fd_table, stale, booting>>
  BY <1>2, ReturnKeeps
<1>3. CASE /\ free_fds # {} /\ found # NULL
           /\ install(File(found, size[found], kind[found] = "dir"))
           /\ UNCHANGED <<tree, data, size, stale, booting>>
  <2>1. found \in Inodes /\ kind[found] # "free"
    BY <1>3, PathResult, InodeFacts DEF Live
  <2>2. /\ size[found] \in 0 .. MaxSize /\ (kind[found] = "dir") \in BOOLEAN
        /\ kind'[found] = IF kind[found] = "dir" THEN "dir" ELSE "file"
    BY <1>3, <2>1 DEF IInv, TreeInv, DataInv, tree
  <2>3. \A j \in Inodes : kind[j] # "free" => kind'[j] = kind[j]
    BY <1>3 DEF tree
  <2>4. FdInv' /\ HeldLive'
    BY <1>3, <2>1, <2>2, <2>3, InstallKeepsFds
  <2>5. TreeInv'
    BY <1>3 DEF IInv, TreeInv, Lists, tree, Live, Inodes, Root
  <2> QED BY <1>3, <2>4, <2>5, DataKept DEF IInv
<1>4. CASE /\ free_fds # {} /\ dir # NULL /\ new_inode # NULL
           /\ alloc_and_add(dir, new_inode, "file", LastName(path))
           /\ UNCHANGED fd_table \/ install(File(new_inode, 0, FALSE))
           /\ UNCHANGED <<data, size, stale, booting>>
  <2>1. dir \in Live /\ new_inode \in Inodes \ Live /\ LastName(path) \in Paths
    BY <1>4, PathResult, NewInode, PathFacts
  <2>2. TreeInv'
    BY <1>4, <2>1, AllocKeepsTree
  <2>3. kind' = [kind EXCEPT ![new_inode] = "file"]
    BY <1>4 DEF alloc_and_add
  <2>4. \A j \in Inodes : kind[j] # "free" => kind'[j] = kind[j]
    BY <2>1, <2>3, KindsKept
  <2>5. FdInv' /\ HeldLive'
    <3>1. CASE UNCHANGED fd_table
      BY <1>4, <2>4, <3>1, FdsKept DEF IInv, FdInv
    <3>2. CASE install(File(new_inode, 0, FALSE))
      <4>1. kind'[new_inode] = "file" /\ new_inode \in Inodes /\ 0 \in 0 .. MaxSize
        BY <2>1, <2>3, RamFsAssumption DEF IInv, TreeInv
      <4> QED BY <1>4, <2>4, <3>2, <4>1, InstallKeepsFds
    <3> QED BY <1>4, <3>1, <3>2
  <2> QED BY <1>4, <2>2, <2>5, DataKept DEF IInv
<1> QED BY <1>1, <1>2, <1>3, <1>4

LEMMA OpenRootKeeps ==
  ASSUME IInv, sys_open_root
  PROVE  IInv'
<1>1. /\ free_fds # {} /\ install(File(Root, 0, TRUE))
      /\ UNCHANGED <<tree, data, size, stale, booting>>
  BY DEF sys_open_root
<1>2. kind'[Root] = "dir" /\ Root \in Inodes /\ 0 \in 0 .. MaxSize
  BY <1>1, InodeFacts, RamFsAssumption DEF tree, IInv, TreeInv, Lists
<1>3. \A j \in Inodes : kind[j] # "free" => kind'[j] = kind[j]
  BY <1>1 DEF tree
<1>4. FdInv' /\ HeldLive'
  BY <1>1, <1>2, <1>3, InstallKeepsFds
<1>5. TreeInv'
  BY <1>1 DEF IInv, TreeInv, Lists, tree, Live, Inodes, Root
<1> QED BY <1>1, <1>4, <1>5, DataKept DEF IInv

LEMMA CloseKeeps ==
  ASSUME IInv, NEW fd \in Fds, sys_close(fd)
  PROVE  IInv'
<1>1. /\ fd_table' = [fd_table EXCEPT ![fd] = NULL] /\ stale' = stale \ {fd}
      /\ UNCHANGED <<tree, data, size, booting>>
  BY DEF sys_close
<1>2. TreeInv'
  BY <1>1 DEF IInv, TreeInv, Lists, tree, Live, Inodes, Root
<1>3. FdInv'
  BY <1>1 DEF IInv, FdInv, Fds
<1>4. ASSUME NEW x \in Fds, fd_table'[x] # NULL, x \notin stale'
      PROVE  kind'[fd_table'[x].inode] = IF fd_table'[x].dir THEN "dir" ELSE "file"
  <2>1. x # fd
    BY <1>1, <1>4 DEF IInv, FdInv
  <2>2. fd_table'[x] = fd_table[x] /\ x \notin stale /\ kind' = kind
    BY <2>1, <1>1, <1>4 DEF IInv, FdInv, tree
  <2> QED BY <2>2, <1>4 DEF IInv, HeldLive
<1>5. HeldLive'
  BY <1>4 DEF HeldLive, Fds
<1> QED BY <1>1, <1>2, <1>3, <1>5, DataKept DEF IInv

LEMMA ReadKeeps ==
  ASSUME IInv, NEW fd \in Fds, NEW count \in Counts, sys_read(fd, count)
  PROVE  IInv'
<1> DEFINE f == fd_table[fd]
           got == Max({0, Min({count, size[f.inode] - f.pos})})
           pos == f.pos + got
<1>1. /\ f # NULL /\ fd_table' = [fd_table EXCEPT ![fd].pos = pos]
      /\ UNCHANGED <<tree, data, size, stale, booting>>
  BY DEF sys_read, Usable
<1>2. f \in Files /\ f.inode \in Inodes /\ f.pos \in 0 .. MaxSize
  BY <1>1 DEF IInv, FdInv, Files
<1>3. count \in Nat /\ size[f.inode] \in 0 .. MaxSize /\ MaxSize \in Nat
  BY <1>2, RamFsAssumption DEF IInv, DataInv
<1>4. got \in Nat /\ (got = 0 \/ got <= size[f.inode] - f.pos)
  <2> DEFINE a == size[f.inode] - f.pos
  <2>1. a \in Int
    BY <1>2, <1>3
  <2> HIDE DEF a
  <2>2. Min({count, a}) = IF count <= a THEN count ELSE a
    BY <1>3, <2>1 DEF Min
  <2>3. Max({0, Min({count, a})}) \in {0, Min({count, a})}
        /\ Max({0, Min({count, a})}) >= 0
    BY <1>3, <2>1, <2>2 DEF Max
  <2>4. got = Max({0, Min({count, a})})
    BY DEF a
  <2> HIDE DEF got
  <2> QED BY <1>3, <2>1, <2>2, <2>3, <2>4 DEF a
<1> HIDE DEF got
<1>5. pos \in 0 .. MaxSize
  BY <1>2, <1>3, <1>4
<1> HIDE DEF pos
<1>6. FdInv' /\ HeldLive'
  BY <1>1, <1>5, SeekKeepsFds DEF tree
<1>7. TreeInv'
  BY <1>1 DEF IInv, TreeInv, Lists, tree, Live, Inodes, Root
<1> QED BY <1>1, <1>6, <1>7, DataKept DEF IInv

LEMMA WriteKeeps ==
  ASSUME IInv, NEW fd \in Fds, NEW count \in Counts, NEW byte \in Bytes,
         sys_write(fd, count, byte)
  PROVE  IInv'
<1> DEFINE f == fd_table[fd]
           i == f.inode
           end == f.pos + count
<1>1. /\ f # NULL /\ end <= MaxSize
      /\ \/ UNCHANGED <<tree, data, size, fd_table, stale, booting>>
         \/ /\ data' = [data EXCEPT ![i] = Written(i, f.pos, end, byte)]
            /\ size' = [size EXCEPT ![i] = Max({@, end})]
            /\ fd_table' = [fd_table EXCEPT ![fd].pos = end]
            /\ UNCHANGED <<tree, stale, booting>>
  BY DEF sys_write, Usable, Return, Written
<1>2. CASE UNCHANGED <<tree, data, size, fd_table, stale, booting>>
  BY <1>2, ReturnKeeps
<1>3. CASE /\ data' = [data EXCEPT ![i] = Written(i, f.pos, end, byte)]
           /\ size' = [size EXCEPT ![i] = Max({@, end})]
           /\ fd_table' = [fd_table EXCEPT ![fd].pos = end]
           /\ UNCHANGED <<tree, stale, booting>>
  <2>1. f \in Files /\ i \in Inodes /\ f.pos \in Nat
    BY <1>1, RamFsAssumption DEF IInv, FdInv, Files
  <2>2. end \in Nat /\ end \in 0 .. MaxSize
    BY <1>1, <2>1, RamFsAssumption
  <2>3. size[i] \in 0 .. MaxSize
    BY <2>1 DEF IInv, DataInv
  <2> HIDE DEF f, i, end
  <2>4. /\ Max({size[i], end}) \in 0 .. MaxSize
        /\ Max({size[i], end}) = IF size[i] <= end THEN end ELSE size[i]
    BY <2>2, <2>3, RamFsAssumption DEF Max
  <2>5. PICK n \in Nat :
          /\ Written(i, f.pos, end, byte) \in [0 .. n - 1 -> Bytes \cup {JUNK}]
          /\ end <= n /\ size[i] <= n
    BY <2>1, <2>2, WrittenFacts
  <2>6. size' = [size EXCEPT ![i] = Max({size[i], end})] /\ Max({size[i], end}) <= n
    BY <1>3, <2>4, <2>5
  <2>7. DataInv'
    BY <1>3, <2>1, <2>4, <2>5, <2>6, BufferUpdate
  <2>8. FdInv' /\ HeldLive'
    BY <1>1, <1>3, <2>2, SeekKeepsFds DEF tree, f
  <2>9. TreeInv'
    BY <1>3 DEF IInv, TreeInv, Lists, tree, Live, Inodes, Root
  <2> QED BY <2>7, <2>8, <2>9 DEF IInv
<1> QED BY <1>1, <1>2, <1>3

LEMMA SeekKeeps ==
  ASSUME IInv, NEW fd \in Fds, NEW offset \in Offsets, NEW whence \in {"SET", "CUR", "END"},
         sys_lseek(fd, offset, whence)
  PROVE  IInv'
<1> DEFINE f == fd_table[fd]
           new_pos == offset + CASE whence = "SET" -> 0
                                 [] whence = "CUR" -> f.pos
                                 [] whence = "END" -> f.i_size
<1>1. /\ f # NULL /\ new_pos <= MaxSize
      /\ \/ UNCHANGED <<tree, data, size, fd_table, stale, booting>>
         \/ /\ ~ (new_pos < 0)
            /\ fd_table' = [fd_table EXCEPT ![fd].pos = new_pos]
            /\ UNCHANGED <<tree, data, size, stale, booting>>
  BY DEF sys_lseek, Return
<1>2. CASE UNCHANGED <<tree, data, size, fd_table, stale, booting>>
  BY <1>2, ReturnKeeps
<1>3. CASE /\ ~ (new_pos < 0)
           /\ fd_table' = [fd_table EXCEPT ![fd].pos = new_pos]
           /\ UNCHANGED <<tree, data, size, stale, booting>>
  <2>1. f \in Files
    BY <1>1 DEF IInv, FdInv
  <2>2. new_pos \in Int
    BY <2>1, RamFsAssumption DEF Files
  <2> HIDE DEF new_pos
  <2>3. new_pos \in 0 .. MaxSize
    BY <1>1, <1>3, <2>2, RamFsAssumption
  <2>4. FdInv' /\ HeldLive'
    BY <1>1, <1>3, <2>3, SeekKeepsFds DEF tree
  <2>5. TreeInv'
    BY <1>3 DEF IInv, TreeInv, Lists, tree, Live, Inodes, Root
  <2> QED BY <1>3, <2>4, <2>5, DataKept DEF IInv
<1> QED BY <1>1, <1>2, <1>3

\* An inode that is allocated and linked nowhere.
LEMMA LeakKeepsTree ==
  ASSUME IInv, NEW i \in Inodes \ Live, NEW nm \in Paths,
         kind' = [kind EXCEPT ![i] = "file"], name' = [name EXCEPT ![i] = nm],
         next_ino <= MaxIno, next_ino' = next_ino + 1, inode_count' = inode_count + 1,
         UNCHANGED <<parent, children>>
  PROVE  TreeInv'
<1>1. i \in Inodes /\ kind[i] = "free" /\ i # Root
  BY InodeFacts DEF Live, IInv, TreeInv, Lists
<1>2. ASSUME NEW d \in Inodes, NEW c \in Range(children[d])
      PROVE  kind'[c] # "free" /\ parent[c] = d /\ c # Root
  <2>1. children[d] \in Seq(Inodes)
    BY DEF IInv, TreeInv
  <2>2. c \in Inodes /\ kind[c] # "free" /\ parent[c] = d /\ c # Root
    BY <2>1, RangeType DEF IInv, TreeInv, Lists
  <2> QED BY <2>2, <1>1 DEF IInv, TreeInv
<1>3. kind'[Root] = "dir"
  BY <1>1, InodeFacts DEF IInv, TreeInv, Lists
<1>4. Lists'
  BY <1>2, <1>3 DEF Lists, Root, Inodes, IInv, TreeInv
<1>5. inode_count' = Cardinality(Live')
  <2>1. Live' = Live \cup {i}
    BY <1>1 DEF Live, IInv, TreeInv
  <2>2. Cardinality(Live \cup {i}) = Cardinality(Live) + 1
    BY InodeFacts, FS_AddElement
  <2> QED BY <2>1, <2>2 DEF IInv, TreeInv
<1>6. /\ kind' \in [Inodes -> {"dir", "file", "free"}]
      /\ name' \in [Inodes -> Paths \cup {<<>>}]
  BY <1>1 DEF IInv, TreeInv
<1>7. next_ino' \in 2 .. MaxIno + 1
  BY RamFsAssumption DEF IInv, TreeInv
<1> QED BY <1>4, <1>5, <1>6, <1>7 DEF TreeInv, IInv

LEMMA BootParent ==
  ASSUME IInv, NEW path \in Paths
  PROVE  get_parent_dir(path) # NULL => get_parent_dir(path) \in Live
<1>1. Root \in Live /\ Root \in Inodes
  BY InodeFacts DEF Live, IInv, TreeInv, Lists
<1>2. \A nm : lookup_child(Root, nm) # NULL => lookup_child(Root, nm) \in Live
  BY <1>1, LookupFacts DEF Live
<1> QED BY <1>1, <1>2 DEF get_parent_dir

LEMMA BootFileKeeps ==
  ASSUME IInv, NEW path \in Paths, NEW byte \in Bytes, NEW bytes \in BOOLEAN,
         ramfs_create_file(path, byte, bytes)
  PROVE  IInv'
<1> DEFINE dir == get_parent_dir(path)
           at == IF dir = NULL THEN Root ELSE dir
           nm == IF dir = NULL THEN path ELSE LastName(path)
           i == new_inode
<1>1. \/ UNCHANGED <<tree, data, size, fd_table, stale, booting>>
      \/ /\ i # NULL
         /\ \/ /\ kind' = [kind EXCEPT ![i] = "file"] /\ name' = [name EXCEPT ![i] = LastName(path)]
               /\ next_ino <= MaxIno /\ next_ino' = next_ino + 1
               /\ inode_count' = inode_count + 1
               /\ UNCHANGED <<parent, children>>
            \/ alloc_and_add(at, i, "file", nm)
         /\ \/ UNCHANGED <<data, size>>
            \/ /\ data' = [data EXCEPT ![i] = [p \in {0} |-> byte]]
               /\ size' = [size EXCEPT ![i] = 1]
         /\ UNCHANGED <<fd_table, stale, booting>>
  BY DEF ramfs_create_file, Return
<1>2. CASE UNCHANGED <<tree, data, size, fd_table, stale, booting>>
  BY <1>2, ReturnKeeps
<1>3. CASE /\ i # NULL
           /\ \/ /\ kind' = [kind EXCEPT ![i] = "file"] /\ name' = [name EXCEPT ![i] = LastName(path)]
                 /\ next_ino <= MaxIno /\ next_ino' = next_ino + 1
                 /\ inode_count' = inode_count + 1
                 /\ UNCHANGED <<parent, children>>
              \/ alloc_and_add(at, i, "file", nm)
           /\ \/ UNCHANGED <<data, size>>
              \/ /\ data' = [data EXCEPT ![i] = [p \in {0} |-> byte]]
                 /\ size' = [size EXCEPT ![i] = 1]
           /\ UNCHANGED <<fd_table, stale, booting>>
  <2>1. i \in Inodes \ Live /\ at \in Live /\ nm \in Paths /\ LastName(path) \in Paths
    BY <1>3, NewInode, BootParent, PathFacts, InodeFacts DEF Live, IInv, TreeInv, Lists
  <2> HIDE DEF i, at, nm
  <2>2. TreeInv' /\ kind' = [kind EXCEPT ![i] = "file"]
    <3>1. CASE alloc_and_add(at, i, "file", nm)
      BY <2>1, <3>1, AllocKeepsTree DEF alloc_and_add
    <3>2. CASE ~ alloc_and_add(at, i, "file", nm)
      BY <1>3, <2>1, <3>2, LeakKeepsTree
    <3> QED BY <3>1, <3>2
  <2>3. DataInv'
    <3>1. CASE UNCHANGED <<data, size>>
      BY <3>1, DataKept
    <3>2. CASE /\ data' = [data EXCEPT ![i] = [p \in {0} |-> byte]]
               /\ size' = [size EXCEPT ![i] = 1]
      <4>1. PICK n \in Nat : n = 1
        OBVIOUS
      <4>2. PICK b : b = [p \in {0} |-> byte]
        OBVIOUS
      <4>3. 0 .. n - 1 = {0}
        BY <4>1
      <4>4. b \in [0 .. n - 1 -> Bytes \cup {JUNK}]
        BY <4>2, <4>3
      <4>5. data' = [data EXCEPT ![i] = b] /\ size' = [size EXCEPT ![i] = n]
        BY <3>2, <4>1, <4>2
      <4>6. n \in 0 .. MaxSize /\ n <= n /\ i \in Inodes
        BY <2>1, <4>1, RamFsAssumption
      <4> QED BY <4>4, <4>5, <4>6, BufferUpdate
    <3> QED BY <1>3, <3>1, <3>2
  <2>4. \A j \in Inodes : kind[j] # "free" => kind'[j] = kind[j]
    BY <2>1, <2>2, KindsKept
  <2>5. FdInv' /\ HeldLive'
    BY <1>3, <2>4, FdsKept DEF IInv, FdInv
  <2> QED BY <2>2, <2>3, <2>5 DEF IInv
<1> QED BY <1>1, <1>2, <1>3

LEMMA BootDirKeeps ==
  ASSUME IInv, NEW path \in Paths, ramfs_create_dir(path)
  PROVE  IInv'
<1>1. \/ UNCHANGED <<tree, data, size, fd_table, stale, booting>>
      \/ /\ new_inode # NULL /\ alloc_and_add(Root, new_inode, "dir", path)
         /\ UNCHANGED <<data, size, fd_table, stale, booting>>
  BY DEF ramfs_create_dir, Return
<1>2. CASE UNCHANGED <<tree, data, size, fd_table, stale, booting>>
  BY <1>2, ReturnKeeps
<1>3. CASE /\ new_inode # NULL /\ alloc_and_add(Root, new_inode, "dir", path)
           /\ UNCHANGED <<data, size, fd_table, stale, booting>>
  <2>1. Root \in Live /\ new_inode \in Inodes \ Live
    BY <1>3, NewInode, InodeFacts DEF Live, IInv, TreeInv, Lists
  <2>2. TreeInv'
    BY <1>3, <2>1, AllocKeepsTree
  <2>3. \A j \in Inodes : kind[j] # "free" => kind'[j] = kind[j]
    BY <1>3, <2>1, KindsKept DEF alloc_and_add
  <2>4. FdInv' /\ HeldLive'
    BY <1>3, <2>3, FdsKept DEF IInv, FdInv
  <2> QED BY <1>3, <2>2, <2>4, DataKept DEF IInv
<1> QED BY <1>1, <1>2, <1>3

LEMMA InitInv == Init => IInv
<1> SUFFICES ASSUME Init PROVE IInv
  OBVIOUS
<1> USE DEF Init
<1>1. Live = {Root} /\ Cardinality({Root}) = 1
  BY InodeFacts, FS_Singleton DEF Live
<1>2. \A d \in Inodes : Range(children[d]) = {} /\ IsInjective(children[d])
  BY EmptyList
<1>3. Lists
  BY <1>2, InodeFacts DEF Lists
<1>4. TreeInv
  <2>1. next_ino \in 2 .. MaxIno + 1
    BY RamFsAssumption
  <2> QED BY <2>1, <1>1, <1>3, EmptyList, InodeFacts DEF TreeInv
<1>5. DataInv
  <2>1. DOMAIN NoData = {} /\ NoData \in [{} -> Bytes \cup {JUNK}]
    BY DEF NoData
  <2>2. Cardinality({}) = 0 /\ 0 .. 0 - 1 = {}
    BY FS_EmptySet
  <2>3. \A i \in Inodes : data[i] = NoData /\ capacity(i) = 0 /\ size[i] = 0
    BY <2>1, <2>2 DEF capacity
  <2>4. \A i \in Inodes : data[i] \in [0 .. capacity(i) - 1 -> Bytes \cup {JUNK}]
    BY <2>1, <2>2, <2>3
  <2>5. size \in [Inodes -> 0 .. MaxSize]
    BY RamFsAssumption
  <2> QED BY <2>3, <2>4, <2>5 DEF DataInv
<1>6. FdInv /\ HeldLive
  BY DEF FdInv, HeldLive
<1> QED BY <1>4, <1>5, <1>6 DEF IInv

LEMMA StepInv == IInv /\ [Next]_vars => IInv'
<1> SUFFICES ASSUME IInv, [Next]_vars PROVE IInv'
  OBVIOUS
<1>1. ASSUME NEW path \in Paths,
             \/ vfs_create(path, "file") \/ vfs_create(path, "dir")
             \/ vfs_unlink(path) \/ vfs_rmdir(path)
             \/ sys_openat(path, TRUE) \/ sys_openat(path, FALSE)
             \/ ramfs_create_dir(path)
             \/ \E byte \in Bytes : \/ ramfs_create_file(path, byte, TRUE)
                                    \/ ramfs_create_file(path, byte, FALSE)
      PROVE  IInv'
  BY <1>1, CreateKeeps, UnlinkKeeps, OpenKeeps, BootDirKeeps, BootFileKeeps
<1>2. ASSUME NEW old \in Paths, NEW new \in Paths, vfs_rename(old, new) PROVE IInv'
  BY <1>2, RenameKeeps
<1>3. ASSUME NEW fd \in Fds,
             \/ sys_close(fd)
             \/ \E count \in Counts : sys_read(fd, count)
             \/ \E count \in Counts, byte \in Bytes : sys_write(fd, count, byte)
             \/ \E offset \in Offsets, whence \in {"SET", "CUR", "END"} :
                  sys_lseek(fd, offset, whence)
      PROVE  IInv'
  BY <1>3, CloseKeeps, ReadKeeps, WriteKeeps, SeekKeeps
<1>4. CASE sys_open_root
  BY <1>4, OpenRootKeeps
<1>5. CASE Booted
  <2>1. booting' = FALSE /\ UNCHANGED <<tree, data, size, fd_table, stale>>
    BY <1>5 DEF Booted
  <2>2. FdInv' /\ HeldLive'
    BY <2>1, FdsKept DEF tree
  <2>3. TreeInv'
    BY <2>1 DEF IInv, TreeInv, Lists, tree, Live, Inodes, Root
  <2> QED BY <2>1, <2>2, <2>3, DataKept DEF IInv
<1>6. CASE UNCHANGED vars
  BY <1>6, ReturnKeeps DEF vars
<1> QED BY <1>1, <1>2, <1>3, <1>4, <1>5, <1>6 DEF Next

\* The lists, the buffers and the descriptors are what IInv says, through
\* every sequence of calls of ramfs.c, vfs.c and syscall.c.
THEOREM Invariance == Spec => []IInv
<1>1. IInv /\ [Next]_vars => IInv'
  BY StepInv
<1> QED BY InitInv, <1>1, PTL DEF Spec

-----------------------------------------------------------------------------
(* The properties of one state. *)

LEMMA ListCount ==
  ASSUME NEW s \in Seq(Inodes), IsInjective(s)
  PROVE  Cardinality(Range(s)) = Len(s)
<1>1. Len(s) \in Nat /\ DOMAIN s = 1 .. Len(s)
  OBVIOUS
<1>2. s \in [1 .. Len(s) -> Range(s)]
  BY <1>1 DEF Range
<1>3. s \in Bijection(1 .. Len(s), Range(s))
  BY <1>1, <1>2 DEF Bijection, Injection, Surjection, Range
<1>4. ExistsBijection(1 .. Len(s), Range(s))
  BY <1>3 DEF ExistsBijection
<1> QED BY <1>1, <1>4, FS_CountingElements

\* What hangs below the root is a tree, the descriptors name allocated inodes
\* of the kind they were opened as, and the numbers are right, whatever calls
\* are made and whichever of their allocations fail (ramfs.c, vfs.c,
\* syscall.c).
THEOREM RamFsTreeConsistent == Spec => []TreeConsistent
<1>1. IInv => TreeConsistent
  <2> SUFFICES ASSUME IInv PROVE TreeConsistent
    OBVIOUS
  <2>1. TypeOK
    BY DEF TypeOK, IInv, TreeInv, DataInv, FdInv
  <2>2. TreeShape
    <3> SUFFICES ASSUME NEW d \in Reachable
                 PROVE  /\ kind[d] # "free"
                        /\ Cardinality(ListOf(d)) = Len(children[d]) \/ kind[d] # "dir"
                        /\ \A c \in ListOf(d) : parent[c] = d /\ c # Root
                        /\ \A e \in Reachable \ {d} : ListOf(d) \cap ListOf(e) = {}
      BY DEF TreeShape
    <3>1. \A e \in Reachable : e \in Inodes /\ kind[e] # "free"
      BY ReachableFacts DEF Live
    <3>2. children[d] \in Seq(Inodes) /\ IsInjective(children[d])
      BY <3>1 DEF IInv, TreeInv, Lists
    <3>3. Cardinality(Range(children[d])) = Len(children[d])
      BY <3>2, ListCount
    <3>4. \A e \in Reachable : \A c \in ListOf(e) : parent[c] = e /\ c # Root
      BY <3>1 DEF ListOf, IInv, TreeInv, Lists
    <3>5. Cardinality(ListOf(d)) = Len(children[d]) \/ kind[d] # "dir"
      BY <3>3 DEF ListOf
    <3>6. \A e \in Reachable \ {d} : ListOf(d) \cap ListOf(e) = {}
      BY <3>4
    <3> QED BY <3>1, <3>4, <3>5, <3>6
  <2>3. HeldLive
    BY DEF IInv
  <2> QED BY <2>1, <2>2, <2>3 DEF TreeConsistent
<1> QED BY Invariance, <1>1, PTL

-----------------------------------------------------------------------------
(* The properties of one step. *)

\* A call that fails for another reason than memory has changed nothing: the
\* checks of every path operation and system call come before its effects.
THEOREM RamFsErrorIsNoOp == Spec => ErrorIsNoOp
<1>1. [Next]_vars =>
        [call'.ret # "ok" /\ call'.fail = "none"
           => UNCHANGED <<tree, data, size, fd_table>>]_vars
  <2> SUFFICES ASSUME Next, call'.ret # "ok", call'.fail = "none"
               PROVE  UNCHANGED <<tree, data, size, fd_table>>
    OBVIOUS
  <2> USE DEF Call, Return
  <2>1. ASSUME NEW path \in Paths, vfs_create(path, "file") \/ vfs_create(path, "dir")
        PROVE  UNCHANGED <<tree, data, size, fd_table>>
    BY <2>1 DEF vfs_create
  <2>2. ASSUME NEW path \in Paths, vfs_unlink(path) \/ vfs_rmdir(path)
        PROVE  UNCHANGED <<tree, data, size, fd_table>>
    BY <2>2 DEF vfs_unlink, vfs_rmdir
  <2>3. ASSUME NEW path \in Paths, NEW creat \in BOOLEAN, sys_openat(path, creat)
        PROVE  UNCHANGED <<tree, data, size, fd_table>>
    <3>1. \/ UNCHANGED <<tree, data, size, fd_table, stale, booting>>
          \/ call' = Call("open", {path}, "none", "ok")
          \/ \E fail \in {"late", "lookup"} :
               call' = Call("open", {path}, fail, IF fail = "late" THEN "ENOENT" ELSE "ok")
      <4> HIDE DEF Call
      <4> QED BY <2>3 DEF sys_openat
    <3> QED BY <3>1
  <2>4. ASSUME NEW path \in Paths, NEW byte \in Bytes, NEW bytes \in BOOLEAN,
               ramfs_create_file(path, byte, bytes)
        PROVE  UNCHANGED <<tree, data, size, fd_table>>
    <3>1. \/ UNCHANGED <<tree, data, size, fd_table, stale, booting>>
          \/ \E fail \in {"none", "data"} :
               call' = Call("boot", {path}, fail,
                            IF bytes /\ fail = "data" THEN "ENOMEM" ELSE "ok")
      <4> HIDE DEF Call
      <4> QED BY <2>4 DEF ramfs_create_file
    <3> QED BY <3>1
  <2>5. ASSUME NEW path \in Paths, ramfs_create_dir(path)
        PROVE  UNCHANGED <<tree, data, size, fd_table>>
    <3>1. \/ UNCHANGED <<tree, data, size, fd_table, stale, booting>>
          \/ call' = Call("boot", {path}, "none", "ok")
      <4> HIDE DEF Call
      <4> QED BY <2>5 DEF ramfs_create_dir
    <3> QED BY <3>1
  <2>6. ASSUME NEW old \in Paths, NEW new \in Paths, vfs_rename(old, new)
        PROVE  UNCHANGED <<tree, data, size, fd_table>>
    BY <2>6 DEF vfs_rename
  <2>7. ASSUME NEW fd \in Fds, sys_close(fd)
        PROVE  UNCHANGED <<tree, data, size, fd_table>>
    BY <2>7 DEF sys_close
  <2>8. ASSUME NEW fd \in Fds, NEW count \in Counts, sys_read(fd, count)
        PROVE  UNCHANGED <<tree, data, size, fd_table>>
    BY <2>8 DEF sys_read
  <2>9. ASSUME NEW fd \in Fds, NEW count \in Counts, NEW byte \in Bytes,
               sys_write(fd, count, byte)
        PROVE  UNCHANGED <<tree, data, size, fd_table>>
    BY <2>9 DEF sys_write
  <2>10. ASSUME NEW fd \in Fds, NEW offset \in Offsets, NEW whence \in {"SET", "CUR", "END"},
                sys_lseek(fd, offset, whence)
         PROVE  UNCHANGED <<tree, data, size, fd_table>>
    BY <2>10 DEF sys_lseek
  <2>11. CASE sys_open_root
    BY <2>11 DEF sys_open_root
  <2>12. CASE Booted
    BY <2>12 DEF Booted
  <2> HIDE DEF Call, Return
  <2> QED BY <2>1, <2>2, <2>3, <2>4, <2>5, <2>6, <2>7, <2>8, <2>9, <2>10, <2>11, <2>12
          DEF Next
<1> QED BY <1>1, PTL DEF Spec, ErrorIsNoOp

\* The condition of ContentKept on one inode.
Kept(i) ==
  kind'[i] # "free" =>
    /\ size'[i] >= size[i]
    /\ \A p \in 0 .. size[i] - 1 : data'[i][p] # data[i][p] =>
         /\ call'.op = "write" /\ call'.inode = i
         /\ p \in call'.from .. call'.from + call'.count - 1

\* What a file holds changes only where a write to it writes: ramfs_write
\* copies the old contents into the bigger buffer, and no other call, nor one
\* on another inode, touches the buffer of an inode that stays.
THEOREM RamFsContentKept == Spec => ContentKept
<1>1. IInv /\ [Next]_vars =>
        [\A i \in Live : Kept(i)]_<<kind, data, size>>
  <2> SUFFICES ASSUME IInv, [Next]_vars, NEW i \in Live PROVE Kept(i)
    OBVIOUS
  <2>0. i \in Inodes /\ size[i] \in Nat
    BY InodeFacts, RamFsAssumption DEF IInv, DataInv
  <2>1. CASE UNCHANGED <<data, size>>
    BY <2>0, <2>1 DEF Kept
  <2>2. ASSUME NEW dir, NEW j, unlink_and_free(dir, j) PROVE Kept(i)
    <3>1. /\ kind' = [kind EXCEPT ![j] = "free"]
          /\ data' = [data EXCEPT ![j] = NoData] /\ size' = [size EXCEPT ![j] = 0]
      BY <2>2 DEF unlink_and_free
    <3>2. CASE i = j
      BY <2>0, <3>1, <3>2 DEF Kept, IInv, TreeInv
    <3>3. CASE i # j
      <4>1. data'[i] = data[i] /\ size'[i] = size[i]
        BY <2>0, <3>1, <3>3 DEF IInv, DataInv
      <4> QED BY <2>0, <4>1 DEF Kept
    <3> QED BY <3>2, <3>3
  <2>3. ASSUME NEW path \in Paths, NEW byte \in Bytes, NEW bytes \in BOOLEAN,
               ramfs_create_file(path, byte, bytes)
        PROVE  Kept(i)
    <3>1. \/ UNCHANGED <<data, size>>
          \/ /\ new_inode # NULL
             /\ data' = data \/ data' = [data EXCEPT ![new_inode] = [p \in {0} |-> byte]]
             /\ size' = size \/ size' = [size EXCEPT ![new_inode] = 1]
      BY <2>3 DEF ramfs_create_file, Return
    <3>2. new_inode # NULL => new_inode # i
      BY NewInode
    <3>3. data'[i] = data[i] /\ size'[i] = size[i]
      BY <2>0, <3>1, <3>2 DEF IInv, DataInv
    <3> QED BY <2>0, <3>3 DEF Kept
  <2>4. ASSUME NEW fd \in Fds, NEW count \in Counts, NEW byte \in Bytes,
               sys_write(fd, count, byte)
        PROVE  Kept(i)
    <3> DEFINE f == fd_table[fd]
               j == f.inode
               end == f.pos + count
    <3>1. /\ f # NULL
          /\ \/ UNCHANGED <<data, size>>
             \/ /\ data' = [data EXCEPT ![j] = Written(j, f.pos, end, byte)]
                /\ size' = [size EXCEPT ![j] = Max({@, end})]
                /\ call'.op = "write" /\ call'.inode = j
                /\ call'.from = f.pos /\ call'.count = count
      BY <2>4 DEF sys_write, Usable, Return, Written, Call
    <3>2. f \in Files /\ j \in Inodes /\ f.pos \in Nat
      BY <3>1, RamFsAssumption DEF IInv, FdInv, Files
    <3>3. end \in Nat /\ count \in Nat /\ f.pos + count = end
      BY <3>2, RamFsAssumption
    <3> HIDE DEF f, j, end
    <3>4. CASE i # j
      <4>1. data'[i] = data[i] /\ size'[i] = size[i]
        BY <2>0, <3>1, <3>4 DEF IInv, DataInv
      <4> QED BY <2>0, <4>1 DEF Kept
    <3>5. CASE /\ i = j
               /\ data' = [data EXCEPT ![j] = Written(j, f.pos, end, byte)]
               /\ size' = [size EXCEPT ![j] = Max({@, end})]
               /\ call'.op = "write" /\ call'.inode = j
               /\ call'.from = f.pos /\ call'.count = count
      <4>1. /\ data'[i] = Written(i, f.pos, end, byte)
            /\ size'[i] = Max({size[i], end})
        BY <2>0, <3>5 DEF IInv, DataInv
      <4>2. Max({size[i], end}) >= size[i]
        BY <2>0, <3>3 DEF Max
      <4>3. \A p \in 0 .. size[i] - 1 :
              p \notin f.pos .. end - 1 => Written(i, f.pos, end, byte)[p] = data[i][p]
        <5>1. Untouched(i, f.pos, end, byte)
          BY <2>0, <3>2, <3>3, WrittenFacts
        <5> QED BY <5>1 DEF Untouched
      <4>4. call'.from + call'.count - 1 = end - 1
        BY <3>2, <3>3, <3>5
      <4> QED BY <3>5, <4>1, <4>2, <4>3, <4>4 DEF Kept
    <3> QED BY <2>1, <3>1, <3>4, <3>5
  <2>5. \/ UNCHANGED <<data, size>>
        \/ \E dir, j : unlink_and_free(dir, j)
        \/ \E path \in Paths, byte \in Bytes, bytes \in BOOLEAN :
             ramfs_create_file(path, byte, bytes)
        \/ \E fd \in Fds, count \in Counts, byte \in Bytes : sys_write(fd, count, byte)
    <3>1. ASSUME NEW path \in Paths,
                 \/ vfs_create(path, "file") \/ vfs_create(path, "dir")
                 \/ sys_openat(path, TRUE) \/ sys_openat(path, FALSE)
                 \/ ramfs_create_dir(path)
          PROVE  UNCHANGED <<data, size>>
      BY <3>1 DEF vfs_create, sys_openat, ramfs_create_dir, Return
    <3>2. ASSUME NEW path \in Paths, vfs_unlink(path) \/ vfs_rmdir(path)
          PROVE  UNCHANGED <<data, size>> \/ \E dir, j : unlink_and_free(dir, j)
      BY <3>2 DEF vfs_unlink, vfs_rmdir, Return
    <3>3. ASSUME NEW old \in Paths, NEW new \in Paths, vfs_rename(old, new)
          PROVE  UNCHANGED <<data, size>>
      BY <3>3 DEF vfs_rename, Return
    <3>4. ASSUME NEW fd \in Fds,
                 \/ sys_close(fd)
                 \/ \E count \in Counts : sys_read(fd, count)
                 \/ \E offset \in Offsets, whence \in {"SET", "CUR", "END"} :
                      sys_lseek(fd, offset, whence)
          PROVE  UNCHANGED <<data, size>>
      BY <3>4 DEF sys_close, sys_read, sys_lseek, Return
    <3>5. ASSUME sys_open_root \/ Booted \/ UNCHANGED vars PROVE UNCHANGED <<data, size>>
      BY <3>5 DEF sys_open_root, Booted, vars
    <3> QED BY <3>1, <3>2, <3>3, <3>4, <3>5 DEF Next
  <2> QED BY <2>1, <2>2, <2>3, <2>4, <2>5
<1>2. [\A i \in Live : Kept(i)]_<<kind, data, size>> =>
        [\A i \in Live : kind'[i] # "free" =>
           /\ size'[i] >= size[i]
           /\ \A p \in 0 .. size[i] - 1 : data'[i][p] # data[i][p] =>
                /\ call'.op = "write" /\ call'.inode = i
                /\ p \in call'.from .. call'.from + call'.count - 1]_<<kind, data, size>>
  BY DEF Kept
<1> QED BY Invariance, <1>1, <1>2, PTL DEF Spec, ContentKept

-----------------------------------------------------------------------------
(* What a step does to the lookups in one directory.                       *)

\* A member that is not in the list may get another name.
LEMMA FirstElsewhere ==
  ASSUME NEW s \in Seq(Inodes), NEW N, NEW i, i \notin Range(s), NEW nm, NEW M,
         \A c \in Range(s) : c # i => M[c] = N[c]
  PROVE  FirstOf(s, M, nm) = FirstOf(s, N, nm)
<1>1. \A c \in Range(s) : N[c] = nm <=> M[c] = nm
  OBVIOUS
<1> QED BY <1>1, FirstRenamed

LEMMA LookupNext ==
  \A d, nm : lookup_child(d, nm)' =
               IF kind'[d] = "dir" THEN FirstOf(children'[d], name', nm) ELSE NULL
<1>1. (\A d, nm : lookup_child(d, nm) =
                    IF kind[d] = "dir" THEN FirstOf(children[d], name, nm) ELSE NULL)'
  BY LookupIsFirst, PTL
<1> QED BY <1>1 DEF FirstOf

LEMMA LookupKept ==
  ASSUME NEW d, NEW nm, kind'[d] = kind[d],
         FirstOf(children'[d], name', nm) = FirstOf(children[d], name, nm)
  PROVE  lookup_child(d, nm)' = lookup_child(d, nm)
BY LookupIsFirst, LookupNext

\* What the invariant says about one list.
LEMMA ListFacts ==
  ASSUME IInv, NEW d \in Inodes
  PROVE  /\ children[d] \in Seq(Inodes) /\ IsInjective(children[d])
         /\ \A c \in Range(children[d]) :
              c \in Inodes /\ kind[c] # "free" /\ parent[c] = d /\ c # Root
<1>1. children[d] \in Seq(Inodes)
  BY DEF IInv, TreeInv
<1> QED BY <1>1, RangeType DEF IInv, TreeInv, Lists

\* A new inode is found under its name in its directory, and that is all.
LEMMA AllocLookups ==
  ASSUME IInv, NEW dir \in Live, NEW i \in Inodes \ Live, NEW k, NEW nm,
         alloc_and_add(dir, i, k, nm), NEW d \in Live, NEW c, d # dir \/ c # nm
  PROVE  lookup_child(d, c)' = lookup_child(d, c)
<1>1. /\ kind' = [kind EXCEPT ![i] = k] /\ name' = [name EXCEPT ![i] = nm]
      /\ children' = [children EXCEPT ![i] = <<>>,
                        ![dir] = IF kind[dir] = "dir" THEN <<i>> \o @ ELSE @]
  BY DEF alloc_and_add
<1>2. i \in Inodes /\ dir \in Inodes /\ d \in Inodes /\ d # i /\ dir # i /\ kind[i] = "free"
  BY InodeFacts DEF Live
<1> DEFINE s == children[d]
<1>3. s \in Seq(Inodes) /\ i \notin Range(s)
  BY <1>2, ListFacts
<1>4. kind'[d] = kind[d] /\ name'[i] = nm /\ \A e \in Inodes : e # i => name'[e] = name[e]
  BY <1>1, <1>2 DEF IInv, TreeInv
<1>5. children'[d] = IF d = dir /\ kind[dir] = "dir" THEN <<i>> \o s ELSE s
  BY <1>1, <1>2 DEF IInv, TreeInv
<1> HIDE DEF s
<1>6. FirstOf(s, name', c) = FirstOf(s, name, c)
  <2>1. \A e \in Range(s) : e # i => name'[e] = name[e]
    BY <1>3, <1>4, RangeType
  <2> QED BY <2>1, <1>3, FirstElsewhere
<1>7. FirstOf(children'[d], name', c) = FirstOf(s, name', c)
  <2>1. CASE d = dir /\ kind[dir] = "dir"
    <3>1. children'[d] = <<i>> \o s
      BY <2>1, <1>5
    <3>2. name'[i] # c
      BY <2>1, <1>4
    <3>3. FirstOf(<<i>> \o s, name', c) = FirstOf(s, name', c)
      BY <3>2, <1>2, <1>3, FirstPrepended
    <3> QED BY <3>1, <3>3
  <2>2. CASE ~ (d = dir /\ kind[dir] = "dir")
    BY <2>2, <1>5
  <2> QED BY <2>1, <2>2
<1> QED BY <1>4, <1>6, <1>7, LookupKept DEF s

\* The list of d without i, that was in the one of dir.
Rest(dir, i, d) == IF d = dir THEN RemoveFirst(children[dir], i) ELSE children[d]

\* Another name is looked up in it.
LEMMA TakenOut ==
  ASSUME IInv, NEW dir \in Inodes, NEW i \in Range(children[dir]), NEW M,
         \A e \in Inodes : e # i => M[e] = name[e],
         NEW d \in Inodes, NEW c, d # dir \/ c # name[i]
  PROVE  /\ Rest(dir, i, d) \in Seq(Inodes) /\ i \notin Range(Rest(dir, i, d))
         /\ FirstOf(Rest(dir, i, d), M, c) = FirstOf(children[d], name, c)
<1> DEFINE s == children[d]
           rest == Rest(dir, i, d)
<1>1. s \in Seq(Inodes) /\ IsInjective(s)
  BY ListFacts
<1>2. /\ rest \in Seq(Inodes) /\ i \notin Range(rest)
      /\ FirstOf(rest, name, c) = FirstOf(s, name, c)
  <2>1. CASE d = dir
    <3>1. i \in Range(s) /\ name[i] # c /\ rest = RemoveFirst(s, i)
      BY <2>1 DEF Rest
    <3> HIDE DEF s, rest
    <3>2. RemoveFirst(s, i) \in Seq(Inodes) /\ Range(RemoveFirst(s, i)) = Range(s) \ {i}
      BY <1>1, <3>1, RemovedRange
    <3>3. FirstOf(RemoveFirst(s, i), name, c) = FirstOf(s, name, c)
      BY <1>1, <3>1, FirstRemoved
    <3> QED BY <3>1, <3>2, <3>3
  <2>2. CASE d # dir
    <3>1. parent[i] = dir
      BY ListFacts
    <3>2. i \notin Range(s)
      BY <2>2, <3>1, ListFacts
    <3> QED BY <2>2, <3>2, <1>1 DEF Rest
  <2> QED BY <2>1, <2>2
<1> HIDE DEF rest
<1>3. \A e \in Range(rest) : e # i => M[e] = name[e]
  BY <1>2, RangeType
<1>4. FirstOf(rest, M, c) = FirstOf(rest, name, c)
  BY <1>2, <1>3, FirstElsewhere
<1> QED BY <1>2, <1>4 DEF rest

\* A freed inode is missed under its name in its directory, and that is all.
LEMMA UnlinkLookups ==
  ASSUME IInv, NEW dir \in Inodes, NEW i \in Range(children[dir]), unlink_and_free(dir, i),
         NEW d \in Inodes, d # i, NEW c, d # dir \/ c # name[i]
  PROVE  lookup_child(d, c)' = lookup_child(d, c)
<1>1. /\ kind' = [kind EXCEPT ![i] = "free"] /\ name' = [name EXCEPT ![i] = <<>>]
      /\ children' = [[children EXCEPT ![dir] = RemoveFirst(@, i)] EXCEPT ![i] = <<>>]
  BY DEF unlink_and_free, without
<1>2. i \in Inodes
  BY ListFacts
<1> DEFINE rest == Rest(dir, i, d)
<1>3. /\ kind'[d] = kind[d] /\ children'[d] = rest
      /\ \A e \in Inodes : e # i => name'[e] = name[e]
  BY <1>1, <1>2 DEF IInv, TreeInv, Rest
<1>4. FirstOf(rest, name', c) = FirstOf(children[d], name, c)
  BY <1>3, TakenOut
<1> QED BY <1>3, <1>4, LookupKept

\* A moved inode is missed under its old name where it was and found under
\* its new one where it is, and that is all.
LEMMA RelinkLookups ==
  ASSUME IInv, NEW old_dir \in Inodes, NEW new_dir \in Inodes,
         NEW i \in Range(children[old_dir]), NEW nm,
         relink(old_dir, new_dir, i, nm), UNCHANGED kind,
         NEW d \in Inodes, NEW c, d # old_dir \/ c # name[i], d # new_dir \/ c # nm
  PROVE  lookup_child(d, c)' = lookup_child(d, c)
<1>1. /\ children' = [[children EXCEPT ![old_dir] = RemoveFirst(@, i)]
                        EXCEPT ![new_dir] = <<i>> \o @]
      /\ name' = [name EXCEPT ![i] = nm]
  BY DEF relink, without
<1>2. i \in Inodes
  BY ListFacts
<1> DEFINE rest == Rest(old_dir, i, d)
<1>3. /\ children'[d] = IF d = new_dir THEN <<i>> \o rest ELSE rest
      /\ name'[i] = nm /\ \A e \in Inodes : e # i => name'[e] = name[e]
  BY <1>1, <1>2 DEF IInv, TreeInv, Rest
<1>4. rest \in Seq(Inodes) /\ FirstOf(rest, name', c) = FirstOf(children[d], name, c)
  BY <1>3, TakenOut
<1> HIDE DEF rest
<1>5. FirstOf(children'[d], name', c) = FirstOf(rest, name', c)
  <2>1. CASE d = new_dir
    <3>1. name'[i] # c
      BY <2>1, <1>3
    <3>2. FirstOf(<<i>> \o rest, name', c) = FirstOf(rest, name', c)
      BY <3>1, <1>2, <1>4, FirstPrepended
    <3> QED BY <2>1, <3>2, <1>3
  <2>2. CASE d # new_dir
    BY <2>2, <1>3
  <2> QED BY <2>1, <2>2
<1> QED BY <1>4, <1>5, LookupKept

\* A path names the component c of d, or leads to d.
Touches(q, d, c) ==
  (lookup_parent(q) = d /\ c = q[Len(q)]) \/ resolve(q) = d

\* A path can lead through d, whose name is one component.
OnPaths(d) == d = Root \/ \E c \in Components : name[d] = <<c>>

\* A step changes lookups only where one of its paths leads.
Local ==
  \A d \in Reachable, c \in Components : OnPaths(d) =>
    \/ lookup_child(d, <<c>>)' = lookup_child(d, <<c>>)
    \/ \E q \in call'.paths \cap Paths : Touches(q, d, c)

LEMMA CreateLocal ==
  ASSUME IInv, NEW path \in Paths, NEW k, NEW i, NEW dir,
         dir = lookup_parent(path), dir # NULL, i = new_inode, i # NULL,
         alloc_and_add(dir, i, k, LastName(path)), call'.paths = {path}
  PROVE  Local
<1>1. dir \in Live /\ i \in Inodes \ Live
  BY PathResult, NewInode
<1>2. ASSUME NEW d \in Reachable, NEW c \in Components,
             lookup_child(d, <<c>>)' # lookup_child(d, <<c>>)
      PROVE  Touches(path, d, c)
  <2>1. d \in Live
    BY ReachableFacts
  <2>2. d = dir /\ <<c>> = LastName(path)
    BY <1>1, <1>2, <2>1, AllocLookups
  <2>3. c = path[Len(path)]
    BY <2>2 DEF LastName
  <2> QED BY <2>2, <2>3 DEF Touches
<1> QED BY <1>2 DEF Local

LEMMA UnlinkLocal ==
  ASSUME IInv, NEW path \in Paths, resolve(path) # NULL,
         unlink_and_free(lookup_parent(path), resolve(path)), call'.paths = {path}
  PROVE  Local
<1> DEFINE dir == lookup_parent(path)
           i == resolve(path)
<1>1. dir \in Inodes /\ i \in Range(children[dir]) /\ name[i] = LastName(path)
  BY PathResult, InodeFacts
<1>2. ASSUME NEW d \in Reachable, NEW c \in Components,
             lookup_child(d, <<c>>)' # lookup_child(d, <<c>>)
      PROVE  Touches(path, d, c)
  <2>1. d \in Inodes
    BY DEF Reachable
  <2> HIDE DEF dir, i
  <2>2. unlink_and_free(dir, i)
    BY DEF dir, i
  <2>3. d = i \/ (d = dir /\ <<c>> = LastName(path))
    BY <1>1, <1>2, <2>1, <2>2, UnlinkLookups
  <2>4. d = i \/ (d = dir /\ c = path[Len(path)])
    BY <2>3 DEF LastName
  <2> QED BY <2>4 DEF Touches, dir, i
<1> QED BY <1>2 DEF Local

LEMMA RenameLocal ==
  ASSUME IInv, NEW old \in Paths, NEW new \in Paths,
         lookup_parent(new) # NULL, resolve(old) # NULL,
         relink(lookup_parent(old), lookup_parent(new), resolve(old), LastName(new)),
         UNCHANGED kind, call'.paths = {old, new}
  PROVE  Local
<1> DEFINE old_dir == lookup_parent(old)
           new_dir == lookup_parent(new)
           i == resolve(old)
<1>1. /\ old_dir \in Inodes /\ new_dir \in Inodes
      /\ i \in Range(children[old_dir]) /\ name[i] = LastName(old)
  BY PathResult, InodeFacts
<1>2. ASSUME NEW d \in Reachable, NEW c \in Components,
             lookup_child(d, <<c>>)' # lookup_child(d, <<c>>)
      PROVE  Touches(old, d, c) \/ Touches(new, d, c)
  <2>1. d \in Inodes
    BY DEF Reachable
  <2> HIDE DEF old_dir, new_dir, i
  <2>2. relink(old_dir, new_dir, i, LastName(new))
    BY DEF old_dir, new_dir, i
  <2>3. (d = old_dir /\ <<c>> = LastName(old)) \/ (d = new_dir /\ <<c>> = LastName(new))
    BY <1>1, <1>2, <2>1, <2>2, RelinkLookups
  <2>4. (d = old_dir /\ c = old[Len(old)]) \/ (d = new_dir /\ c = new[Len(new)])
    BY <2>3 DEF LastName
  <2> QED BY <2>4 DEF Touches, old_dir, new_dir
<1> QED BY <1>2 DEF Local

\* kernel_main's helpers.  What they take for the parent is it, or a file
\* system object whose name no path can have.
LEMMA BootParentPath ==
  ASSUME IInv, NEW path \in Paths, NEW d \in Inodes, get_parent_dir(path) = d, OnPaths(d)
  PROVE  lookup_parent(path) = d
<1>1. PICK w \in [0 .. Len(path) -> Reachable \cup {NULL}] :
        IsWalk(path, w) /\ lookup_parent(path) = w[Len(path) - 1]
  BY WalkExists DEF Walks
<1>2. path \in Seq(Components) /\ Len(path) \in Nat /\ Len(path) >= 1
  BY PathFacts
<1>3. w[0] = Root
  BY <1>1 DEF IsWalk
<1>4. CASE Len(path) = 1
  <2>1. d = Root
    BY <1>4 DEF get_parent_dir
  <2> QED BY <1>1, <1>3, <1>4, <2>1
<1>5. CASE Len(path) # 1
  <2> DEFINE front == SubSeq(path, 1, Len(path) - 1)
  <2>1. d = lookup_child(Root, front)
    BY <1>5 DEF get_parent_dir
  <2>2. front \in Seq(Components) /\ Len(front) = Len(path) - 1
    BY <1>2
  <2> HIDE DEF front
  <2>3. d # Root /\ name[d] = front
    BY <2>1, LookupFacts, InodeFacts
  <2>4. PICK c \in Components : front = <<c>>
    BY <2>3 DEF OnPaths
  <2>5. Len(path) = 2
    BY <2>2, <2>4, <1>2
  <2>6. front[1] = path[1]
    BY <1>2, <2>5 DEF front
  <2>7. front = <<path[1]>>
    BY <2>4, <2>6
  <2>8. 1 \in 1 .. Len(path) /\ w[1] = IF w[1 - 1] = NULL THEN NULL ELSE lookup_child(w[1 - 1], <<path[1]>>)
    BY <2>5, <1>1 DEF IsWalk
  <2>9. w[1] = lookup_child(Root, <<path[1]>>)
    BY <2>8, <1>3, InodeFacts
  <2> QED BY <1>1, <2>1, <2>5, <2>7, <2>9
<1> QED BY <1>4, <1>5

LEMMA BootFileLocal ==
  ASSUME IInv, NEW path \in Paths, NEW byte, NEW bytes,
         ramfs_create_file(path, byte, bytes)
  PROVE  UNCHANGED tree \/ Local
<1> DEFINE dir == get_parent_dir(path)
           at == IF dir = NULL THEN Root ELSE dir
           nm == IF dir = NULL THEN path ELSE LastName(path)
           i == new_inode
<1>1. \/ UNCHANGED tree
      \/ /\ i # NULL /\ call'.paths = {path}
         /\ kind' = [kind EXCEPT ![i] = "file"] /\ name' = [name EXCEPT ![i] = LastName(path)]
         /\ UNCHANGED children
      \/ /\ i # NULL /\ call'.paths = {path}
         /\ alloc_and_add(at, i, "file", nm)
  <2>1. \/ UNCHANGED tree
        \/ /\ i # NULL /\ \E fail, ret : call' = Call("boot", {path}, fail, ret)
           /\ \/ /\ kind' = [kind EXCEPT ![i] = "file"]
                 /\ name' = [name EXCEPT ![i] = LastName(path)]
                 /\ UNCHANGED children
              \/ alloc_and_add(at, i, "file", nm)
    BY DEF ramfs_create_file, Return
  <2> QED BY <2>1 DEF Call
<1>2. CASE /\ i # NULL
           /\ kind' = [kind EXCEPT ![i] = "file"] /\ name' = [name EXCEPT ![i] = LastName(path)]
           /\ UNCHANGED children
  <2>1. i \in Inodes \ Live
    BY <1>2, NewInode
  <2>2. ASSUME NEW d \in Reachable, NEW c \in Components
        PROVE  lookup_child(d, <<c>>)' = lookup_child(d, <<c>>)
    <3>1. d \in Live /\ d \in Inodes /\ d # i
      BY <2>1, ReachableFacts, InodeFacts
    <3>2. children[d] \in Seq(Inodes) /\ i \notin Range(children[d])
      BY <2>1, <3>1, ListFacts DEF Live
    <3>3. \A e \in Range(children[d]) : e # i => name'[e] = name[e]
      BY <1>2, <3>2, RangeType DEF IInv, TreeInv
    <3>4. FirstOf(children[d], name', <<c>>) = FirstOf(children[d], name, <<c>>)
      BY <3>2, <3>3, FirstElsewhere
    <3>5. kind'[d] = kind[d] /\ children'[d] = children[d]
      BY <1>2, <3>1 DEF IInv, TreeInv
    <3> QED BY <3>4, <3>5, LookupKept
  <2> QED BY <2>2 DEF Local
<1>3. CASE i # NULL /\ call'.paths = {path} /\ alloc_and_add(at, i, "file", nm)
  <2>1. i \in Inodes \ Live /\ at \in Live
    BY <1>3, NewInode, BootParent, InodeFacts DEF Live, IInv, TreeInv, Lists
  <2>2. ASSUME NEW d \in Reachable, NEW c \in Components, OnPaths(d),
               lookup_child(d, <<c>>)' # lookup_child(d, <<c>>)
        PROVE  Touches(path, d, c)
    <3>1. d \in Live /\ d \in Inodes
      BY ReachableFacts, InodeFacts
    <3>2. d = at /\ <<c>> = nm
      <4> HIDE DEF at, nm, i
      <4> QED BY <1>3, <2>1, <2>2, <3>1, AllocLookups
    <3>3. dir # NULL
      <4> SUFFICES ASSUME dir = NULL PROVE FALSE
        OBVIOUS
      <4>1. Len(path) = 1
        BY <3>2
      <4>2. dir = Root
        BY <4>1 DEF get_parent_dir
      <4> QED BY <4>2, InodeFacts
    <3>4. dir = d /\ c = path[Len(path)]
      BY <3>2, <3>3 DEF LastName
    <3>5. lookup_parent(path) = d
      BY <2>2, <3>1, <3>4, BootParentPath
    <3> QED BY <3>4, <3>5 DEF Touches
  <2> QED BY <1>3, <2>2 DEF Local
<1> QED BY <1>1, <1>2, <1>3

LEMMA BootDirLocal ==
  ASSUME IInv, NEW path \in Paths, ramfs_create_dir(path)
  PROVE  UNCHANGED tree \/ Local
<1>1. \/ UNCHANGED tree
      \/ /\ new_inode # NULL /\ call'.paths = {path}
         /\ alloc_and_add(Root, new_inode, "dir", path)
  <2>1. \/ UNCHANGED tree
        \/ /\ new_inode # NULL /\ alloc_and_add(Root, new_inode, "dir", path)
           /\ \E fail, ret : call' = Call("boot", {path}, fail, ret)
    BY DEF ramfs_create_dir, Return
  <2> QED BY <2>1 DEF Call
<1>2. CASE /\ new_inode # NULL /\ call'.paths = {path}
           /\ alloc_and_add(Root, new_inode, "dir", path)
  <2>1. Root \in Live /\ Root \in Inodes /\ new_inode \in Inodes \ Live
    BY <1>2, NewInode, InodeFacts DEF Live, IInv, TreeInv, Lists
  <2>2. ASSUME NEW d \in Reachable, NEW c \in Components,
               lookup_child(d, <<c>>)' # lookup_child(d, <<c>>)
        PROVE  Touches(path, d, c)
    <3>1. d \in Live
      BY ReachableFacts
    <3>2. d = Root /\ <<c>> = path
      BY <1>2, <2>1, <2>2, <3>1, AllocLookups
    <3>3. Len(path) = 1 /\ c = path[Len(path)]
      BY <3>2
    <3>4. get_parent_dir(path) = Root /\ OnPaths(Root)
      BY <3>3 DEF get_parent_dir, OnPaths
    <3>5. lookup_parent(path) = Root
      BY <2>1, <3>4, BootParentPath
    <3> QED BY <3>2, <3>3, <3>5 DEF Touches
  <2> QED BY <1>2, <2>2 DEF Local
<1> QED BY <1>1, <1>2

LEMMA StepLocal ==
  ASSUME IInv, Next
  PROVE  UNCHANGED tree \/ Local
<1>1. ASSUME NEW path \in Paths, NEW k \in {"dir", "file"}, vfs_create(path, k)
      PROVE  UNCHANGED tree \/ Local
  <2>1. \/ UNCHANGED tree
        \/ /\ lookup_parent(path) # NULL /\ new_inode # NULL /\ call'.paths = {path}
           /\ alloc_and_add(lookup_parent(path), new_inode, k, LastName(path))
    BY <1>1 DEF vfs_create, Return, Call
  <2> QED BY <2>1, CreateLocal
<1>2. ASSUME NEW path \in Paths, vfs_unlink(path) \/ vfs_rmdir(path)
      PROVE  UNCHANGED tree \/ Local
  <2>1. \/ UNCHANGED tree
        \/ /\ resolve(path) # NULL /\ call'.paths = {path}
           /\ unlink_and_free(lookup_parent(path), resolve(path))
    BY <1>2 DEF vfs_unlink, vfs_rmdir, Return, Call
  <2> QED BY <2>1, UnlinkLocal
<1>3. ASSUME NEW path \in Paths, NEW creat \in BOOLEAN, sys_openat(path, creat)
      PROVE  UNCHANGED tree \/ Local
  <2>1. \/ UNCHANGED tree
        \/ /\ lookup_parent(path) # NULL /\ new_inode # NULL /\ call'.paths = {path}
           /\ alloc_and_add(lookup_parent(path), new_inode, "file", LastName(path))
    <3>1. \/ UNCHANGED tree
          \/ /\ lookup_parent(path) # NULL /\ new_inode # NULL
             /\ alloc_and_add(lookup_parent(path), new_inode, "file", LastName(path))
             /\ \E fail, ret : call' = Call("open", {path}, fail, ret)
      BY <1>3 DEF sys_openat, Return
    <3> QED BY <3>1 DEF Call
  <2> QED BY <2>1, CreateLocal
<1>4. ASSUME NEW old \in Paths, NEW new \in Paths, vfs_rename(old, new)
      PROVE  UNCHANGED tree \/ Local
  <2>1. \/ UNCHANGED tree
        \/ /\ lookup_parent(new) # NULL /\ resolve(old) # NULL /\ call'.paths = {old, new}
           /\ relink(lookup_parent(old), lookup_parent(new), resolve(old), LastName(new))
           /\ UNCHANGED kind
    BY <1>4 DEF vfs_rename, Return, Call
  <2> QED BY <2>1, RenameLocal
<1>5. ASSUME NEW fd \in Fds,
             \/ sys_close(fd)
             \/ \E count \in Counts : sys_read(fd, count)
             \/ \E count \in Counts, byte \in Bytes : sys_write(fd, count, byte)
             \/ \E offset \in Offsets, whence \in {"SET", "CUR", "END"} :
                  sys_lseek(fd, offset, whence)
      PROVE  UNCHANGED tree
  BY <1>5 DEF sys_close, sys_read, sys_write, sys_lseek, Return
<1>6. ASSUME sys_open_root \/ Booted PROVE UNCHANGED tree
  BY <1>6 DEF sys_open_root, Booted
<1>7. ASSUME NEW path \in Paths, NEW byte \in Bytes, NEW bytes \in BOOLEAN,
             ramfs_create_file(path, byte, bytes)
      PROVE  UNCHANGED tree \/ Local
  BY <1>7, BootFileLocal
<1>8. ASSUME NEW path \in Paths, ramfs_create_dir(path) PROVE UNCHANGED tree \/ Local
  BY <1>8, BootDirLocal
<1> HIDE DEF Local
<1> QED BY <1>1, <1>2, <1>3, <1>4, <1>5, <1>6, <1>7, <1>8 DEF Next

\* A path that leads through a directory to what a step changes lies below
\* one of its paths.
LEMMA LocalResolution ==
  ASSUME IInv, IInv', Local, NEW p \in Paths, resolve(p)' # resolve(p)
  PROVE  \E q \in call'.paths : IsPrefix(q, p)
<1>1. PICK w \in [0 .. Len(p) -> Reachable \cup {NULL}] : IsWalk(p, w) /\ resolve(p) = w[Len(p)]
  BY WalkExists DEF Walks
<1>2. PICK v : IsWalk(p, v)' /\ resolve(p)' = v[Len(p)]
  BY WalkExistsNext DEF Walks
<1>3. Len(p) \in Nat /\ p \in Seq(Components)
  BY PathFacts
<1>4. SUFFICES ASSUME \A q \in call'.paths : ~ IsPrefix(q, p) PROVE FALSE
  OBVIOUS
<1>5. ASSUME NEW q \in call'.paths \cap Paths, NEW n \in 1 .. Len(p),
             w[n - 1] # NULL, Touches(q, w[n - 1], p[n])
      PROVE  FALSE
  <2>1. PICK u \in [0 .. Len(q) -> Reachable \cup {NULL}] :
          IsWalk(q, u) /\ lookup_parent(q) = u[Len(q) - 1] /\ resolve(q) = u[Len(q)]
    BY WalkExists DEF Walks
  <2>2. q \in Seq(Components) /\ Len(q) \in Nat /\ Len(q) >= 1
    BY PathFacts
  <2>3. PICK m \in Nat : m = n - 1
    BY <1>3
  <2>4. m \in 0 .. Len(p) /\ Len(q) \in 0 .. Len(q) /\ Len(q) - 1 \in 0 .. Len(q)
    BY <1>3, <2>2, <2>3
  <2>5. \A k \in 0 .. Len(q) : w[m] = u[k] => m = k /\ \A j \in 1 .. m : p[j] = q[j]
    <3>1. \A x \in 0 .. Len(p), k \in 0 .. Len(q) :
            w[x] = u[k] /\ w[x] # NULL => x = k /\ \A j \in 1 .. x : p[j] = q[j]
      BY <1>1, <2>1, WalkUnique
    <3>2. w[m] # NULL
      BY <1>5, <2>3
    <3> QED BY <2>4, <3>1, <3>2
  <2>6. \/ m = Len(q) - 1 /\ (\A j \in 1 .. m : p[j] = q[j]) /\ p[n] = q[Len(q)]
        \/ m = Len(q) /\ (\A j \in 1 .. m : p[j] = q[j])
    BY <1>5, <2>1, <2>3, <2>4, <2>5 DEF Touches
  <2>7. Len(q) <= Len(p) /\ \A j \in 1 .. Len(q) : p[j] = q[j]
    BY <1>3, <2>2, <2>3, <2>6
  <2>8. SubSeq(q, 1, Len(q)) = SubSeq(p, 1, Len(q))
    BY <1>3, <2>2, <2>7
  <2>9. IsPrefix(q, p)
    BY <2>7, <2>8 DEF IsPrefix
  <2> QED BY <1>4, <2>9
<1> DEFINE Good == {n \in Nat : n <= Len(p) => v[n] = w[n]}
<1>6. 0 \in Good
  BY <1>1, <1>2 DEF IsWalk, Root
<1>7. ASSUME NEW m \in Good PROVE m + 1 \in Good
  <2>1. PICK n \in Nat : n = m + 1
    OBVIOUS
  <2>2. SUFFICES ASSUME n <= Len(p) PROVE v[n] = w[n]
    BY <2>1
  <2>3. n \in 1 .. Len(p) /\ n - 1 = m /\ m \in 0 .. Len(p) /\ v[m] = w[m]
    BY <1>3, <2>1, <2>2
  <2>4. w[n] = IF w[m] = NULL THEN NULL ELSE lookup_child(w[m], <<p[n]>>)
    BY <1>1, <2>3 DEF IsWalk
  <2>5. v[n] = IF v[m] = NULL THEN NULL ELSE lookup_child(v[m], <<p[n]>>)'
    BY <1>2, <2>3 DEF IsWalk
  <2>6. CASE w[m] = NULL
    BY <2>3, <2>4, <2>5, <2>6
  <2>7. CASE w[m] # NULL
    <3>1. w[m] \in Reachable /\ p[n] \in Components
      BY <1>3, <2>3, <2>7
    <3>2. OnPaths(w[m])
      <4>1. CASE m = 0
        BY <1>1, <4>1 DEF IsWalk, OnPaths
      <4>2. CASE m # 0
        <5>1. m \in 1 .. Len(p) /\ p[m] \in Components
          BY <1>3, <2>3, <4>2
        <5>2. name[w[m]] = <<p[m]>>
          BY <1>1, <2>7, <5>1, WalkStep DEF ChildAt
        <5> QED BY <5>1, <5>2 DEF OnPaths
      <4> QED BY <4>1, <4>2
    <3>3. \A q \in call'.paths \cap Paths : ~ Touches(q, w[m], p[n])
      BY <1>5, <2>3, <2>7
    <3>4. lookup_child(w[m], <<p[n]>>)' = lookup_child(w[m], <<p[n]>>)
      BY <3>1, <3>2, <3>3 DEF Local
    <3> QED BY <2>3, <2>4, <2>5, <2>7, <3>4
  <2> QED BY <2>6, <2>7
<1>8. Good \in SUBSET Nat
  OBVIOUS
<1> HIDE DEF Good
<1>9. Len(p) \in Good
  BY <1>3, <1>6, <1>7, <1>8, AllNumbers
<1>10. v[Len(p)] = w[Len(p)]
  BY <1>3, <1>9 DEF Good
<1> QED BY <1>1, <1>2, <1>10

\* No call changes where a path leads unless it was called with a part of that
\* path: what ramfs_unlink and ramfs_rename take out of one list, and
\* ramfs_add_child puts at the front of one, is seen through that list only.
THEOREM RamFsResolutionStable == Spec => ResolutionStable
<1>1. IInv /\ IInv' /\ [Next]_vars =>
        [\A p \in Paths : resolve(p)' # resolve(p) =>
           \E q \in call'.paths : IsPrefix(q, p)]_tree
  <2> SUFFICES ASSUME IInv, IInv', [Next]_vars, ~ UNCHANGED tree,
                      NEW p \in Paths, resolve(p)' # resolve(p)
               PROVE  \E q \in call'.paths : IsPrefix(q, p)
    OBVIOUS
  <2>1. Next
    BY DEF vars
  <2>2. Local
    BY <2>1, StepLocal
  <2> QED BY <2>2, LocalResolution
<1> QED BY Invariance, <1>1, PTL DEF Spec, ResolutionStable

-----------------------------------------------------------------------------
(* Names in a directory. *)

LEMMA ReachableNext ==
  IInv' => \A S \in SUBSET Inodes :
    Root \in S /\ (\A d \in S : ListOf(d)' \subseteq S) => Reachable' \subseteq S
<1>1. (IInv => \A S \in SUBSET Inodes : Closed(S) => Reachable \subseteq S)'
  <2>1. IInv => \A S \in SUBSET Inodes : Closed(S) => Reachable \subseteq S
    BY ReachableFacts
  <2> QED BY <2>1, PTL
<1> QED BY <1>1 DEF Closed, Inodes, Root

LEMMA ParentNext ==
  IInv' => \A e \in Reachable' \ {Root} : \E d \in Inodes : parent'[e] = d /\ kind'[d] = "dir"
<1>1. IInv => \A e \in Reachable \ {Root} : \E d \in Inodes : parent[e] = d /\ kind[d] = "dir"
  <2> SUFFICES ASSUME IInv, NEW e \in Reachable \ {Root}
               PROVE  \E d \in Inodes : parent[e] = d /\ kind[d] = "dir"
    OBVIOUS
  <2>1. PICK d \in Reachable : e \in ListOf(d)
    BY ReachableFacts
  <2>2. d \in Inodes /\ kind[d] = "dir" /\ e \in Range(children[d])
    BY <2>1 DEF Reachable, ListOf
  <2> QED BY <2>2, ListFacts
<1>2. (IInv => \A e \in Reachable \ {Root} :
                 \E d \in Inodes : parent[e] = d /\ kind[d] = "dir")'
  BY <1>1, PTL
<1> QED BY <1>2 DEF Inodes, Root

\* An inode that is reachable in a directory is found in it by its name.
LEMMA NamedIsFound ==
  ASSUME IInv, NEW dir \in Inodes, NEW x \in Reachable, parent[x] = dir
  PROVE  lookup_child(dir, name[x]) # NULL
<1>1. x # Root
  BY InodeFacts DEF IInv, TreeInv, Lists
<1>2. PICK d \in Reachable : x \in ListOf(d)
  BY <1>1, ReachableFacts
<1>3. d \in Inodes /\ kind[d] = "dir" /\ x \in Range(children[d])
  BY <1>2 DEF Reachable, ListOf
<1>4. d = dir /\ children[d] \in Seq(Inodes)
  BY <1>3, ListFacts
<1>5. FirstOf(children[d], name, name[x]) # NULL
  BY <1>3, <1>4, FirstInRange
<1> QED BY <1>3, <1>4, <1>5, LookupIsFirst

\* An inode that comes under a name that its directory did not have.
LEMMA HomonymsKept ==
  ASSUME IInv, NEW dir \in Inodes, NEW nm, lookup_child(dir, nm) = NULL, NEW i,
         Reachable' \subseteq Reachable \cup {i},
         i \in Reachable' => parent'[i] = dir /\ name'[i] = nm,
         \A x \in Inodes \ {i} : parent'[x] = parent[x] /\ name'[x] = name[x]
  PROVE  Homonyms' \subseteq Homonyms
<1> SUFFICES ASSUME NEW c \in Reachable', NEW e \in Reachable', e # c,
                    parent'[e] = parent'[c], name'[e] = name'[c]
             PROVE  c \in Homonyms
  BY DEF Homonyms
<1>1. ASSUME NEW x \in Reachable PROVE ~ (parent[x] = dir /\ name[x] = nm)
  BY NamedIsFound
<1>2. ASSUME NEW x \in Reachable', x # i
      PROVE  x \in Reachable /\ parent'[x] = parent[x] /\ name'[x] = name[x]
  BY <1>2 DEF Reachable
<1>3. c # i /\ e # i
  BY <1>1, <1>2
<1> QED BY <1>2, <1>3 DEF Homonyms

LEMMA AllocNames ==
  ASSUME IInv, IInv', NEW dir \in Live, NEW i \in Inodes \ Live, NEW nm,
         alloc_and_add(dir, i, "file", nm), lookup_child(dir, nm) = NULL
  PROVE  Homonyms' \subseteq Homonyms
<1>1. /\ kind' = [kind EXCEPT ![i] = "file"] /\ name' = [name EXCEPT ![i] = nm]
      /\ parent' = [parent EXCEPT ![i] = IF kind[dir] = "dir" THEN dir ELSE NULL]
      /\ children' = [children EXCEPT ![i] = <<>>,
                        ![dir] = IF kind[dir] = "dir" THEN <<i>> \o @ ELSE @]
  BY DEF alloc_and_add
<1>2. i \in Inodes /\ dir \in Inodes /\ dir # i /\ i # Root
  BY InodeFacts DEF Live, IInv, TreeInv, Lists
<1>3. Reachable' \subseteq Reachable \cup {i}
  <2> DEFINE S == Reachable \cup {i}
  <2>1. S \in SUBSET Inodes /\ Root \in S
    BY <1>2, ReachableFacts DEF Reachable
  <2>2. ASSUME NEW d \in S PROVE ListOf(d)' \subseteq S
    <3>1. CASE d = i
      BY <1>1, <1>2, <3>1 DEF ListOf, IInv, TreeInv
    <3>2. CASE d # i
      <4>1. d \in Reachable /\ d \in Inodes
        BY <2>1, <3>2
      <4>2. kind'[d] = kind[d]
        BY <1>1, <3>2, <4>1 DEF IInv, TreeInv
      <4>3. children'[d] = children[d] \/ children'[d] = <<i>> \o children[d]
        BY <1>1, <1>2, <3>2, <4>1 DEF IInv, TreeInv
      <4>4. Range(<<i>> \o children[d]) = Range(children[d]) \cup {i}
        BY <1>2, <4>1, ListFacts, Prepended
      <4>5. ListOf(d)' \subseteq ListOf(d) \cup {i}
        BY <4>2, <4>3, <4>4 DEF ListOf
      <4> QED BY <4>1, <4>5, ReachableFacts
    <3> QED BY <3>1, <3>2
  <2> HIDE DEF S
  <2>3. Reachable' \subseteq S
    BY <2>1, <2>2, ReachableNext
  <2> QED BY <2>3 DEF S
<1>4. ASSUME i \in Reachable' PROVE parent'[i] = dir /\ name'[i] = nm
  <2>1. PICK d \in Inodes : parent'[i] = d
    BY <1>2, <1>4, ParentNext
  <2>2. parent'[i] # NULL
    BY <2>1, InodeFacts
  <2> QED BY <2>2, <1>1, <1>2 DEF IInv, TreeInv
<1>5. \A x \in Inodes \ {i} : parent'[x] = parent[x] /\ name'[x] = name[x]
  BY <1>1, <1>2 DEF IInv, TreeInv
<1> QED BY <1>2, <1>3, <1>4, <1>5, HomonymsKept

LEMMA RelinkNames ==
  ASSUME IInv, IInv', NEW old_dir \in Inodes, NEW new_dir \in Inodes,
         NEW i \in Range(children[old_dir]) \cap Reachable, NEW nm,
         relink(old_dir, new_dir, i, nm), UNCHANGED kind, lookup_child(new_dir, nm) = NULL
  PROVE  Homonyms' \subseteq Homonyms
<1>1. /\ children' = [[children EXCEPT ![old_dir] = RemoveFirst(@, i)]
                        EXCEPT ![new_dir] = <<i>> \o @]
      /\ parent' = [parent EXCEPT ![i] = new_dir] /\ name' = [name EXCEPT ![i] = nm]
  BY DEF relink, without
<1>2. i \in Inodes
  BY DEF Reachable
<1>3. Reachable' \subseteq Reachable
  <2> DEFINE S == Reachable
  <2>1. S \in SUBSET Inodes /\ Root \in S
    BY ReachableFacts DEF Reachable
  <2>2. ASSUME NEW d \in S PROVE ListOf(d)' \subseteq S
    <3>1. d \in Inodes
      BY <2>1
    <3> DEFINE rest == IF d = old_dir THEN RemoveFirst(children[old_dir], i) ELSE children[d]
    <3>2. rest \in Seq(Inodes) /\ Range(rest) \subseteq Range(children[d])
      BY <3>1, ListFacts, RemovedRange
    <3>3. children'[d] = rest \/ children'[d] = <<i>> \o rest
      BY <1>1, <3>1 DEF IInv, TreeInv
    <3> HIDE DEF rest
    <3>4. Range(<<i>> \o rest) = Range(rest) \cup {i}
      BY <1>2, <3>2, Prepended
    <3>5. ListOf(d)' \subseteq ListOf(d) \cup {i}
      BY <3>2, <3>3, <3>4 DEF ListOf
    <3> QED BY <3>5, ReachableFacts
  <2> HIDE DEF S
  <2>3. Reachable' \subseteq S
    BY <2>1, <2>2, ReachableNext
  <2> QED BY <2>3 DEF S
<1>4. parent'[i] = new_dir /\ name'[i] = nm
  BY <1>1, <1>2 DEF IInv, TreeInv
<1>5. \A x \in Inodes \ {i} : parent'[x] = parent[x] /\ name'[x] = name[x]
  BY <1>1, <1>2 DEF IInv, TreeInv
<1>6. Reachable' \subseteq Reachable \cup {i}
  BY <1>3
<1> QED BY <1>4, <1>5, <1>6, HomonymsKept

\* vfs_open with O_CREAT and vfs_rename never give a directory a second child
\* of one name: the name each uses is the one it looked up, in the directory
\* it looked it up in.
THEOREM RamFsOpenRenameKeepNamesUnique == Spec => OpenRenameKeepNamesUnique
<1>1. IInv /\ IInv' /\ [Next]_vars =>
        [call'.op \in {"open", "rename"} /\ call'.fail # "lookup"
           => Homonyms' \subseteq Homonyms]_tree
  <2> SUFFICES ASSUME IInv, IInv', Next, ~ UNCHANGED tree,
                      call'.op \in {"open", "rename"}, call'.fail # "lookup"
               PROVE  Homonyms' \subseteq Homonyms
    BY DEF vars
  <2>1. ASSUME NEW path \in Paths, NEW creat \in BOOLEAN, sys_openat(path, creat)
        PROVE  Homonyms' \subseteq Homonyms
    <3>1. /\ lookup_parent(path) # NULL /\ new_inode # NULL
          /\ alloc_and_add(lookup_parent(path), new_inode, "file", LastName(path))
          /\ \/ resolve(path) = NULL
             \/ \E ret : call' = Call("open", {path}, "lookup", ret)
      BY <2>1 DEF sys_openat, Return
    <3>2. lookup_child(lookup_parent(path), LastName(path)) = NULL
      BY <3>1 DEF resolve, Call
    <3>3. lookup_parent(path) \in Live /\ new_inode \in Inodes \ Live
      BY <3>1, PathResult, NewInode
    <3> QED BY <3>1, <3>2, <3>3, AllocNames
  <2>2. ASSUME NEW old \in Paths, NEW new \in Paths, vfs_rename(old, new)
        PROVE  Homonyms' \subseteq Homonyms
    <3>1. /\ lookup_parent(new) # NULL /\ resolve(old) # NULL
          /\ lookup_child(lookup_parent(new), LastName(new)) = NULL
          /\ relink(lookup_parent(old), lookup_parent(new), resolve(old), LastName(new))
          /\ UNCHANGED kind
      BY <2>2 DEF vfs_rename, Return
    <3>2. /\ lookup_parent(old) \in Inodes /\ lookup_parent(new) \in Inodes
          /\ resolve(old) \in Range(children[lookup_parent(old)]) \cap Reachable
      BY <3>1, PathResult, InodeFacts
    <3> QED BY <3>1, <3>2, RelinkNames
  <2>3. ASSUME NEW path \in Paths,
               \/ vfs_create(path, "file") \/ vfs_create(path, "dir")
               \/ vfs_unlink(path) \/ vfs_rmdir(path)
        PROVE  \E op, fail, ret : /\ op \in {"create", "unlink", "rmdir", "boot"}
                                    /\ call' = Call(op, {path}, fail, ret)
    BY <2>3 DEF vfs_create, vfs_unlink, vfs_rmdir, Return
  <2>4. ASSUME NEW path \in Paths,
               \/ ramfs_create_dir(path)
               \/ \E byte \in Bytes : \/ ramfs_create_file(path, byte, TRUE)
                                      \/ ramfs_create_file(path, byte, FALSE)
        PROVE  \E op, fail, ret : /\ op \in {"create", "unlink", "rmdir", "boot"}
                                    /\ call' = Call(op, {path}, fail, ret)
    BY <2>4 DEF ramfs_create_dir, ramfs_create_file, Return
  <2>5. ASSUME NEW fd \in Fds,
               \/ sys_close(fd)
               \/ \E count \in Counts : sys_read(fd, count)
               \/ \E count \in Counts, byte \in Bytes : sys_write(fd, count, byte)
               \/ \E offset \in Offsets, whence \in {"SET", "CUR", "END"} :
                    sys_lseek(fd, offset, whence)
        PROVE  UNCHANGED tree
    BY <2>5 DEF sys_close, sys_read, sys_write, sys_lseek, Return
  <2>6. ASSUME sys_open_root \/ Booted PROVE UNCHANGED tree
    BY <2>6 DEF sys_open_root, Booted
  <2>7. ASSUME NEW path, NEW op \in {"create", "unlink", "rmdir", "boot"},
               NEW fail, NEW ret, call' = Call(op, {path}, fail, ret)
        PROVE  FALSE
    BY <2>7 DEF Call
  <2> QED BY <2>1, <2>2, <2>3, <2>4, <2>5, <2>6, <2>7, ZenonT(60) DEF Next
<1> QED BY Invariance, <1>1, PTL DEF Spec, OpenRenameKeepNamesUnique
=============================================================================
