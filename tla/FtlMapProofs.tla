---------------------------- MODULE FtlMapProofs ----------------------------
(***************************************************************************)
(* The flash translation layer, for any number of dies, blocks, pages and  *)
(* slices: BlockMapExact, NoDataLost and, when the slices of the host fit  *)
(* into the blocks of one die, NoAssertFails.  A host that rewrites a      *)
(* whole open block while its die is out of blocks is excluded.            *)
(***************************************************************************)
EXTENDS FtlMap, LinkedListProofs

LEMMA Sizes ==
    /\ NumDies \in Nat /\ 1 <= NumDies /\ NumBlocks \in Nat /\ 2 <= NumBlocks
    /\ PagesPerBlock \in Nat /\ 1 <= PagesPerBlock
    /\ NumDies - 1 \in Nat /\ NumBlocks - 1 \in Nat /\ PagesPerBlock - 1 \in Nat
  BY SizeAssumption

LEMMA Marks ==
    /\ None \notin Blocks /\ None \notin Nat /\ None \notin Vsas /\ None \notin Lsas
    /\ None # "stale" /\ "stale" \notin Lsas
    /\ None # "no available block" /\ None # "current page" /\ None # "no victim"
<1>1. Blocks \subseteq Nat
  BY Sizes DEF Blocks
<1> QED
  BY <1>1, LsasAssumption, NoneAssumption DEF Failures

LEMMA BlocksFinite ==
    /\ IsFiniteSet(Blocks) /\ Cardinality(Blocks) = NumBlocks
    /\ IsFiniteSet(Pages) /\ Cardinality(Pages) = PagesPerBlock
<1>1. IsFiniteSet(Blocks) /\ Cardinality(Blocks) = NumBlocks
  <2>1. 0 \in Int /\ NumBlocks - 1 \in Int /\ ~ (0 > NumBlocks - 1)
    BY Sizes
  <2>2. IsFiniteSet(0 .. NumBlocks - 1) /\ Cardinality(0 .. NumBlocks - 1) = NumBlocks - 1 - 0 + 1
    BY <2>1, FS_Interval
  <2> QED
    BY <2>2, Sizes DEF Blocks
<1>2. IsFiniteSet(Pages) /\ Cardinality(Pages) = PagesPerBlock
  <2>1. 0 \in Int /\ PagesPerBlock - 1 \in Int /\ ~ (0 > PagesPerBlock - 1)
    BY Sizes
  <2>2. IsFiniteSet(0 .. PagesPerBlock - 1)
        /\ Cardinality(0 .. PagesPerBlock - 1) = PagesPerBlock - 1 - 0 + 1
    BY <2>1, FS_Interval
  <2> QED
    BY <2>2, Sizes DEF Pages
<1> QED
  BY <1>1, <1>2

(***************************************************************************)
(* One list of blocks                                                      *)
(***************************************************************************)

\* The list has the blocks of S, linked both ways, and numbers grow along it.
IsList(S, blk, list, pos) ==
    /\ S \subseteq Blocks
    /\ list.head # None => list.head \in S /\ blk[list.head].prev = None
    /\ list.tail # None => list.tail \in S /\ blk[list.tail].next = None
    /\ \A x \in S :
         /\ pos[x] \in Nat
         /\ blk[x].next # None =>
              blk[x].next \in S /\ blk[blk[x].next].prev = x /\ pos[x] < pos[blk[x].next]
         /\ blk[x].prev # None => blk[x].prev \in S /\ blk[blk[x].prev].next = x
         /\ blk[x].prev = None => list.head = x
         /\ blk[x].next = None => list.tail = x

Listing(S, blk, list) == \E pos : IsList(S, blk, list, pos)

\* The chain from the head is the list.
LEMMA ListChain ==
    ASSUME NEW S, NEW blk, NEW list, Listing(S, blk, list)
    PROVE  LET next == [b \in Blocks |-> blk[b].next]
               c    == Chain(next, list.head, NumBlocks, None)
           IN  Enumerates(c, S, next, list.head, None)
<1> DEFINE next == [b \in Blocks |-> blk[b].next]
           prev == [b \in Blocks |-> blk[b].prev]
<1>1. PICK pos : IsList(S, blk, list, pos)
  BY DEF Listing
<1>2. LinkedIn(S, next, prev, list.head, pos, None)
  <2>1. None \notin S /\ \A x \in S : next[x] = blk[x].next /\ prev[x] = blk[x].prev
    BY <1>1, Marks DEF IsList
  <2>2. list.head # None => list.head \in S
    BY <1>1 DEF IsList
  <2>3. ASSUME NEW x \in S
        PROVE  /\ pos[x] \in Nat
               /\ next[x] # None => next[x] \in S /\ prev[next[x]] = x /\ pos[x] < pos[next[x]]
               /\ prev[x] # None => prev[x] \in S /\ next[prev[x]] = x
               /\ prev[x] = None => list.head = x
    <3> HIDE DEF next, prev
    <3> QED
      BY <1>1, <2>1 DEF IsList
  <2> HIDE DEF next, prev
  <2> QED
    BY <2>1, <2>2, <2>3 DEF LinkedIn
<1>3. IsFiniteSet(S) /\ Cardinality(S) <= NumBlocks
  <2>1. S \subseteq Blocks
    BY <1>1 DEF IsList
  <2> QED
    BY <2>1, BlocksFinite, FS_Subset
<1> HIDE DEF next, prev
<1>4. NumBlocks \in Nat
  BY Sizes
<1>5. Enumerates(Chain(next, list.head, NumBlocks, None), S, next, list.head, None)
  BY <1>2, <1>3, <1>4, ChainEnumerates
<1> QED
  BY <1>5 DEF next

\* A list without a head, or without a tail, is empty.
LEMMA ListEmpty ==
    ASSUME NEW S, NEW blk, NEW list, Listing(S, blk, list)
    PROVE  /\ list.head = None <=> S = {}
           /\ list.tail = None <=> S = {}
<1> DEFINE next == [b \in Blocks |-> blk[b].next]
           c    == Chain(next, list.head, NumBlocks, None)
<1>1. Enumerates(c, S, next, list.head, None)
  BY ListChain
<1> HIDE DEF c
<1>2. PICK pos : IsList(S, blk, list, pos)
  BY DEF Listing
<1>3. S # {} => c # << >>
  BY <1>1 DEF Enumerates, Nodes
<1>4. S # {} => Len(c) \in DOMAIN c /\ 1 \in DOMAIN c /\ c[1] \in S /\ c[Len(c)] \in S
  BY <1>1, <1>3 DEF Enumerates
<1>5. S # {} => list.head = c[1] /\ next[c[Len(c)]] = None
  BY <1>1, <1>3 DEF Enumerates, Follows
<1>6. S # {} => blk[c[Len(c)]].next = None
  BY <1>2, <1>4, <1>5 DEF IsList
<1>7. S # {} => list.head \in S /\ list.tail \in S
  BY <1>2, <1>4, <1>5, <1>6 DEF IsList
<1>8. None \notin S
  BY <1>2, Marks DEF IsList
<1>9. S = {} => list.head = None /\ list.tail = None
  BY <1>2 DEF IsList
<1> QED
  BY <1>7, <1>8, <1>9

\* Links outside a list do not matter to it.
LEMMA ListSame ==
    ASSUME NEW S, NEW blk, NEW list, Listing(S, blk, list), NEW blk2,
           \A x \in S : blk2[x].next = blk[x].next /\ blk2[x].prev = blk[x].prev
    PROVE  Listing(S, blk2, list)
<1>1. PICK pos : IsList(S, blk, list, pos)
  BY DEF Listing
<1>2. IsList(S, blk2, list, pos)
  BY <1>1 DEF IsList
<1> QED
  BY <1>2 DEF Listing

\* A block is put to the end of the list.
LEMMA ListPut ==
    ASSUME NEW S, NEW blk, NEW list, Listing(S, blk, list),
           NEW b \in Blocks \ S, NEW blk2, NEW list2,
           list2.tail = b,
           list2.head = IF list.tail = None THEN b ELSE list.head,
           blk2[b].prev = list.tail, blk2[b].next = None,
           \A x \in S : /\ blk2[x].prev = blk[x].prev
                        /\ blk2[x].next = IF x = list.tail THEN b ELSE blk[x].next
    PROVE  Listing(S \cup {b}, blk2, list2)
<1>1. PICK pos : IsList(S, blk, list, pos)
  BY DEF Listing
<1>2. /\ list.head = None <=> S = {}
      /\ list.tail = None <=> S = {}
  BY ListEmpty
<1> DEFINE q == [x \in S \cup {b} |-> IF x = b THEN (IF S = {} THEN 0 ELSE pos[list.tail] + 1)
                                      ELSE pos[x]]
<1>3. /\ q[b] \in Nat
      /\ S # {} => list.tail \in S /\ q[list.tail] < q[b]
      /\ \A x \in S : q[x] = pos[x] /\ pos[x] \in Nat
  BY <1>1, <1>2 DEF IsList
<1> HIDE DEF q
<1>4. b # None /\ None \notin S
  BY <1>1, Marks DEF IsList
<1>5. S \cup {b} \subseteq Blocks
  BY <1>1 DEF IsList
<1>6. list2.head # None => list2.head \in S \cup {b} /\ blk2[list2.head].prev = None
  BY <1>1, <1>2, <1>4 DEF IsList
<1>7. ASSUME NEW x \in S
      PROVE  /\ q[x] \in Nat
             /\ blk2[x].next # None =>
                  /\ blk2[x].next \in S \cup {b} /\ blk2[blk2[x].next].prev = x
                  /\ q[x] < q[blk2[x].next]
             /\ blk2[x].prev # None => blk2[x].prev \in S \cup {b} /\ blk2[blk2[x].prev].next = x
             /\ blk2[x].prev = None => list2.head = x
             /\ blk2[x].next = None => list2.tail = x
  <2>1. CASE x = list.tail
    BY <1>1, <1>2, <1>3, <1>4, <2>1 DEF IsList
  <2>2. CASE x # list.tail
    BY <1>1, <1>2, <1>3, <1>4, <2>2 DEF IsList
  <2> QED
    BY <2>1, <2>2
<1>8. /\ q[b] \in Nat /\ blk2[b].next = None /\ list2.tail = b
      /\ blk2[b].prev # None => blk2[b].prev \in S \cup {b} /\ blk2[blk2[b].prev].next = b
      /\ blk2[b].prev = None => list2.head = b
  BY <1>1, <1>2, <1>3 DEF IsList
<1>9. IsList(S \cup {b}, blk2, list2, q)
  BY <1>4, <1>5, <1>6, <1>7, <1>8 DEF IsList
<1> QED
  BY <1>9 DEF Listing

\* A block is taken out of the list, wherever it is.
LEMMA ListTake ==
    ASSUME NEW S, NEW blk, NEW list, Listing(S, blk, list),
           NEW b \in S, NEW blk2, NEW list2,
           list2.head = IF blk[b].prev = None THEN blk[b].next ELSE list.head,
           list2.tail = IF blk[b].next = None THEN blk[b].prev ELSE list.tail,
           \A x \in S \ {b} :
              /\ blk2[x].prev = IF x = blk[b].next THEN blk[b].prev ELSE blk[x].prev
              /\ blk2[x].next = IF x = blk[b].prev THEN blk[b].next ELSE blk[x].next
    PROVE  Listing(S \ {b}, blk2, list2)
<1>1. PICK pos : IsList(S, blk, list, pos)
  BY DEF Listing
<1> DEFINE R == S \ {b}
<1>2. None \notin S /\ b # None /\ R \subseteq Blocks
  BY <1>1, Marks DEF IsList
<1>3. PICK n, p : n = blk[b].next /\ p = blk[b].prev
  OBVIOUS
<1>4. /\ n # None => n \in S /\ n # b /\ blk[n].prev = b /\ pos[b] < pos[n]
      /\ p # None => p \in S /\ p # b /\ blk[p].next = b /\ pos[p] < pos[b]
      /\ p = None => list.head = b
      /\ n = None => list.tail = b
      /\ pos[b] \in Nat
  <2>1. /\ n # None => n \in S /\ blk[n].prev = b /\ pos[b] < pos[n]
        /\ p # None => p \in S /\ blk[p].next = b
        /\ p = None => list.head = b
        /\ n = None => list.tail = b
        /\ pos[b] \in Nat
    BY <1>1, <1>3 DEF IsList
  <2>2. p # None => pos[p] < pos[b]
    BY <1>1, <1>2, <2>1 DEF IsList
  <2> QED
    BY <2>1, <2>2
<1>5. p # None /\ n # None => p # n /\ pos[p] < pos[n]
  <2>1. p # None /\ n # None => pos[p] \in Nat /\ pos[n] \in Nat
    BY <1>1, <1>4 DEF IsList
  <2> QED
    BY <1>4, <2>1
<1>6. list2.head # None => list2.head \in R /\ blk2[list2.head].prev = None
  <2>1. CASE p = None
    BY <1>2, <1>3, <1>4, <2>1
  <2>2. CASE p # None
    <3>1. list2.head = list.head
      BY <1>3, <2>2
    <3>2. list.head # None => list.head \in S /\ blk[list.head].prev = None
      BY <1>1 DEF IsList
    <3>3. list.head # None => list.head # b /\ list.head # n
      BY <1>3, <1>4, <2>2, <3>2, <1>2
    <3> QED
      BY <1>3, <3>1, <3>2, <3>3
  <2> QED
    BY <2>1, <2>2
<1>7. list2.tail # None => list2.tail \in R /\ blk2[list2.tail].next = None
  <2>1. CASE n = None
    BY <1>2, <1>3, <1>4, <2>1
  <2>2. CASE n # None
    <3>1. list2.tail = list.tail
      BY <1>3, <2>2
    <3>2. list.tail # None => list.tail \in S /\ blk[list.tail].next = None
      BY <1>1 DEF IsList
    <3>3. list.tail # None => list.tail # b /\ list.tail # p
      BY <1>3, <1>4, <2>2, <3>2, <1>2
    <3> QED
      BY <1>3, <3>1, <3>2, <3>3
  <2> QED
    BY <2>1, <2>2
<1>8. ASSUME NEW x \in R
      PROVE  /\ pos[x] \in Nat
             /\ blk2[x].next # None =>
                  blk2[x].next \in R /\ blk2[blk2[x].next].prev = x /\ pos[x] < pos[blk2[x].next]
             /\ blk2[x].prev # None => blk2[x].prev \in R /\ blk2[blk2[x].prev].next = x
             /\ blk2[x].prev = None => list2.head = x
             /\ blk2[x].next = None => list2.tail = x
  <2>1. /\ blk2[x].prev = IF x = n THEN p ELSE blk[x].prev
        /\ blk2[x].next = IF x = p THEN n ELSE blk[x].next
    BY <1>3
  <2>2. /\ pos[x] \in Nat /\ x \in S /\ x # b /\ x # None
        /\ blk[x].next # None =>
             blk[x].next \in S /\ blk[blk[x].next].prev = x /\ pos[x] < pos[blk[x].next]
        /\ blk[x].prev # None => blk[x].prev \in S /\ blk[blk[x].prev].next = x
        /\ blk[x].prev = None => list.head = x
        /\ blk[x].next = None => list.tail = x
    BY <1>1, <1>2 DEF IsList
  <2>3. /\ blk2[x].next # None =>
             blk2[x].next \in R /\ blk2[blk2[x].next].prev = x /\ pos[x] < pos[blk2[x].next]
        /\ blk2[x].next = None => list2.tail = x
    <3>1. CASE x = p
      BY <1>2, <1>3, <1>4, <1>5, <2>1, <2>2, <3>1
    <3>2. CASE x # p
      <4>1. blk2[x].next = blk[x].next
        BY <2>1, <3>2
      <4>2. blk[x].next # b
        BY <1>3, <2>2, <3>2, <1>2
      <4>3. blk[x].next # None => blk[x].next \in R /\ blk[x].next # n
        BY <1>4, <2>2, <4>2, <1>2
      <4>4. blk[x].next # None => blk2[blk[x].next].prev = x
        BY <1>3, <2>2, <4>3
      <4>5. blk[x].next = None => list2.tail = x
        BY <1>3, <1>4, <2>2
      <4> QED
        BY <4>1, <4>3, <4>4, <4>5, <2>2
    <3> QED
      BY <3>1, <3>2
  <2>4. /\ blk2[x].prev # None => blk2[x].prev \in R /\ blk2[blk2[x].prev].next = x
        /\ blk2[x].prev = None => list2.head = x
    <3>1. CASE x = n
      BY <1>2, <1>3, <1>4, <1>5, <2>1, <2>2, <3>1
    <3>2. CASE x # n
      <4>1. blk2[x].prev = blk[x].prev
        BY <2>1, <3>2
      <4>2. blk[x].prev # b
        BY <1>3, <2>2, <3>2, <1>2
      <4>3. blk[x].prev # None => blk[x].prev \in R /\ blk[x].prev # p
        BY <1>4, <2>2, <4>2, <1>2
      <4>4. blk[x].prev # None => blk2[blk[x].prev].next = x
        BY <1>3, <2>2, <4>3
      <4>5. blk[x].prev = None => list2.head = x
        BY <1>3, <1>4, <2>2
      <4> QED
        BY <4>1, <4>3, <4>4, <4>5
    <3> QED
      BY <3>1, <3>2
  <2> QED
    BY <2>2, <2>3, <2>4
<1>9. IsList(R, blk2, list2, pos)
  BY <1>2, <1>6, <1>7, <1>8 DEF IsList
<1> QED
  BY <1>9 DEF Listing

(***************************************************************************)
(* The lists of a die                                                      *)
(***************************************************************************)

\* List 0 is the free list, list i the victims with i invalid slices.  The blocks
\* of `out' are in none: they are on their way from one list to another.
InList(blk, out, i) ==
    {b \in Blocks \ out :
        IF i = 0 THEN blk[b].free ELSE ~blk[b].free /\ blk[b].invalid = i}

ListAt(die, vic, i) == IF i = 0 THEN die.free ELSE vic[i]

ListsOK(blk, die, vic, out) ==
    /\ \A i \in 0 .. PagesPerBlock : Listing(InList(blk, out, i), blk, ListAt(die, vic, i))
    /\ \A b \in Blocks \ out :
         ~blk[b].free /\ blk[b].invalid = 0 => blk[b].prev = None /\ blk[b].next = None

\* The links of the blocks next to b, without b.
Unlinks(blk, b, blk2, k) ==
    /\ blk2[k].prev = IF k = blk[b].next THEN blk[b].prev ELSE blk[k].prev
    /\ blk2[k].next = IF k = blk[b].prev THEN blk[b].next ELSE blk[k].next

SameClass(blk, blk2, k) ==
    /\ blk2[k].free <=> blk[k].free
    /\ blk2[k].invalid = blk[k].invalid

\* Without the block b, its list is the rest of it.
TakenFrom(list, blk, b, list2) ==
    /\ list2.head = IF blk[b].prev = None THEN blk[b].next ELSE list.head
    /\ list2.tail = IF blk[b].next = None THEN blk[b].prev ELSE list.tail

\* The neighbours of a block are in its list.
LEMMA Neighbours ==
    ASSUME NEW blk, NEW die, NEW vic, NEW out, ListsOK(blk, die, vic, out),
           NEW i \in 0 .. PagesPerBlock, NEW b \in InList(blk, out, i)
    PROVE  /\ blk[b].next # None => blk[b].next \in InList(blk, out, i)
           /\ blk[b].prev # None => blk[b].prev \in InList(blk, out, i)
<1>1. PICK pos : IsList(InList(blk, out, i), blk, ListAt(die, vic, i), pos)
  BY DEF ListsOK, Listing
<1> QED
  BY <1>1 DEF IsList

\* SelectiveGetFromGcVictimList and GetFromGcVictimList: a block is taken out.
LEMMA TakeVictim ==
    ASSUME NEW blk, NEW die, NEW vic, NEW out, ListsOK(blk, die, vic, out),
           NEW b \in Blocks \ out, ~blk[b].free, blk[b].invalid \in 0 .. PagesPerBlock,
           NEW blk2, NEW vic2,
           \A k \in Blocks : SameClass(blk, blk2, k),
           \A k \in Blocks \ {b} : Unlinks(blk, b, blk2, k),
           \A i \in 1 .. PagesPerBlock : i # blk[b].invalid => vic2[i] = vic[i],
           blk[b].invalid # 0 =>
               TakenFrom(vic[blk[b].invalid], blk, b, vic2[blk[b].invalid])
    PROVE  ListsOK(blk2, die, vic2, out \cup {b})
<1>1. PICK i : i = blk[b].invalid
  OBVIOUS
<1>2. i \in 0 .. PagesPerBlock
  BY <1>1
<1>3. ASSUME NEW j \in 0 .. PagesPerBlock
      PROVE  InList(blk2, out \cup {b}, j) = InList(blk, out, j) \ {b}
  BY DEF InList, SameClass
<1>4. ASSUME NEW k \in Blocks \ (out \cup {b}), ~blk2[k].free, blk2[k].invalid = 0
      PROVE  blk2[k].prev = None /\ blk2[k].next = None
  <2>1. ~blk[k].free /\ blk[k].invalid = 0
    BY <1>4 DEF SameClass
  <2>2. blk[k].prev = None /\ blk[k].next = None
    BY <2>1 DEF ListsOK
  <2>3. (k # blk[b].next /\ k # blk[b].prev) \/ i = 0
    <3>1. i # 0 => b \in InList(blk, out, i)
      BY <1>1 DEF InList
    <3>2. i # 0 => k \notin InList(blk, out, i) /\ k # None
      BY <2>1, Marks DEF InList
    <3> QED
      BY <1>2, <3>1, <3>2, Neighbours
  <2>4. i = 0 => blk[b].next = None /\ blk[b].prev = None
    BY <1>1 DEF ListsOK
  <2> QED
    BY <2>2, <2>3, <2>4 DEF Unlinks
<1>5. ASSUME NEW j \in 0 .. PagesPerBlock
      PROVE  Listing(InList(blk2, out \cup {b}, j), blk2, ListAt(die, vic2, j))
  <2>1. Listing(InList(blk, out, j), blk, ListAt(die, vic, j))
    BY DEF ListsOK
  <2>2. CASE j = i /\ i # 0
    <3>1. b \in InList(blk, out, j)
      BY <1>1, <2>2 DEF InList
    <3>2. ListAt(die, vic, j) = vic[j] /\ ListAt(die, vic2, j) = vic2[j]
      BY <2>2 DEF ListAt
    <3>3. \A x \in InList(blk, out, j) \ {b} : Unlinks(blk, b, blk2, x)
      BY DEF InList
    <3>4. Listing(InList(blk, out, j) \ {b}, blk2, vic2[j])
      BY <1>1, <2>1, <2>2, <3>1, <3>2, <3>3, ListTake DEF Unlinks, TakenFrom
    <3> QED
      BY <1>3, <3>2, <3>4
  <2>3. CASE ~ (j = i /\ i # 0)
    <3>1. b \notin InList(blk, out, j)
      BY <1>1, <2>3 DEF InList
    <3>2. ListAt(die, vic2, j) = ListAt(die, vic, j)
      BY <1>1, <2>3 DEF ListAt
    <3>3. ASSUME NEW x \in InList(blk, out, j)
          PROVE  blk2[x].next = blk[x].next /\ blk2[x].prev = blk[x].prev
      <4>1. x \in Blocks \ {b} /\ x # None
        BY <3>1, Marks DEF InList
      <4>2. CASE i = 0
        <5>1. blk[b].next = None /\ blk[b].prev = None
          BY <1>1, <4>2 DEF ListsOK
        <5> QED
          BY <4>1, <5>1 DEF Unlinks
      <4>3. CASE i # 0
        <5>1. b \in InList(blk, out, i) /\ x \notin InList(blk, out, i)
          BY <1>1, <2>3, <4>3 DEF InList
        <5>2. x # blk[b].next /\ x # blk[b].prev
          BY <1>2, <4>1, <5>1, Neighbours
        <5> QED
          BY <4>1, <5>2 DEF Unlinks
      <4> QED
        BY <4>2, <4>3
    <3>4. Listing(InList(blk, out, j), blk2, ListAt(die, vic, j))
      BY <2>1, <3>3, ListSame
    <3> QED
      BY <1>3, <3>1, <3>2, <3>4
  <2> QED
    BY <2>2, <2>3
<1> QED
  BY <1>4, <1>5 DEF ListsOK

\* Block b is in use and out of the list it was in; its neighbours there are linked.
Removed(blk, b, blk2) ==
    /\ ~blk2[b].free /\ blk2[b].invalid = 0 /\ blk2[b].prev = None /\ blk2[b].next = None
    /\ \A k \in Blocks \ {b} : SameClass(blk, blk2, k) /\ Unlinks(blk, b, blk2, k)

\* GetFromFbList: the head of the free list is opened.
LEMMA TakeFree ==
    ASSUME NEW blk, NEW die, NEW vic, NEW out, ListsOK(blk, die, vic, out),
           NEW b \in Blocks, b = die.free.head, blk[b].invalid = 0,
           NEW blk2, NEW die2, Removed(blk, b, blk2), TakenFrom(die.free, blk, b, die2.free)
    PROVE  ListsOK(blk2, die2, vic, out) /\ b \notin out /\ blk[b].prev = None /\ blk[b].free
<1> USE DEF Removed
<1>1. Listing(InList(blk, out, 0), blk, die.free)
  BY Sizes DEF ListsOK, ListAt
<1>2. b \in InList(blk, out, 0) /\ blk[b].prev = None
  BY <1>1, Marks DEF Listing, IsList
<1>3. b \notin out /\ blk[b].free
  BY <1>2 DEF InList
<1>4. InList(blk2, out, 0) = InList(blk, out, 0) \ {b}
  BY DEF InList, SameClass
<1>5. ASSUME NEW j \in 1 .. PagesPerBlock
      PROVE  InList(blk2, out, j) = InList(blk, out, j) /\ b \notin InList(blk, out, j)
  BY <1>3 DEF InList, SameClass
<1>6. ASSUME NEW k \in Blocks, k \notin InList(blk, out, 0)
      PROVE  k # blk[b].next /\ k # blk[b].prev
  <2>0. 0 \in 0 .. PagesPerBlock
    BY Sizes
  <2>1. k # None
    BY Marks
  <2> QED
    BY <1>2, <1>6, <2>0, <2>1, Neighbours
<1>7. ASSUME NEW k \in Blocks \ out, ~blk2[k].free, blk2[k].invalid = 0
      PROVE  blk2[k].prev = None /\ blk2[k].next = None
  <2>1. CASE k = b
    BY <2>1
  <2>2. CASE k # b
    <3>1. ~blk[k].free /\ blk[k].invalid = 0
      BY <1>7, <2>2 DEF SameClass
    <3>2. blk[k].prev = None /\ blk[k].next = None /\ k \notin InList(blk, out, 0)
      BY <3>1 DEF ListsOK, InList
    <3> QED
      BY <1>6, <2>2, <3>2 DEF Unlinks
  <2> QED
    BY <2>1, <2>2
<1>8. Listing(InList(blk2, out, 0), blk2, die2.free)
  <2>1. \A x \in InList(blk, out, 0) \ {b} : Unlinks(blk, b, blk2, x)
    BY DEF InList
  <2>2. Listing(InList(blk, out, 0) \ {b}, blk2, die2.free)
    BY <1>1, <1>2, <2>1, ListTake DEF Unlinks, TakenFrom
  <2> QED
    BY <1>4, <2>2
<1>9. ASSUME NEW j \in 1 .. PagesPerBlock
      PROVE  Listing(InList(blk2, out, j), blk2, vic[j])
  <2>1. Listing(InList(blk, out, j), blk, vic[j])
    BY Sizes DEF ListsOK, ListAt
  <2>2. ASSUME NEW x \in InList(blk, out, j)
        PROVE  blk2[x].next = blk[x].next /\ blk2[x].prev = blk[x].prev
    <3>1. x \in Blocks \ {b} /\ x \notin InList(blk, out, 0)
      BY <1>5 DEF InList
    <3>2. x # blk[b].next /\ x # blk[b].prev
      BY <1>6, <3>1
    <3> QED
      BY <3>1, <3>2 DEF Unlinks
  <2>3. Listing(InList(blk, out, j), blk2, vic[j])
    BY <2>1, <2>2, ListSame
  <2> QED
    BY <1>5, <2>3
<1>10. ASSUME NEW j \in 0 .. PagesPerBlock
       PROVE  Listing(InList(blk2, out, j), blk2, ListAt(die2, vic, j))
  <2>1. CASE j = 0
    BY <1>8, <2>1 DEF ListAt
  <2>2. CASE j # 0
    BY <1>9, <2>2 DEF ListAt
  <2> QED
    BY <2>1, <2>2
<1>11. ListsOK(blk2, die2, vic, out)
  BY <1>7, <1>10 DEF ListsOK
<1> QED
  BY <1>2, <1>3, <1>11

\* Links with b put behind the tail of a list.
LinksTo(blk, tail, b, blk2, k) ==
    /\ blk2[k].prev = blk[k].prev
    /\ blk2[k].next = IF k = tail THEN b ELSE blk[k].next

PutIn(list, b, list2) ==
    /\ list2.head = IF list.tail = None THEN b ELSE list.head
    /\ list2.tail = b

\* PutToFbList and PutToGcVictimList: a block that is in no list is put to one.
LEMMA PutBack ==
    ASSUME NEW blk, NEW die, NEW vic, NEW out, ListsOK(blk, die, vic, out),
           NEW b \in out, b \in Blocks, NEW i \in 0 .. PagesPerBlock,
           NEW blk2, NEW die2, NEW vic2,
           IF i = 0 THEN blk2[b].free ELSE ~blk2[b].free /\ blk2[b].invalid = i,
           \A k \in Blocks \ {b} : /\ SameClass(blk, blk2, k)
                                   /\ LinksTo(blk, ListAt(die, vic, i).tail, b, blk2, k),
           blk2[b].prev = ListAt(die, vic, i).tail, blk2[b].next = None,
           PutIn(ListAt(die, vic, i), b, ListAt(die2, vic2, i)),
           \A j \in 0 .. PagesPerBlock : j # i => ListAt(die2, vic2, j) = ListAt(die, vic, j)
    PROVE  ListsOK(blk2, die2, vic2, out \ {b})
<1>1. PICK tail : tail = ListAt(die, vic, i).tail
  OBVIOUS
<1>2. Listing(InList(blk, out, i), blk, ListAt(die, vic, i))
  BY DEF ListsOK
<1>3. tail # None => tail \in InList(blk, out, i)
  BY <1>1, <1>2 DEF Listing, IsList
<1>4. InList(blk2, out \ {b}, i) = InList(blk, out, i) \cup {b}
  BY DEF InList, SameClass
<1>5. ASSUME NEW j \in 0 .. PagesPerBlock, j # i
      PROVE  InList(blk2, out \ {b}, j) = InList(blk, out, j)
  <2>1. b \notin InList(blk2, out \ {b}, j) /\ b \notin InList(blk, out, j)
    BY <1>5 DEF InList
  <2> QED
    BY <2>1 DEF InList, SameClass
<1>6. ASSUME NEW k \in Blocks \ (out \ {b}), ~blk2[k].free, blk2[k].invalid = 0
      PROVE  blk2[k].prev = None /\ blk2[k].next = None
  <2>1. k # b
    BY <1>6
  <2>2. ~blk[k].free /\ blk[k].invalid = 0 /\ k \notin out
    BY <1>6, <2>1 DEF SameClass
  <2>3. blk[k].prev = None /\ blk[k].next = None /\ k \notin InList(blk, out, i) /\ k # None
    BY <2>2, Marks DEF ListsOK, InList
  <2> QED
    BY <1>1, <1>3, <2>1, <2>3 DEF LinksTo
<1>7. Listing(InList(blk2, out \ {b}, i), blk2, ListAt(die2, vic2, i))
  <2>1. b \in Blocks \ InList(blk, out, i)
    BY DEF InList
  <2>2. \A x \in InList(blk, out, i) : LinksTo(blk, ListAt(die, vic, i).tail, b, blk2, x)
    BY DEF InList
  <2>3. Listing(InList(blk, out, i) \cup {b}, blk2, ListAt(die2, vic2, i))
    <3>1. PICK S, L, L2 : /\ S = InList(blk, out, i) /\ L = ListAt(die, vic, i)
                          /\ L2 = ListAt(die2, vic2, i)
      OBVIOUS
    <3>2. /\ L2.tail = b /\ L2.head = IF L.tail = None THEN b ELSE L.head
          /\ blk2[b].prev = L.tail /\ blk2[b].next = None
      BY <3>1 DEF PutIn
    <3>3. \A x \in S : /\ blk2[x].prev = blk[x].prev
                       /\ blk2[x].next = IF x = L.tail THEN b ELSE blk[x].next
      BY <2>2, <3>1 DEF LinksTo
    <3>4. Listing(S, blk, L) /\ b \in Blocks \ S
      BY <1>2, <2>1, <3>1
    <3>5. Listing(S \cup {b}, blk2, L2)
      BY <3>2, <3>3, <3>4, ListPut
    <3> QED
      BY <3>1, <3>5
  <2> QED
    BY <1>4, <2>3
<1>8. ASSUME NEW j \in 0 .. PagesPerBlock, j # i
      PROVE  Listing(InList(blk2, out \ {b}, j), blk2, ListAt(die2, vic2, j))
  <2>1. Listing(InList(blk, out, j), blk, ListAt(die, vic, j))
    BY DEF ListsOK
  <2>2. ASSUME NEW x \in InList(blk, out, j)
        PROVE  blk2[x].next = blk[x].next /\ blk2[x].prev = blk[x].prev
    <3>1. x \in Blocks \ {b} /\ x \notin InList(blk, out, i) /\ x # None
      BY <1>8, Marks DEF InList
    <3> QED
      BY <1>1, <1>3, <3>1 DEF LinksTo
  <2>3. Listing(InList(blk, out, j), blk2, ListAt(die, vic, j))
    BY <2>1, <2>2, ListSame
  <2> QED
    BY <1>5, <1>8, <2>3
<1> QED
  BY <1>6, <1>7, <1>8 DEF ListsOK

(***************************************************************************)
(* The invariant, as a predicate of the record.  out[d] is the set of the  *)
(* blocks of die d that are in no list, though they have invalid slices.   *)
(***************************************************************************)

Links == Blocks \cup {None}

BlockRec == [free : BOOLEAN, invalid : 0 .. PagesPerBlock, page : 0 .. PagesPerBlock,
             prev : Links, next : Links]

ListRec == [head : Links, tail : Links]

DieRec == [current : Links, cnt : Nat, free : ListRec]

IsMaps(s) ==
    s \in [map     : [Lsas -> Vsas \cup {None}],
           rev     : [Vsas -> Lsas \cup {None}],
           block   : [AllDies -> [Blocks -> BlockRec]],
           die     : [AllDies -> DieRec],
           victims : [AllDies -> [0 .. PagesPerBlock -> ListRec]],
           flash   : [Vsas -> Lsas \cup {None, "stale"}],
           reqs    : {s.reqs},
           failed  : {s.failed}]

Free(blk) == {b \in Blocks : blk[b].free}

\* A die: free blocks are erased, all others but the open one full.
DieOK(blk, die, vic, out) ==
    /\ ListsOK(blk, die, vic, out)
    /\ out \subseteq Blocks /\ \A b \in out : ~blk[b].free
    /\ die.cnt = Cardinality(Free(blk))
    /\ die.current # None => ~blk[die.current].free
    /\ \A b \in Blocks : blk[b].free => blk[b].page = 0 /\ blk[b].invalid = 0
    /\ \A b \in Blocks : ~blk[b].free /\ b # die.current => blk[b].page = PagesPerBlock

InvalidPages(s, d, b) == {p \in Pages : p < s.block[d][b].page /\ ~Valid(s, <<d, b, p>>)}

\* The count of invalid slices is exact.
CountOK(s, out) ==
    \A d \in AllDies, b \in Blocks :
        b \notin out[d] => s.block[d][b].invalid = Cardinality(InvalidPages(s, d, b))

\* The pages below currentPage are programmed and known to virtualSliceMap.
PagesOK(s) ==
    \A d \in AllDies, b \in Blocks, p \in Pages :
        /\ s.flash[<<d, b, p>>] # None <=> p < s.block[d][b].page
        /\ s.rev[<<d, b, p>>] # None <=> p < s.block[d][b].page

\* A mapped slice is where the map says; one that is not mapped is nowhere.
MapOK(s) ==
    \A l \in Lsas :
        /\ s.map[l] # None => s.rev[s.map[l]] = l /\ s.flash[s.map[l]] = l
        /\ s.map[l] = None => \A v \in Vsas : s.flash[v] # l

Good(s, out) ==
    /\ IsMaps(s)
    /\ \A d \in AllDies : DieOK(s.block[d], s.die[d], s.victims[d], out[d])
    /\ PagesOK(s) /\ CountOK(s, out) /\ MapOK(s)

NoneOut == [d \in AllDies |-> {}]

OutOf(d, b) == [e \in AllDies |-> IF e = d THEN {b} ELSE {}]

SameSlices(s, t) == t.map = s.map /\ t.rev = s.rev /\ t.flash = s.flash

\* Only die d differs.
OtherDies(s, t, d) ==
    \A e \in AllDies \ {d} :
        t.block[e] = s.block[e] /\ t.die[e] = s.die[e] /\ t.victims[e] = s.victims[e]

LEMMA MapsAre ==
    ASSUME NEW s, IsMaps(s)
    PROVE  /\ s.map \in [Lsas -> Vsas \cup {None}] /\ s.rev \in [Vsas -> Lsas \cup {None}]
           /\ s.block \in [AllDies -> [Blocks -> BlockRec]]
           /\ s.die \in [AllDies -> DieRec]
           /\ s.victims \in [AllDies -> [0 .. PagesPerBlock -> ListRec]]
           /\ s.flash \in [Vsas -> Lsas \cup {None, "stale"}]
  BY DEF IsMaps

LEMMA MapsFrom ==
    ASSUME NEW s, IsMaps(s), NEW t, DOMAIN t = DOMAIN s, t = [x \in DOMAIN s |-> t[x]],
           t.map \in [Lsas -> Vsas \cup {None}], t.rev \in [Vsas -> Lsas \cup {None}],
           t.block \in [AllDies -> [Blocks -> BlockRec]],
           t.die \in [AllDies -> DieRec],
           t.victims \in [AllDies -> [0 .. PagesPerBlock -> ListRec]],
           t.flash \in [Vsas -> Lsas \cup {None, "stale"}]
    PROVE  IsMaps(t)
  BY DEF IsMaps

LEMMA DieIs ==
    ASSUME NEW s, IsMaps(s), NEW d \in AllDies
    PROVE  /\ s.block[d] \in [Blocks -> BlockRec] /\ s.die[d] \in DieRec
           /\ s.victims[d] \in [0 .. PagesPerBlock -> ListRec]
           /\ s.die[d].current \in Links /\ s.die[d].cnt \in Nat /\ s.die[d].free \in ListRec
  BY MapsAre DEF DieRec

LEMMA BlockIs ==
    ASSUME NEW s, IsMaps(s), NEW d \in AllDies, NEW b \in Blocks
    PROVE  /\ s.block[d][b] \in BlockRec /\ s.block[d][b].free \in BOOLEAN
           /\ s.block[d][b].invalid \in 0 .. PagesPerBlock
           /\ s.block[d][b].page \in 0 .. PagesPerBlock
           /\ s.block[d][b].prev \in Links /\ s.block[d][b].next \in Links
  BY MapsAre DEF BlockRec

Opened(s, d, b) == [GetFromFbList(s, d, b) EXCEPT !.die[d].current = b]

\* What GetFromFbList changes when its block is opened.
OpenedFields(s, d, b, n, t) ==
    /\ IsMaps(t) /\ SameSlices(s, t) /\ t.failed = s.failed
    /\ OtherDies(s, t, d) /\ t.victims[d] = s.victims[d]
    /\ t.die[d].current = b /\ t.die[d].cnt = s.die[d].cnt - 1
    /\ t.die[d].free = Beheaded(s.die[d].free, n)
    /\ t.block[d][b] = [s.block[d][b] EXCEPT !.free = FALSE, !.prev = None, !.next = None]
    /\ \A k \in Blocks \ {b} :
         t.block[d][k] = IF k = n THEN [s.block[d][k] EXCEPT !.prev = None]
                         ELSE s.block[d][k]

LEMMA OpenedIs ==
    ASSUME NEW s, IsMaps(s), NEW d \in AllDies, NEW b \in Blocks, 1 <= s.die[d].cnt,
           NEW t, t = Opened(s, d, b), NEW n, n = s.block[d][b].next, n # b
    PROVE  OpenedFields(s, d, b, n, t)
<1> DEFINE blk == [k \in Blocks |->
                      CASE k = b -> [s.block[d][k] EXCEPT !.free = FALSE, !.prev = None, !.next = None]
                        [] k = n -> [s.block[d][k] EXCEPT !.prev = None]
                        [] OTHER -> s.block[d][k]]
           die == [current |-> b, cnt |-> s.die[d].cnt - 1, free |-> Beheaded(s.die[d].free, n)]
<1>1. /\ s.block[d] \in [Blocks -> BlockRec] /\ s.die[d] \in DieRec /\ n \in Links
  BY DieIs, BlockIs
<1>2. Beheaded(s.die[d].free, n) \in ListRec
  BY <1>1, DieIs DEF Beheaded, ListRec, Links
<1>3. die \in DieRec
  BY <1>1, <1>2 DEF DieRec, Links
<1>4. ASSUME NEW k \in Blocks PROVE blk[k] \in BlockRec
  BY <1>1 DEF BlockRec, Links
<1>5. blk \in [Blocks -> BlockRec]
  BY <1>4
<1>6. t.block = [s.block EXCEPT ![d] = blk]
  BY <1>1, MapsAre DEF Opened, GetFromFbList, IsMaps
<1>7. t.die = [s.die EXCEPT ![d] = die]
  <2>1. t.die[d] = die
    BY <1>1, MapsAre DEF Opened, GetFromFbList, IsMaps, DieRec
  <2> QED
    BY <1>1, MapsAre DEF Opened, GetFromFbList, IsMaps, DieRec
<1>8. /\ DOMAIN t = DOMAIN s /\ t = [x \in DOMAIN s |-> t[x]]
      /\ t.map = s.map /\ t.rev = s.rev /\ t.flash = s.flash
      /\ t.victims = s.victims /\ t.failed = s.failed
  BY <1>1, MapsAre, Zenon DEF Opened, GetFromFbList, IsMaps
<1>9. /\ blk[b] = [s.block[d][b] EXCEPT !.free = FALSE, !.prev = None, !.next = None]
      /\ \A k \in Blocks \ {b} :
           blk[k] = IF k = n THEN [s.block[d][k] EXCEPT !.prev = None] ELSE s.block[d][k]
  OBVIOUS
<1>10. /\ die.current = b /\ die.cnt = s.die[d].cnt - 1
       /\ die.free = Beheaded(s.die[d].free, n)
  OBVIOUS
<1> HIDE DEF blk, die
<1>11. /\ t.block \in [AllDies -> [Blocks -> BlockRec]] /\ t.block[d] = blk
       /\ \A e \in AllDies \ {d} : t.block[e] = s.block[e]
  BY <1>5, <1>6, MapsAre
<1>12. /\ t.die \in [AllDies -> DieRec] /\ t.die[d] = die
       /\ \A e \in AllDies \ {d} : t.die[e] = s.die[e]
  BY <1>3, <1>7, MapsAre
<1>13. IsMaps(t)
  BY <1>8, <1>11, <1>12, MapsAre, MapsFrom
<1> QED
  BY <1>8, <1>9, <1>10, <1>11, <1>12, <1>13 DEF OpenedFields, SameSlices, OtherDies

\* What SelectiveGetFromGcVictimList changes.
SelectiveFields(s, d, b, n, p, i, t) ==
    /\ IsMaps(t) /\ SameSlices(s, t) /\ t.failed = s.failed
    /\ OtherDies(s, t, d) /\ t.die[d] = s.die[d]
    /\ \A j \in 0 .. PagesPerBlock : j # i => t.victims[d][j] = s.victims[d][j]
    /\ t.victims[d][i].head = IF p = None THEN n ELSE s.victims[d][i].head
    /\ t.victims[d][i].tail = IF n = None THEN p ELSE s.victims[d][i].tail
    /\ \A k \in Blocks :
         t.block[d][k] = IF k = p THEN [s.block[d][k] EXCEPT !.next = n]
                         ELSE IF k = n THEN [s.block[d][k] EXCEPT !.prev = p]
                         ELSE s.block[d][k]

LEMMA SelectiveIs ==
    ASSUME NEW s, IsMaps(s), NEW d \in AllDies, NEW b \in Blocks,
           NEW t, t = SelectiveGetFromGcVictimList(s, d, b),
           NEW n, n = s.block[d][b].next, NEW p, p = s.block[d][b].prev, p = n => p = None,
           NEW i, i = s.block[d][b].invalid
    PROVE  SelectiveFields(s, d, b, n, p, i, t)
<1> DEFINE blk == [k \in Blocks |->
                      CASE k = s.block[d][b].prev ->
                               [s.block[d][k] EXCEPT !.next = s.block[d][b].next]
                        [] k = s.block[d][b].next ->
                               [s.block[d][k] EXCEPT !.prev = s.block[d][b].prev]
                        [] OTHER -> s.block[d][k]]
           list == [head |-> IF p = None THEN n ELSE s.victims[d][i].head,
                    tail |-> IF n = None THEN p ELSE s.victims[d][i].tail]
           vic == [s.victims[d] EXCEPT ![i] = list]
<1>1. /\ s.block[d] \in [Blocks -> BlockRec] /\ n \in Links /\ p \in Links
      /\ s.victims[d] \in [0 .. PagesPerBlock -> ListRec] /\ i \in 0 .. PagesPerBlock
  BY DieIs, BlockIs
<1>2. list \in ListRec
  BY <1>1 DEF ListRec, Links
<1>3. None \notin Blocks
  BY Marks
<1>4. ASSUME NEW k \in Blocks
      PROVE  /\ blk[k] = IF k = p THEN [s.block[d][k] EXCEPT !.next = n]
                         ELSE IF k = n THEN [s.block[d][k] EXCEPT !.prev = p]
                         ELSE s.block[d][k]
             /\ blk[k] \in BlockRec
  <2>1. /\ blk[k] = IF k = p THEN [s.block[d][k] EXCEPT !.next = n]
                    ELSE IF k = n THEN [s.block[d][k] EXCEPT !.prev = p]
                    ELSE s.block[d][k]
    BY <1>3
  <2> HIDE DEF blk
  <2> QED
    BY <1>1, <2>1 DEF BlockRec, Links
<1>5. blk \in [Blocks -> BlockRec]
  BY <1>4
<1>6. t.block = [s.block EXCEPT ![d] = blk]
  <2>1. "block" \in DOMAIN s
    BY DEF IsMaps
  <2> QED
    BY <2>1, Zenon DEF SelectiveGetFromGcVictimList
<1>7. t.victims = [s.victims EXCEPT ![d] = vic]
  <2>1. s.victims \in [AllDies -> [0 .. PagesPerBlock -> ListRec]]
    BY MapsAre
  <2>2. t.victims = [s.victims EXCEPT ![d] = [@ EXCEPT ![i] = list]]
    BY <1>1, <2>1 DEF SelectiveGetFromGcVictimList, IsMaps
  <2> QED
    BY <2>2
<1>8. /\ DOMAIN t = DOMAIN s /\ t = [x \in DOMAIN s |-> t[x]]
      /\ t.map = s.map /\ t.rev = s.rev /\ t.flash = s.flash
      /\ t.die = s.die /\ t.failed = s.failed
  BY <1>1, MapsAre, Zenon DEF SelectiveGetFromGcVictimList, IsMaps
<1>9. /\ list.head = IF p = None THEN n ELSE s.victims[d][i].head
      /\ list.tail = IF n = None THEN p ELSE s.victims[d][i].tail
  OBVIOUS
<1> HIDE DEF blk, list
<1>10. /\ vic \in [0 .. PagesPerBlock -> ListRec] /\ vic[i] = list
       /\ \A j \in 0 .. PagesPerBlock : j # i => vic[j] = s.victims[d][j]
  BY <1>1, <1>2
<1> HIDE DEF vic
<1>11. /\ t.block \in [AllDies -> [Blocks -> BlockRec]] /\ t.block[d] = blk
       /\ \A e \in AllDies \ {d} : t.block[e] = s.block[e]
  BY <1>5, <1>6, MapsAre
<1>12. /\ t.victims \in [AllDies -> [0 .. PagesPerBlock -> ListRec]] /\ t.victims[d] = vic
       /\ \A e \in AllDies \ {d} : t.victims[e] = s.victims[e]
  BY <1>7, <1>10, MapsAre
<1>13. IsMaps(t)
  BY <1>8, <1>11, <1>12, MapsAre, MapsFrom
<1> QED
  BY <1>4, <1>8, <1>9, <1>10, <1>11, <1>12, <1>13, Zenon DEF SelectiveFields, SameSlices, OtherDies

\* What GetFromGcVictimList changes when list i is not empty.
VictimFields(s, d, i, n, t) ==
    /\ IsMaps(t) /\ SameSlices(s, t) /\ t.failed = s.failed
    /\ OtherDies(s, t, d) /\ t.die[d] = s.die[d]
    /\ \A j \in 0 .. PagesPerBlock : j # i => t.victims[d][j] = s.victims[d][j]
    /\ t.victims[d][i] = Beheaded(s.victims[d][i], n)
    /\ \A k \in Blocks :
         t.block[d][k] = IF k = n THEN [s.block[d][k] EXCEPT !.prev = None]
                         ELSE s.block[d][k]

LEMMA VictimIs ==
    ASSUME NEW s, IsMaps(s), NEW d \in AllDies, NEW i \in 0 .. PagesPerBlock,
           NEW b \in Blocks, b = s.victims[d][i].head,
           NEW t, t = GetFromGcVictimList(s, d, i),
           NEW n, n = s.block[d][b].next
    PROVE  VictimFields(s, d, i, n, t)
<1> DEFINE blk == [k \in Blocks |-> IF k = n THEN [s.block[d][k] EXCEPT !.prev = None]
                                    ELSE s.block[d][k]]
           list == Beheaded(s.victims[d][i], n)
           vic == [s.victims[d] EXCEPT ![i] = list]
<1>1. /\ s.block[d] \in [Blocks -> BlockRec] /\ n \in Links
      /\ s.victims[d] \in [0 .. PagesPerBlock -> ListRec]
  BY DieIs, BlockIs
<1>2. list \in ListRec
  BY <1>1 DEF ListRec, Links, Beheaded
<1>3. ASSUME NEW k \in Blocks PROVE blk[k] \in BlockRec
  BY <1>1 DEF BlockRec, Links
<1>4. \A k \in Blocks : blk[k] = IF k = n THEN [s.block[d][k] EXCEPT !.prev = None]
                                 ELSE s.block[d][k]
  OBVIOUS
<1>5. blk \in [Blocks -> BlockRec]
  BY <1>3
<1>6. t.block = [s.block EXCEPT ![d] = blk]
  BY <1>1, MapsAre, Zenon DEF GetFromGcVictimList, IsMaps
<1>7. t.victims = [s.victims EXCEPT ![d] = vic]
  BY <1>1, MapsAre, Zenon DEF GetFromGcVictimList, IsMaps
<1>8. /\ DOMAIN t = DOMAIN s /\ t = [x \in DOMAIN s |-> t[x]]
      /\ t.map = s.map /\ t.rev = s.rev /\ t.flash = s.flash
      /\ t.die = s.die /\ t.failed = s.failed
  BY <1>1, MapsAre, Zenon DEF GetFromGcVictimList, IsMaps
<1> HIDE DEF blk, list
<1>10. /\ vic \in [0 .. PagesPerBlock -> ListRec] /\ vic[i] = list
       /\ \A j \in 0 .. PagesPerBlock : j # i => vic[j] = s.victims[d][j]
  BY <1>1, <1>2
<1> HIDE DEF vic
<1>11. /\ t.block \in [AllDies -> [Blocks -> BlockRec]] /\ t.block[d] = blk
       /\ \A e \in AllDies \ {d} : t.block[e] = s.block[e]
  BY <1>5, <1>6, MapsAre
<1>12. /\ t.victims \in [AllDies -> [0 .. PagesPerBlock -> ListRec]] /\ t.victims[d] = vic
       /\ \A e \in AllDies \ {d} : t.victims[e] = s.victims[e]
  BY <1>7, <1>10, MapsAre
<1>13. IsMaps(t)
  BY <1>8, <1>11, <1>12, MapsAre, MapsFrom
<1> QED
  BY <1>4, <1>8, <1>10, <1>11, <1>12, <1>13, Zenon DEF VictimFields, SameSlices, OtherDies, list

\* The links with b put behind `tail'.
LinkedFields(blk, tail, b, blk2) ==
    /\ blk2[b] = [blk[b] EXCEPT !.prev = tail, !.next = None]
    /\ \A k \in Blocks \ {b} : blk2[k] = IF k = tail THEN [blk[k] EXCEPT !.next = b] ELSE blk[k]

LEMMA LinkedIs ==
    ASSUME NEW blk \in [Blocks -> BlockRec], NEW tail \in Links, NEW b \in Blocks, tail # b
    PROVE  /\ Linked(blk, tail, b) \in [Blocks -> BlockRec]
           /\ LinkedFields(blk, tail, b, Linked(blk, tail, b))
<1>1. ASSUME NEW k \in Blocks
      PROVE  /\ k = b => Linked(blk, tail, b)[k] = [blk[k] EXCEPT !.prev = tail, !.next = None]
             /\ k # b => Linked(blk, tail, b)[k] =
                           IF k = tail THEN [blk[k] EXCEPT !.next = b] ELSE blk[k]
             /\ Linked(blk, tail, b)[k] \in BlockRec
  <2>1. /\ k = b => Linked(blk, tail, b)[k] = [blk[k] EXCEPT !.prev = tail, !.next = None]
        /\ k # b => Linked(blk, tail, b)[k] =
                      IF k = tail THEN [blk[k] EXCEPT !.next = b] ELSE blk[k]
    BY DEF Linked
  <2>2. blk[k] \in BlockRec
    OBVIOUS
  <2> QED
    BY <2>1, <2>2 DEF BlockRec, Links
<1>2. Linked(blk, tail, b) = [k \in Blocks |-> Linked(blk, tail, b)[k]]
  BY DEF Linked
<1> QED
  BY <1>1, <1>2 DEF LinkedFields

\* What PutToGcVictimList changes.
PutVictimFields(s, d, b, i, t) ==
    /\ IsMaps(t) /\ SameSlices(s, t) /\ t.failed = s.failed
    /\ OtherDies(s, t, d) /\ t.die[d] = s.die[d]
    /\ \A j \in 0 .. PagesPerBlock : j # i => t.victims[d][j] = s.victims[d][j]
    /\ t.victims[d][i] = Listed(s.victims[d][i], b)
    /\ t.block[d] = Linked(s.block[d], s.victims[d][i].tail, b)

LEMMA PutVictimIs ==
    ASSUME NEW s, IsMaps(s), NEW d \in AllDies, NEW b \in Blocks,
           NEW t, t = PutToGcVictimList(s, d, b),
           NEW i, i = s.block[d][b].invalid, s.victims[d][i].tail # b
    PROVE  PutVictimFields(s, d, b, i, t)
<1> DEFINE blk == Linked(s.block[d], s.victims[d][i].tail, b)
           list == Listed(s.victims[d][i], b)
           vic == [s.victims[d] EXCEPT ![i] = list]
<1>1. /\ s.block[d] \in [Blocks -> BlockRec] /\ i \in 0 .. PagesPerBlock
      /\ s.victims[d] \in [0 .. PagesPerBlock -> ListRec] /\ s.victims[d][i].tail \in Links
  <2>1. /\ s.block[d] \in [Blocks -> BlockRec] /\ i \in 0 .. PagesPerBlock
        /\ s.victims[d] \in [0 .. PagesPerBlock -> ListRec]
    BY DieIs, BlockIs
  <2>2. s.victims[d][i] \in ListRec
    BY <2>1
  <2> QED
    BY <2>1, <2>2 DEF ListRec
<1>2. list \in ListRec
  BY <1>1 DEF ListRec, Links, Listed
<1>5. blk \in [Blocks -> BlockRec]
  BY <1>1, LinkedIs
<1>6. t.block = [s.block EXCEPT ![d] = blk]
  BY <1>1, MapsAre, Zenon DEF PutToGcVictimList, IsMaps
<1>7. t.victims = [s.victims EXCEPT ![d] = vic]
  BY <1>1, MapsAre, Zenon DEF PutToGcVictimList, IsMaps
<1>8. /\ DOMAIN t = DOMAIN s /\ t = [x \in DOMAIN s |-> t[x]]
      /\ t.map = s.map /\ t.rev = s.rev /\ t.flash = s.flash
      /\ t.die = s.die /\ t.failed = s.failed
  BY <1>1, MapsAre, Zenon DEF PutToGcVictimList, IsMaps
<1> HIDE DEF blk, list
<1>10. /\ vic \in [0 .. PagesPerBlock -> ListRec] /\ vic[i] = list
       /\ \A j \in 0 .. PagesPerBlock : j # i => vic[j] = s.victims[d][j]
  BY <1>1, <1>2
<1> HIDE DEF vic
<1>11. /\ t.block \in [AllDies -> [Blocks -> BlockRec]] /\ t.block[d] = blk
       /\ \A e \in AllDies \ {d} : t.block[e] = s.block[e]
  BY <1>5, <1>6, MapsAre
<1>12. /\ t.victims \in [AllDies -> [0 .. PagesPerBlock -> ListRec]] /\ t.victims[d] = vic
       /\ \A e \in AllDies \ {d} : t.victims[e] = s.victims[e]
  BY <1>7, <1>10, MapsAre
<1>13. IsMaps(t)
  BY <1>8, <1>11, <1>12, MapsAre, MapsFrom
<1> QED
  BY <1>8, <1>10, <1>11, <1>12, <1>13, Zenon DEF PutVictimFields, SameSlices, OtherDies, list, blk

\* What PutToFbList changes.
PutFreeFields(s, d, b, t) ==
    /\ IsMaps(t) /\ SameSlices(s, t) /\ t.failed = s.failed
    /\ OtherDies(s, t, d) /\ t.victims[d] = s.victims[d]
    /\ t.die[d].current = s.die[d].current /\ t.die[d].cnt = s.die[d].cnt + 1
    /\ t.die[d].free = Listed(s.die[d].free, b)
    /\ t.block[d] = Linked(s.block[d], s.die[d].free.tail, b)

LEMMA PutFreeIs ==
    ASSUME NEW s, IsMaps(s), NEW d \in AllDies, NEW b \in Blocks,
           NEW t, t = PutToFbList(s, d, b), s.die[d].free.tail # b
    PROVE  PutFreeFields(s, d, b, t)
<1> DEFINE blk == Linked(s.block[d], s.die[d].free.tail, b)
           die == [current |-> s.die[d].current, cnt |-> s.die[d].cnt + 1,
                   free |-> Listed(s.die[d].free, b)]
<1>1. /\ s.block[d] \in [Blocks -> BlockRec] /\ s.die[d] \in DieRec
      /\ s.die[d].free \in ListRec /\ s.die[d].free.tail \in Links
  BY DieIs DEF ListRec
<1>2. Listed(s.die[d].free, b) \in ListRec
  BY <1>1 DEF ListRec, Links, Listed
<1>3. die \in DieRec
  BY <1>1, <1>2 DEF DieRec
<1>5. blk \in [Blocks -> BlockRec]
  BY <1>1, LinkedIs
<1>6. t.block = [s.block EXCEPT ![d] = blk]
  BY <1>1, MapsAre DEF PutToFbList, IsMaps
<1>7. t.die = [s.die EXCEPT ![d] = die]
  <2>1. t.die[d] = die
    BY <1>1, MapsAre DEF PutToFbList, IsMaps, DieRec
  <2>2. t.die = [e \in AllDies |-> t.die[e]]
    BY <1>1, MapsAre DEF PutToFbList, IsMaps
  <2>3. \A e \in AllDies \ {d} : t.die[e] = s.die[e]
    BY <1>1, MapsAre DEF PutToFbList, IsMaps
  <2> HIDE DEF die
  <2> QED
    BY <2>1, <2>2, <2>3, MapsAre
<1>8. /\ DOMAIN t = DOMAIN s /\ t = [x \in DOMAIN s |-> t[x]]
      /\ t.map = s.map /\ t.rev = s.rev /\ t.flash = s.flash
      /\ t.victims = s.victims /\ t.failed = s.failed
  BY <1>1, MapsAre DEF PutToFbList, IsMaps
<1>10. /\ die.current = s.die[d].current /\ die.cnt = s.die[d].cnt + 1
       /\ die.free = Listed(s.die[d].free, b)
  OBVIOUS
<1> HIDE DEF blk, die
<1>11. /\ t.block \in [AllDies -> [Blocks -> BlockRec]] /\ t.block[d] = blk
       /\ \A e \in AllDies \ {d} : t.block[e] = s.block[e]
  BY <1>5, <1>6, MapsAre
<1>12. /\ t.die \in [AllDies -> DieRec] /\ t.die[d] = die
       /\ \A e \in AllDies \ {d} : t.die[e] = s.die[e]
  BY <1>3, <1>7, MapsAre
<1>13. IsMaps(t)
  BY <1>8, <1>11, <1>12, MapsAre, MapsFrom
<1> QED
  BY <1>8, <1>10, <1>11, <1>12, <1>13 DEF PutFreeFields, SameSlices, OtherDies, blk

(***************************************************************************)
(* The steps of the allocator keep the invariant                           *)
(***************************************************************************)

LEMMA NeighboursDiffer ==
    ASSUME NEW S, NEW blk, NEW list, Listing(S, blk, list), NEW b \in S
    PROVE  /\ blk[b].next # b
           /\ blk[b].prev = blk[b].next => blk[b].prev = None
<1>1. PICK pos : IsList(S, blk, list, pos)
  BY DEF Listing
<1>2. PICK n, p : n = blk[b].next /\ p = blk[b].prev
  OBVIOUS
<1>3. b # None /\ pos[b] \in Nat
  BY <1>1, Marks DEF IsList
<1>4. n # None => n \in S /\ pos[n] \in Nat /\ pos[b] < pos[n]
  BY <1>1, <1>2 DEF IsList
<1>5. n # b
  BY <1>3, <1>4
<1>6. p # None => p \in S /\ blk[p].next = b
  BY <1>1, <1>2 DEF IsList
<1>7. p # None => pos[p] \in Nat /\ pos[p] < pos[b]
  BY <1>1, <1>3, <1>6 DEF IsList
<1>8. ASSUME p = n, p # None PROVE FALSE
  BY <1>3, <1>4, <1>7, <1>8
<1> QED
  BY <1>2, <1>5, <1>8

\* What holds of the slices depends on the slices, the pages and the counts only.
SameCounts(s, t, out, out2) ==
    \A e \in AllDies, k \in Blocks :
        /\ t.block[e][k].page = s.block[e][k].page
        /\ k \notin out2[e] => k \notin out[e] /\ t.block[e][k].invalid = s.block[e][k].invalid

LEMMA SlicesSame ==
    ASSUME NEW s, NEW t, NEW out, NEW out2, PagesOK(s), CountOK(s, out), MapOK(s),
           SameSlices(s, t), SameCounts(s, t, out, out2)
    PROVE  PagesOK(t) /\ CountOK(t, out2) /\ MapOK(t)
<1>1. PagesOK(t)
  BY DEF PagesOK, SameSlices, SameCounts
<1>2. MapOK(t)
  BY DEF MapOK, SameSlices
<1>3. ASSUME NEW e \in AllDies, NEW k \in Blocks PROVE InvalidPages(t, e, k) = InvalidPages(s, e, k)
  BY DEF InvalidPages, Valid, SameSlices, SameCounts
<1>4. CountOK(t, out2)
  BY <1>3 DEF CountOK, SameCounts
<1> QED
  BY <1>1, <1>2, <1>4

LEMMA OthersSame ==
    ASSUME NEW s, NEW t, NEW d \in AllDies, NEW out, NEW out2, Good(s, out), OtherDies(s, t, d),
           \A e \in AllDies \ {d} : out2[e] = out[e]
    PROVE  \A e \in AllDies \ {d} : DieOK(t.block[e], t.die[e], t.victims[e], out2[e])
  BY DEF Good, OtherDies

\* The free blocks.
LEMMA FreeFinite == ASSUME NEW blk PROVE IsFiniteSet(Free(blk)) /\ Cardinality(Free(blk)) \in Nat
<1>1. Free(blk) \subseteq Blocks
  BY DEF Free
<1> QED
  BY <1>1, BlocksFinite, FS_Subset, FS_CardinalityType

\* A free block is opened while the open one, if there is any, is full.
\* The free block b was taken for the open block of die d.
OpenedAs(s, out, d, b, t) ==
    /\ Good(t, out) /\ SameSlices(s, t) /\ t.failed = s.failed /\ OtherDies(s, t, d)
    /\ t.die[d].current = b /\ t.die[d].cnt = s.die[d].cnt - 1
    /\ b \notin out[d] /\ t.block[d][b].page = 0 /\ s.block[d][b].free
    /\ \A e \in AllDies, k \in Blocks : t.block[e][k].page = s.block[e][k].page

LEMMA OpenedGood ==
    ASSUME NEW s, NEW out, Good(s, out), NEW d \in AllDies, NEW b \in Blocks,
           b = s.die[d].free.head,
           s.die[d].current # None => s.block[d][s.die[d].current].page = PagesPerBlock,
           NEW t, t = Opened(s, d, b)
    PROVE  OpenedAs(s, out, d, b, t)
<1>1. IsMaps(s) /\ DieOK(s.block[d], s.die[d], s.victims[d], out[d])
  BY DEF Good
<1>2. PICK n : n = s.block[d][b].next
  OBVIOUS
<1>3. PICK blk, die, vic : blk = s.block[d] /\ die = s.die[d] /\ vic = s.victims[d]
  OBVIOUS
<1>4. PICK blk2, die2 : blk2 = t.block[d] /\ die2 = t.die[d]
  OBVIOUS
<1>5. ListsOK(blk, die, vic, out[d]) /\ Listing(InList(blk, out[d], 0), blk, die.free)
  <2>1. 0 \in 0 .. PagesPerBlock
    BY Sizes
  <2> QED
    BY <1>1, <1>3, <2>1 DEF DieOK, ListsOK, ListAt
<1>6. b \in InList(blk, out[d], 0) /\ blk[b].prev = None
  BY <1>3, <1>5, Marks DEF Listing, IsList
<1>7. n # b /\ blk[b].free /\ b \in Free(blk)
  BY <1>2, <1>3, <1>5, <1>6, NeighboursDiffer, ZenonT(30) DEF InList, Free
<1>8. blk[b].page = 0 /\ blk[b].invalid = 0
  BY <1>1, <1>3, <1>7 DEF DieOK
<1>9. 1 <= die.cnt /\ die.cnt \in Nat
  <2>1. die.cnt = Cardinality(Free(blk))
    BY <1>1, <1>3 DEF DieOK
  <2>2. Cardinality(Free(blk)) # 0
    BY <1>7, FreeFinite, FS_EmptySet
  <2> QED
    BY <2>1, <2>2, FreeFinite
<1>10. /\ IsMaps(t) /\ SameSlices(s, t) /\ t.failed = s.failed
       /\ OtherDies(s, t, d) /\ t.victims[d] = vic
       /\ die2.current = b /\ die2.cnt = die.cnt - 1
       /\ die2.free = Beheaded(die.free, n)
       /\ blk2[b] = [blk[b] EXCEPT !.free = FALSE, !.prev = None, !.next = None]
       /\ \A k \in Blocks \ {b} :
            blk2[k] = IF k = n THEN [blk[k] EXCEPT !.prev = None] ELSE blk[k]
  <2>1. 1 <= s.die[d].cnt /\ n # b
    BY <1>3, <1>7, <1>9
  <2>2. OpenedFields(s, d, b, n, t)
    BY <1>1, <1>2, <2>1, OpenedIs
  <2> QED
    BY <1>3, <1>4, <2>2, Zenon DEF OpenedFields
<1>11. \A k \in Blocks : blk[k] \in BlockRec
  BY <1>1, <1>3, BlockIs
<1>12. /\ ~blk2[b].free /\ blk2[b].prev = None /\ blk2[b].next = None
       /\ blk2[b].invalid = 0 /\ blk2[b].page = 0
  BY <1>8, <1>10, <1>11 DEF BlockRec
<1>13. ASSUME NEW k \in Blocks \ {b}
       PROVE  SameClass(blk, blk2, k) /\ Unlinks(blk, b, blk2, k) /\ blk2[k].page = blk[k].page
  <2>1. blk[k] \in BlockRec /\ k # None /\ n = blk[b].next
    BY <1>2, <1>3, <1>11, Marks
  <2> QED
    <3>1. CASE k = n
      <4>1. blk2[k] = [blk[k] EXCEPT !.prev = None]
        BY <1>10, <3>1
      <4>2. /\ blk2[k].free = blk[k].free /\ blk2[k].invalid = blk[k].invalid
            /\ blk2[k].page = blk[k].page /\ blk2[k].prev = None /\ blk2[k].next = blk[k].next
        BY <2>1, <4>1 DEF BlockRec
      <4> QED
        BY <1>6, <2>1, <3>1, <4>2 DEF SameClass, Unlinks
    <3>2. CASE k # n
      <4>1. blk2[k] = blk[k]
        BY <1>10, <3>2
      <4> QED
        BY <1>6, <2>1, <3>2, <4>1 DEF SameClass, Unlinks
    <3> QED
      BY <3>1, <3>2
<1>14. TakenFrom(die.free, blk, b, die2.free)
  <2>1. /\ die2.free.head = n
        /\ die2.free.tail = IF n = None THEN None ELSE die.free.tail
    BY <1>10 DEF Beheaded
  <2>2. n = blk[b].next
    BY <1>2, <1>3
  <2> QED
    BY <1>6, <2>1, <2>2 DEF TakenFrom
<1>15. ListsOK(blk2, die2, vic, out[d]) /\ b \notin out[d]
  <2>1. ListsOK(blk, die, vic, out[d])
    BY <1>5
  <2>2. b = die.free.head /\ blk[b].invalid = 0
    BY <1>3, <1>8
  <2>3. Removed(blk, b, blk2)
    BY <1>12, <1>13 DEF Removed
  <2> QED
    BY <1>14, <2>1, <2>2, <2>3, TakeFree, Zenon
<1>16. Free(blk2) = Free(blk) \ {b}
  BY <1>12, <1>13 DEF Free, SameClass
<1>17. die2.cnt = Cardinality(Free(blk2))
  <2>0. IsFiniteSet(Free(blk))
    BY FreeFinite
  <2>1. Cardinality(Free(blk) \ {b}) = Cardinality(Free(blk)) - 1
    <3>1. b \in Free(blk)
      BY <1>7
    <3> QED
      BY <2>0, <3>1, FS_RemoveElement
  <2> QED
    BY <1>1, <1>3, <1>10, <1>16, <2>1 DEF DieOK
<1>18. DieOK(blk2, die2, vic, out[d])
  <2>1. out[d] \subseteq Blocks /\ \A k \in out[d] : ~blk2[k].free
    BY <1>1, <1>3, <1>13, <1>15 DEF DieOK, SameClass
  <2>2. die2.current # None => ~blk2[die2.current].free
    BY <1>10, <1>12
  <2>3. ASSUME NEW k \in Blocks, blk2[k].free PROVE blk2[k].page = 0 /\ blk2[k].invalid = 0
    <3>1. k # b /\ blk[k].free
      BY <1>12, <1>13, <2>3 DEF SameClass
    <3> QED
      BY <1>1, <1>3, <1>13, <3>1 DEF DieOK, SameClass
  <2>4. ASSUME NEW k \in Blocks, ~blk2[k].free, k # die2.current PROVE blk2[k].page = PagesPerBlock
    <3>1. k # b /\ ~blk[k].free /\ k # None
      BY <1>10, <1>13, <2>4, Marks DEF SameClass
    <3>2. blk[k].page = PagesPerBlock
      BY <1>1, <1>3, <3>1 DEF DieOK
    <3> QED
      BY <1>13, <3>1, <3>2
  <2> QED
    BY <1>15, <1>17, <2>1, <2>2, <2>3, <2>4 DEF DieOK
<1>19. ASSUME NEW e \in AllDies, NEW k \in Blocks
       PROVE  t.block[e][k].page = s.block[e][k].page /\ t.block[e][k].invalid = s.block[e][k].invalid
  <2>1. CASE e = d
    <3>1. t.block[e][k] = blk2[k] /\ s.block[e][k] = blk[k]
      BY <1>3, <1>4, <2>1
    <3>2. CASE k = b
      BY <1>8, <1>12, <3>1, <3>2
    <3>3. CASE k # b
      BY <1>13, <3>1, <3>3 DEF SameClass
    <3> QED
      BY <3>2, <3>3
  <2>2. CASE e # d
    BY <1>10, <2>2, Zenon DEF OtherDies
  <2> QED
    BY <2>1, <2>2
<1>20. PagesOK(t) /\ CountOK(t, out) /\ MapOK(t)
  <2>1. PagesOK(s) /\ CountOK(s, out) /\ MapOK(s)
    BY DEF Good
  <2>2. SameSlices(s, t)
    BY <1>10
  <2>3. SameCounts(s, t, out, out)
    BY <1>19 DEF SameCounts
  <2> QED
    BY <2>1, <2>2, <2>3, SlicesSame, Zenon
<1>21. ASSUME NEW e \in AllDies PROVE DieOK(t.block[e], t.die[e], t.victims[e], out[e])
  <2>1. CASE e = d
    BY <1>4, <1>10, <1>18, <2>1, Zenon
  <2>2. CASE e # d
    <3>1. OtherDies(s, t, d)
      BY <1>10
    <3> QED
      BY <2>2, <3>1, OthersSame
  <2> QED
    BY <2>1, <2>2
<1>22. Good(t, out)
  BY <1>10, <1>20, <1>21, Zenon DEF Good
<1> QED
  BY <1>3, <1>4, <1>7, <1>10, <1>12, <1>15, <1>19, <1>22, Zenon DEF OpenedAs

\* New links, and otherwise the same blocks.
LEMMA DieRelinked ==
    ASSUME NEW blk, NEW die, NEW vic, NEW out, DieOK(blk, die, vic, out),
           NEW blk2, NEW vic2, NEW out2, ListsOK(blk2, die, vic2, out2),
           out2 \subseteq Blocks, \A b \in out2 : ~blk[b].free,
           \A k \in Blocks : SameClass(blk, blk2, k) /\ blk2[k].page = blk[k].page,
           die.current \in Links
    PROVE  DieOK(blk2, die, vic2, out2)
<1>1. Free(blk2) = Free(blk)
  BY DEF Free, SameClass
<1>2. die.cnt = Cardinality(Free(blk2))
  BY <1>1 DEF DieOK
<1>3. \A b \in out2 : ~blk2[b].free
  BY DEF SameClass
<1>4. die.current # None => ~blk2[die.current].free
  BY DEF DieOK, SameClass, Links
<1>5. \A b \in Blocks : blk2[b].free => blk2[b].page = 0 /\ blk2[b].invalid = 0
  BY DEF DieOK, SameClass
<1>6. \A b \in Blocks : ~blk2[b].free /\ b # die.current => blk2[b].page = PagesPerBlock
  BY DEF DieOK, SameClass
<1> QED
  BY <1>2, <1>3, <1>4, <1>5, <1>6 DEF DieOK

\* A victim is taken from its list.
LEMMA TakenGood ==
    ASSUME NEW s, Good(s, NoneOut), NEW d \in AllDies, NEW i \in 1 .. PagesPerBlock,
           NEW b \in Blocks, b = s.victims[d][i].head,
           NEW t, t = GetFromGcVictimList(s, d, i)
    PROVE  /\ Good(t, OutOf(d, b)) /\ SameSlices(s, t) /\ t.failed = s.failed
           /\ OtherDies(s, t, d) /\ t.die[d] = s.die[d]
           /\ ~s.block[d][b].free /\ s.block[d][b].invalid = i
           /\ \A e \in AllDies, k \in Blocks : t.block[e][k].page = s.block[e][k].page
<1>1. IsMaps(s) /\ DieOK(s.block[d], s.die[d], s.victims[d], {})
  BY DEF Good, NoneOut
<1>2. PICK n : n = s.block[d][b].next
  OBVIOUS
<1>3. PICK blk, die, vic : blk = s.block[d] /\ die = s.die[d] /\ vic = s.victims[d]
  OBVIOUS
<1>4. PICK blk2, vic2 : blk2 = t.block[d] /\ vic2 = t.victims[d]
  OBVIOUS
<1>5. ListsOK(blk, die, vic, {}) /\ Listing(InList(blk, {}, i), blk, vic[i])
  <2>1. i \in 0 .. PagesPerBlock /\ i # 0
    OBVIOUS
  <2>2. ListsOK(blk, die, vic, {})
    BY <1>1, <1>3 DEF DieOK
  <2>3. Listing(InList(blk, {}, i), blk, ListAt(die, vic, i))
    BY <2>1, <2>2 DEF ListsOK
  <2> QED
    BY <2>1, <2>2, <2>3 DEF ListAt
<1>6. b \in InList(blk, {}, i) /\ blk[b].prev = None
  BY <1>3, <1>5, Marks DEF Listing, IsList
<1>7. ~blk[b].free /\ blk[b].invalid = i
  BY <1>6 DEF InList
<1>8. VictimFields(s, d, i, n, t)
  <2>1. i \in 0 .. PagesPerBlock
    OBVIOUS
  <2> QED
    BY <1>1, <1>2, <2>1, VictimIs
<1>9. /\ IsMaps(t) /\ SameSlices(s, t) /\ t.failed = s.failed /\ OtherDies(s, t, d)
      /\ t.die[d] = die
      /\ \A j \in 0 .. PagesPerBlock : j # i => vic2[j] = vic[j]
      /\ vic2[i] = Beheaded(vic[i], n)
      /\ \A k \in Blocks : blk2[k] = IF k = n THEN [blk[k] EXCEPT !.prev = None] ELSE blk[k]
  BY <1>3, <1>4, <1>8 DEF VictimFields
<1>10. ASSUME NEW k \in Blocks
       PROVE  SameClass(blk, blk2, k) /\ Unlinks(blk, b, blk2, k) /\ blk2[k].page = blk[k].page
  <2>1. blk[k] \in BlockRec /\ k # None /\ n = blk[b].next
    BY <1>1, <1>2, <1>3, BlockIs, Marks
  <2>2. CASE k = n
    <3>1. blk2[k] = [blk[k] EXCEPT !.prev = None]
      BY <1>9, <2>2
    <3>2. /\ blk2[k].free = blk[k].free /\ blk2[k].invalid = blk[k].invalid
          /\ blk2[k].page = blk[k].page /\ blk2[k].prev = None /\ blk2[k].next = blk[k].next
      BY <2>1, <3>1 DEF BlockRec
    <3> QED
      BY <1>6, <2>1, <2>2, <3>2 DEF SameClass, Unlinks
  <2>3. CASE k # n
    <3>1. blk2[k] = blk[k]
      BY <1>9, <2>3
    <3> QED
      BY <1>6, <2>1, <2>3, <3>1 DEF SameClass, Unlinks
  <2> QED
    BY <2>2, <2>3
<1>11. TakenFrom(vic[i], blk, b, vic2[i])
  <2>1. vic2[i].head = n /\ vic2[i].tail = IF n = None THEN None ELSE vic[i].tail
    BY <1>9 DEF Beheaded
  <2>2. n = blk[b].next
    BY <1>2, <1>3
  <2> QED
    BY <1>6, <2>1, <2>2 DEF TakenFrom
<1>12. ListsOK(blk2, die, vic2, {b})
  <2>1. \A k \in Blocks : SameClass(blk, blk2, k)
    BY <1>10
  <2>2. \A k \in Blocks \ {b} : Unlinks(blk, b, blk2, k)
    BY <1>10
  <2>3. \A j \in 1 .. PagesPerBlock : j # blk[b].invalid => vic2[j] = vic[j]
    BY <1>7, <1>9
  <2>4. b \in Blocks \ {} /\ ~blk[b].free /\ blk[b].invalid \in 0 .. PagesPerBlock
    BY <1>7
  <2>5. TakenFrom(vic[blk[b].invalid], blk, b, vic2[blk[b].invalid])
    BY <1>7, <1>11
  <2>6. ListsOK(blk, die, vic, {})
    BY <1>5
  <2>7. ListsOK(blk2, die, vic2, {} \cup {b})
    BY <2>1, <2>2, <2>3, <2>4, <2>5, <2>6, TakeVictim, Zenon
  <2>8. {} \cup {b} = {b}
    OBVIOUS
  <2> QED
    BY <2>7, <2>8
<1>13. DieOK(blk2, die, vic2, {b})
  <2>1. die.current \in Links
    BY <1>1, <1>3, DieIs
  <2>2. DieOK(blk, die, vic, {})
    BY <1>1, <1>3
  <2>3. \A k \in {b} : ~blk[k].free
    BY <1>7
  <2>4. {b} \subseteq Blocks
    OBVIOUS
  <2>5. \A k \in Blocks : SameClass(blk, blk2, k) /\ blk2[k].page = blk[k].page
    BY <1>10
  <2> QED
    BY <1>12, <2>1, <2>2, <2>3, <2>4, <2>5, DieRelinked
<1>14. ASSUME NEW e \in AllDies, NEW k \in Blocks
       PROVE  t.block[e][k].page = s.block[e][k].page /\ t.block[e][k].invalid = s.block[e][k].invalid
  <2>1. CASE e = d
    <3>1. t.block[e][k] = blk2[k] /\ s.block[e][k] = blk[k]
      BY <1>3, <1>4, <2>1
    <3> QED
      BY <1>10, <3>1 DEF SameClass
  <2>2. CASE e # d
    BY <1>9, <2>2 DEF OtherDies
  <2> QED
    BY <2>1, <2>2
<1>15. PagesOK(t) /\ CountOK(t, OutOf(d, b)) /\ MapOK(t)
  <2>1. PagesOK(s) /\ CountOK(s, NoneOut) /\ MapOK(s)
    BY DEF Good
  <2>2. SameSlices(s, t)
    BY <1>9
  <2>3. SameCounts(s, t, NoneOut, OutOf(d, b))
    BY <1>14 DEF NoneOut, SameCounts
  <2> QED
    BY <2>1, <2>2, <2>3, SlicesSame, Zenon
<1>16. ASSUME NEW e \in AllDies PROVE DieOK(t.block[e], t.die[e], t.victims[e], OutOf(d, b)[e])
  <2>1. CASE e = d
    <3>1. OutOf(d, b)[e] = {b}
      BY <2>1 DEF OutOf
    <3> QED
      BY <1>4, <1>9, <1>13, <2>1, <3>1
  <2>2. CASE e # d
    <3>1. OtherDies(s, t, d)
      BY <1>9
    <3>2. \A x \in AllDies \ {d} : OutOf(d, b)[x] = NoneOut[x]
      BY DEF OutOf, NoneOut
    <3> QED
      BY <2>2, <3>1, <3>2, OthersSame
  <2> QED
    BY <2>1, <2>2
<1>17. Good(t, OutOf(d, b))
  BY <1>9, <1>15, <1>16 DEF Good
<1> QED
  BY <1>3, <1>7, <1>9, <1>14, <1>17

\* Below the end of a block, the page number is the page.
LEMMA VsaIs ==
    ASSUME NEW d \in AllDies, NEW b \in Blocks, NEW p \in Pages
    PROVE  Vorg2VsaTranslation(d, b, p) = <<d, b, p>> /\ <<d, b, p>> \in Vsas
<1>1. p \in Nat /\ p < PagesPerBlock /\ PagesPerBlock \in Nat /\ PagesPerBlock > 0
  BY Sizes DEF Pages
<1>2. p \div PagesPerBlock = 0 /\ p % PagesPerBlock = p
  BY <1>1
<1>3. b \in Nat
  BY Sizes DEF Blocks
<1>4. b + 0 = b
  BY <1>3
<1> QED
  BY <1>2, <1>4 DEF Vorg2VsaTranslation, Vsas

LEMMA VsasAre ==
    ASSUME NEW v \in Vsas
    PROVE  \E d \in AllDies, b \in Blocks, p \in Pages : v = <<d, b, p>>
  BY DEF Vsas

LEMMA VsaParts ==
    ASSUME NEW d, NEW b, NEW p, NEW d2, NEW b2, NEW p2
    PROVE  /\ <<d, b, p>> = <<d2, b2, p2>> <=> d = d2 /\ b = b2 /\ p = p2
           /\ <<d, b, p>>[1] = d /\ <<d, b, p>>[2] = b
  OBVIOUS

\* Pages do not matter to the lists.
LEMMA ListsSame ==
    ASSUME NEW blk, NEW die, NEW vic, NEW out, ListsOK(blk, die, vic, out), NEW blk2,
           \A k \in Blocks : /\ SameClass(blk, blk2, k)
                             /\ blk2[k].next = blk[k].next /\ blk2[k].prev = blk[k].prev
    PROVE  ListsOK(blk2, die, vic, out)
<1>1. ASSUME NEW i \in 0 .. PagesPerBlock
      PROVE  Listing(InList(blk2, out, i), blk2, ListAt(die, vic, i))
  <2>1. InList(blk2, out, i) = InList(blk, out, i)
    BY DEF InList, SameClass
  <2>2. Listing(InList(blk, out, i), blk, ListAt(die, vic, i))
    BY DEF ListsOK
  <2>3. \A x \in InList(blk, out, i) : blk2[x].next = blk[x].next /\ blk2[x].prev = blk[x].prev
    BY DEF InList
  <2> QED
    BY <2>1, <2>2, <2>3, ListSame
<1>2. ASSUME NEW b \in Blocks \ out, ~blk2[b].free, blk2[b].invalid = 0
      PROVE  blk2[b].prev = None /\ blk2[b].next = None
  BY <1>2 DEF ListsOK, SameClass
<1> QED
  BY <1>1, <1>2 DEF ListsOK

\* What a program changes, when the open block has room.
ProgramFields(s, d, b, p, l, t) ==
    /\ IsMaps(t) /\ t.failed = s.failed /\ t.die = s.die /\ t.victims = s.victims
    /\ t.map = [s.map EXCEPT ![l] = <<d, b, p>>]
    /\ t.rev = [s.rev EXCEPT ![<<d, b, p>>] = l]
    /\ t.flash = [s.flash EXCEPT ![<<d, b, p>>] = l]
    /\ t.block[d][b] = [s.block[d][b] EXCEPT !.page = p + 1]
    /\ \A k \in Blocks \ {b} : t.block[d][k] = s.block[d][k]
    /\ \A e \in AllDies \ {d} : t.block[e] = s.block[e]

LEMMA ProgramIs ==
    ASSUME NEW s, IsMaps(s), NEW d \in AllDies, NEW b \in Blocks, b = s.die[d].current,
           NEW p, p = s.block[d][b].page, p < PagesPerBlock, NEW l \in Lsas,
           NEW t, t = Program(s, d, l, l)
    PROVE  ProgramFields(s, d, b, p, l, t)
<1> DEFINE rec == [s.block[d][b] EXCEPT !.page = p + 1]
           blk == [s.block[d] EXCEPT ![b] = rec]
<1>1. p \in Pages
  <2>1. p \in 0 .. PagesPerBlock
    BY BlockIs
  <2> QED
    BY <2>1, Sizes DEF Pages
<1>2. PICK v : v = <<d, b, p>>
  OBVIOUS
<1>3. Vorg2VsaTranslation(d, b, CurrentPage(s, d)) = v /\ v \in Vsas
  BY <1>1, <1>2, VsaIs DEF CurrentPage
<1>4. /\ s.map \in [Lsas -> Vsas \cup {None}] /\ s.rev \in [Vsas -> Lsas \cup {None}]
      /\ s.block \in [AllDies -> [Blocks -> BlockRec]]
      /\ s.flash \in [Vsas -> Lsas \cup {None, "stale"}]
  BY MapsAre
<1>5. rec \in BlockRec
  <2>1. s.block[d][b] \in BlockRec /\ p + 1 \in 0 .. PagesPerBlock
    BY <1>1, BlockIs, Sizes DEF Pages
  <2> QED
    BY <2>1 DEF BlockRec
<1>6. /\ t.map = [s.map EXCEPT ![l] = v]
      /\ t.rev = [s.rev EXCEPT ![v] = l]
      /\ t.flash = [s.flash EXCEPT ![v] = l]
  BY <1>3, <1>4 DEF Program, IsMaps
<1>7. /\ DOMAIN t = DOMAIN s /\ t = [x \in DOMAIN s |-> t[x]]
      /\ t.die = s.die /\ t.victims = s.victims /\ t.failed = s.failed
  BY <1>3, <1>4, Zenon DEF Program, IsMaps
<1>8. t.block = [s.block EXCEPT ![d] = blk]
  BY <1>4 DEF Program, IsMaps
<1> HIDE DEF rec
<1>9. /\ blk \in [Blocks -> BlockRec] /\ blk[b] = rec
      /\ \A k \in Blocks \ {b} : blk[k] = s.block[d][k]
  BY <1>4, <1>5
<1> HIDE DEF blk
<1>10. /\ t.block \in [AllDies -> [Blocks -> BlockRec]] /\ t.block[d] = blk
       /\ \A e \in AllDies \ {d} : t.block[e] = s.block[e]
  BY <1>4, <1>8, <1>9
<1>11. /\ t.map \in [Lsas -> Vsas \cup {None}] /\ t.rev \in [Vsas -> Lsas \cup {None}]
       /\ t.flash \in [Vsas -> Lsas \cup {None, "stale"}]
  BY <1>3, <1>4, <1>6
<1>12. IsMaps(t)
  BY <1>7, <1>10, <1>11, MapsAre, MapsFrom
<1> QED
  BY <1>2, <1>6, <1>7, <1>9, <1>10, <1>12, Zenon DEF ProgramFields, rec

\* A slice without a place, or whose place is in a block that is out of the lists, is
\* programmed to the open block.
LEMMA ProgramGood ==
    ASSUME NEW s, NEW out, Good(s, out), NEW d \in AllDies, NEW b \in Blocks,
           b = s.die[d].current, b \notin out[d],
           NEW p, p = s.block[d][b].page, p < PagesPerBlock, NEW l \in Lsas,
           \/ s.map[l] = None
           \/ \E k \in out[d], q \in Pages : s.map[l] = <<d, k, q>>,
           NEW t, t = Program(s, d, l, l)
    PROVE  Good(t, out) /\ ProgramFields(s, d, b, p, l, t)
<1>1. IsMaps(s) /\ DieOK(s.block[d], s.die[d], s.victims[d], out[d])
  BY DEF Good
<1>2. ProgramFields(s, d, b, p, l, t)
  BY <1>1, ProgramIs
<1>3. PICK v : v = <<d, b, p>>
  OBVIOUS
<1>4. p \in Pages /\ v \in Vsas
  <2>1. p \in 0 .. PagesPerBlock
    BY <1>1, BlockIs
  <2>2. p \in Pages
    BY <2>1, Sizes DEF Pages
  <2> QED
    BY <1>3, <2>2, VsaIs
<1>5. /\ IsMaps(t) /\ t.failed = s.failed /\ t.die = s.die /\ t.victims = s.victims
      /\ t.map = [s.map EXCEPT ![l] = v]
      /\ t.rev = [s.rev EXCEPT ![v] = l]
      /\ t.flash = [s.flash EXCEPT ![v] = l]
      /\ t.block[d][b] = [s.block[d][b] EXCEPT !.page = p + 1]
      /\ \A k \in Blocks \ {b} : t.block[d][k] = s.block[d][k]
      /\ \A e \in AllDies \ {d} : t.block[e] = s.block[e]
  BY <1>2, <1>3, Zenon DEF ProgramFields
<1>6. /\ s.map \in [Lsas -> Vsas \cup {None}] /\ s.rev \in [Vsas -> Lsas \cup {None}]
      /\ s.flash \in [Vsas -> Lsas \cup {None, "stale"}]
  BY <1>1, MapsAre
<1>7. /\ t.map[l] = v /\ t.rev[v] = l /\ t.flash[v] = l
      /\ \A x \in Lsas \ {l} : t.map[x] = s.map[x]
      /\ \A w \in Vsas \ {v} : t.rev[w] = s.rev[w] /\ t.flash[w] = s.flash[w]
  BY <1>4, <1>5, <1>6
<1>8. /\ t.block[d][b].page = p + 1 /\ (t.block[d][b].free <=> s.block[d][b].free)
      /\ t.block[d][b].invalid = s.block[d][b].invalid
      /\ t.block[d][b].next = s.block[d][b].next /\ t.block[d][b].prev = s.block[d][b].prev
  <2>1. s.block[d][b] \in BlockRec
    BY <1>1, BlockIs
  <2> QED
    BY <1>5, <2>1 DEF BlockRec
<1>9. s.rev[v] = None /\ s.flash[v] = None
  <2>1. ~ (p < s.block[d][b].page)
    BY <1>4, Sizes DEF Pages
  <2>2. PagesOK(s)
    BY DEF Good
  <2> QED
    BY <1>3, <1>4, <2>1, <2>2 DEF PagesOK
<1>10. ASSUME NEW e \in AllDies, NEW k \in Blocks, <<e, k>> # <<d, b>>
       PROVE  t.block[e][k] = s.block[e][k]
  BY <1>5, <1>10
<1>11. PagesOK(t)
  <2> SUFFICES ASSUME NEW e \in AllDies, NEW k \in Blocks, NEW q \in Pages
               PROVE  /\ t.flash[<<e, k, q>>] # None <=> q < t.block[e][k].page
                      /\ t.rev[<<e, k, q>>] # None <=> q < t.block[e][k].page
    BY DEF PagesOK
  <2>1. /\ s.flash[<<e, k, q>>] # None <=> q < s.block[e][k].page
        /\ s.rev[<<e, k, q>>] # None <=> q < s.block[e][k].page
    BY DEF Good, PagesOK
  <2>2. <<e, k, q>> \in Vsas /\ l # None
    BY VsaIs, Marks
  <2>3. CASE <<e, k, q>> = v
    <3>1. e = d /\ k = b /\ q = p
      BY <1>3, <2>3, VsaParts
    <3>2. q < p + 1
      BY <1>4, <3>1, Sizes DEF Pages
    <3> QED
      BY <1>7, <1>8, <2>2, <2>3, <3>1, <3>2, Zenon
  <2>4. CASE <<e, k, q>> # v
    <3>1. t.flash[<<e, k, q>>] = s.flash[<<e, k, q>>] /\ t.rev[<<e, k, q>>] = s.rev[<<e, k, q>>]
      BY <1>7, <2>2, <2>4
    <3>2. CASE e = d /\ k = b
      <4>1. q # p
        BY <1>3, <2>4, <3>2
      <4>2. q < p + 1 <=> q < p
        BY <1>4, <4>1, Sizes DEF Pages
      <4> QED
        BY <1>8, <2>1, <3>1, <3>2, <4>2
    <3>3. CASE ~ (e = d /\ k = b)
      <4>1. t.block[e][k] = s.block[e][k]
        BY <1>10, <3>3
      <4> QED
        BY <2>1, <3>1, <4>1
    <3> QED
      BY <3>2, <3>3
  <2> QED
    BY <2>3, <2>4
<1>12. MapOK(t)
  <2>1. MapOK(s)
    BY DEF Good
  <2>2. ASSUME NEW x \in Lsas
        PROVE  /\ t.map[x] # None => t.rev[t.map[x]] = x /\ t.flash[t.map[x]] = x
               /\ t.map[x] = None => \A w \in Vsas : t.flash[w] # x
    <3>1. CASE x = l
      <4>1. v # None
        BY <1>4, Marks
      <4> QED
        BY <1>7, <3>1, <4>1
    <3>2. CASE x # l
      <4>1. t.map[x] = s.map[x] /\ s.map[x] \in Vsas \cup {None} /\ x # None
        BY <1>6, <1>7, <3>2, Marks
      <4>2. s.map[x] # None => s.rev[s.map[x]] = x /\ s.flash[s.map[x]] = x
        BY <2>1 DEF MapOK
      <4>3. s.map[x] # v
        BY <1>4, <1>9, <4>1, <4>2, Marks
      <4>4. s.map[x] = None => \A w \in Vsas : t.flash[w] # x
        BY <1>7, <2>1, <3>2 DEF MapOK
      <4> QED
        BY <1>7, <4>1, <4>2, <4>3, <4>4
    <3> QED
      BY <3>1, <3>2
  <2> QED
    BY <2>2 DEF MapOK
<1>13. ASSUME NEW e \in AllDies, NEW k \in Blocks, k \notin out[e]
       PROVE  InvalidPages(t, e, k) = InvalidPages(s, e, k)
  <2>1. ASSUME NEW q \in Pages
        PROVE  q \in InvalidPages(t, e, k) <=> q \in InvalidPages(s, e, k)
    <3>1. PICK w : w = <<e, k, q>>
      OBVIOUS
    <3>2. w \in Vsas
      BY <3>1, VsaIs
    <3>3. CASE w = v
      <4>1. e = d /\ k = b /\ q = p
        BY <1>3, <3>1, <3>3, VsaParts
      <4>2. q \notin InvalidPages(s, e, k)
        <5>1. ~ (p < s.block[d][b].page)
          BY <1>4, Sizes DEF Pages
        <5> QED
          BY <4>1, <5>1, Zenon DEF InvalidPages
      <4>3. Valid(t, w)
        BY <1>7, <3>3, Marks DEF Valid
      <4>4. q \notin InvalidPages(t, e, k)
        BY <3>1, <4>3 DEF InvalidPages
      <4> QED
        BY <4>2, <4>4
    <3>4. CASE w # v
      <4>1. t.rev[w] = s.rev[w] /\ s.rev[w] \in Lsas \cup {None}
        BY <1>6, <1>7, <3>2, <3>4
      <4>2. Valid(t, w) <=> Valid(s, w)
        <5>1. CASE s.rev[w] = l
          <6>1. t.map[l] # w /\ s.map[l] # w
            <7>1. t.map[l] # w
              BY <1>7, <3>4
            <7>2. CASE s.map[l] = None
              BY <3>2, <7>1, <7>2, Marks
            <7>3. CASE \E j \in out[d], r \in Pages : s.map[l] = <<d, j, r>>
              <8>1. PICK j \in out[d], r \in Pages : s.map[l] = <<d, j, r>>
                BY <7>3
              <8>2. s.map[l] = w => d = e /\ j = k
                BY <3>1, <8>1, VsaParts
              <8> QED
                BY <1>13, <7>1, <8>2
            <7> QED
              BY <7>1, <7>2, <7>3
          <6> QED
            BY <4>1, <5>1, <6>1 DEF Valid
        <5>2. CASE s.rev[w] # l
          BY <1>7, <4>1, <5>2 DEF Valid
        <5> QED
          BY <5>1, <5>2
      <4>3. q < t.block[e][k].page <=> q < s.block[e][k].page
        <5>1. CASE e = d /\ k = b
          <6>1. q # p
            BY <1>3, <3>1, <3>4, <5>1
          <6>2. q < p + 1 <=> q < p
            BY <1>4, <6>1, Sizes DEF Pages
          <6> QED
            BY <1>8, <5>1, <6>2
        <5>2. CASE ~ (e = d /\ k = b)
          <6>1. t.block[e][k] = s.block[e][k]
            BY <1>10, <5>2
          <6> QED
            BY <6>1
        <5> QED
          BY <5>1, <5>2
      <4> QED
        BY <3>1, <4>2, <4>3 DEF InvalidPages
    <3> QED
      BY <3>3, <3>4
  <2>2. InvalidPages(t, e, k) \subseteq Pages /\ InvalidPages(s, e, k) \subseteq Pages
    BY DEF InvalidPages
  <2> QED
    BY <2>1, <2>2
<1>14. CountOK(t, out)
  <2> SUFFICES ASSUME NEW e \in AllDies, NEW k \in Blocks, k \notin out[e]
               PROVE  t.block[e][k].invalid = Cardinality(InvalidPages(t, e, k))
    BY DEF CountOK
  <2>1. s.block[e][k].invalid = Cardinality(InvalidPages(s, e, k))
    BY DEF Good, CountOK
  <2>2. t.block[e][k].invalid = s.block[e][k].invalid
    BY <1>8, <1>10
  <2> QED
    BY <1>13, <2>1, <2>2
<1>15. DieOK(t.block[d], s.die[d], s.victims[d], out[d])
  <2>1. PICK blk, blk2, die, vic, o : /\ blk = s.block[d] /\ blk2 = t.block[d] /\ die = s.die[d]
                                      /\ vic = s.victims[d] /\ o = out[d]
    OBVIOUS
  <2>2. DieOK(blk, die, vic, o) /\ die.current = b
    BY <1>1, <2>1
  <2>3. ASSUME NEW k \in Blocks
        PROVE  /\ SameClass(blk, blk2, k)
               /\ blk2[k].next = blk[k].next /\ blk2[k].prev = blk[k].prev
               /\ k # b => blk2[k].page = blk[k].page
    <3>1. CASE k = b
      BY <1>8, <2>1, <3>1 DEF SameClass
    <3>2. CASE k # b
      <4>1. blk2[k] = blk[k]
        BY <1>5, <2>1, <3>2
      <4> QED
        BY <4>1 DEF SameClass
    <3> QED
      BY <3>1, <3>2
  <2>4. ListsOK(blk2, die, vic, o)
    BY <2>2, <2>3, ListsSame DEF DieOK
  <2>5. Free(blk2) = Free(blk)
    BY <2>3 DEF Free, SameClass
  <2>6. die.cnt = Cardinality(Free(blk2))
    BY <2>2, <2>5 DEF DieOK
  <2>7. ~blk[b].free /\ b # None
    BY <2>2, Marks DEF DieOK
  <2>8. ~blk2[b].free
    BY <2>3, <2>7 DEF SameClass
  <2>9. ASSUME NEW k \in Blocks, blk2[k].free PROVE blk2[k].page = 0 /\ blk2[k].invalid = 0
    <3>1. k # b /\ blk[k].free
      BY <2>3, <2>8, <2>9 DEF SameClass
    <3> QED
      BY <2>2, <2>3, <3>1 DEF DieOK, SameClass
  <2>10. ASSUME NEW k \in Blocks, ~blk2[k].free, k # die.current PROVE blk2[k].page = PagesPerBlock
    <3>1. k # b /\ ~blk[k].free
      BY <2>2, <2>3, <2>10 DEF SameClass
    <3> QED
      BY <2>2, <2>3, <3>1 DEF DieOK
  <2>11. o \subseteq Blocks /\ \A k \in o : ~blk2[k].free
    BY <2>2, <2>3 DEF DieOK, SameClass
  <2>12. DieOK(blk2, die, vic, o)
    BY <2>2, <2>4, <2>6, <2>8, <2>9, <2>10, <2>11 DEF DieOK
  <2> QED
    BY <2>1, <2>12
<1>16. ASSUME NEW e \in AllDies PROVE DieOK(t.block[e], t.die[e], t.victims[e], out[e])
  <2>1. CASE e = d
    BY <1>5, <1>15, <2>1
  <2>2. CASE e # d
    <3>1. DieOK(s.block[e], s.die[e], s.victims[e], out[e])
      BY DEF Good
    <3> QED
      BY <1>5, <2>2, <3>1
  <2> QED
    BY <2>1, <2>2
<1> QED
  BY <1>2, <1>5, <1>11, <1>12, <1>14, <1>16 DEF Good

\* A block is cleared, before PutToFbList.
Cleared(s, d, b) ==
    LET InBlock(v) == v[1] = d /\ v[2] = b
    IN  [s EXCEPT !.reqs = Append(@, NandReq("ERASE", <<d, b, 0>>, s.block[d][b].page, None)),
                  !.block[d][b] = [@ EXCEPT !.free = TRUE, !.invalid = 0, !.page = 0],
                  !.rev   = [v \in DOMAIN @ |-> IF InBlock(v) THEN None ELSE @[v]],
                  !.flash = [v \in DOMAIN @ |-> IF InBlock(v) THEN None ELSE @[v]]]

ClearedFields(s, d, b, t) ==
    /\ IsMaps(t) /\ t.failed = s.failed /\ t.die = s.die /\ t.victims = s.victims
    /\ t.map = s.map
    /\ \A v \in Vsas : v[1] = d /\ v[2] = b => t.rev[v] = None /\ t.flash[v] = None
    /\ \A v \in Vsas : ~ (v[1] = d /\ v[2] = b) => t.rev[v] = s.rev[v] /\ t.flash[v] = s.flash[v]
    /\ t.block[d][b] = [s.block[d][b] EXCEPT !.free = TRUE, !.invalid = 0, !.page = 0]
    /\ \A k \in Blocks \ {b} : t.block[d][k] = s.block[d][k]
    /\ \A e \in AllDies \ {d} : t.block[e] = s.block[e]

LEMMA ClearedIs ==
    ASSUME NEW s, IsMaps(s), NEW d \in AllDies, NEW b \in Blocks, NEW t, t = Cleared(s, d, b)
    PROVE  ClearedFields(s, d, b, t)
<1> DEFINE rec == [s.block[d][b] EXCEPT !.free = TRUE, !.invalid = 0, !.page = 0]
           blk == [s.block[d] EXCEPT ![b] = rec]
<1>1. /\ s.map \in [Lsas -> Vsas \cup {None}] /\ s.rev \in [Vsas -> Lsas \cup {None}]
      /\ s.block \in [AllDies -> [Blocks -> BlockRec]]
      /\ s.flash \in [Vsas -> Lsas \cup {None, "stale"}]
  BY MapsAre
<1>2. rec \in BlockRec
  <2>1. s.block[d][b] \in BlockRec /\ 0 \in 0 .. PagesPerBlock
    BY BlockIs, Sizes
  <2> QED
    BY <2>1 DEF BlockRec
<1>3. t.rev = [v \in Vsas |-> IF v[1] = d /\ v[2] = b THEN None ELSE s.rev[v]]
  <2>1. DOMAIN s.rev = Vsas
    BY <1>1
  <2> QED
    BY <2>1 DEF Cleared, IsMaps
<1>4. t.flash = [v \in Vsas |-> IF v[1] = d /\ v[2] = b THEN None ELSE s.flash[v]]
  <2>1. DOMAIN s.flash = Vsas
    BY <1>1
  <2> QED
    BY <2>1 DEF Cleared, IsMaps
<1>5. /\ DOMAIN t = DOMAIN s /\ t = [x \in DOMAIN s |-> t[x]]
      /\ t.die = s.die /\ t.victims = s.victims /\ t.failed = s.failed /\ t.map = s.map
  BY DEF Cleared, IsMaps
<1>6. t.block = [s.block EXCEPT ![d] = blk]
  BY <1>1 DEF Cleared, IsMaps
<1> HIDE DEF rec
<1>7. /\ blk \in [Blocks -> BlockRec] /\ blk[b] = rec
      /\ \A k \in Blocks \ {b} : blk[k] = s.block[d][k]
  BY <1>1, <1>2
<1> HIDE DEF blk
<1>8. /\ t.block \in [AllDies -> [Blocks -> BlockRec]] /\ t.block[d] = blk
      /\ \A e \in AllDies \ {d} : t.block[e] = s.block[e]
  BY <1>1, <1>6, <1>7
<1>9. /\ t.rev \in [Vsas -> Lsas \cup {None}] /\ t.flash \in [Vsas -> Lsas \cup {None, "stale"}]
  BY <1>1, <1>3, <1>4
<1>10. IsMaps(t)
  BY <1>5, <1>8, <1>9, MapsAre, MapsFrom
<1>11. /\ \A v \in Vsas : v[1] = d /\ v[2] = b => t.rev[v] = None /\ t.flash[v] = None
       /\ \A v \in Vsas : ~ (v[1] = d /\ v[2] = b) => t.rev[v] = s.rev[v] /\ t.flash[v] = s.flash[v]
  BY <1>3, <1>4
<1> QED
  BY <1>5, <1>7, <1>8, <1>10, <1>11 DEF ClearedFields, rec

ErasedFields(s, d, b, t) ==
    /\ t.map = s.map /\ t.failed = s.failed /\ OtherDies(s, t, d)
    /\ t.die[d].current = s.die[d].current /\ t.die[d].cnt = s.die[d].cnt + 1
    /\ \A k \in Blocks \ {b} : t.block[d][k].page = s.block[d][k].page

\* A block without valid pages is erased and becomes a free block.
LEMMA ErasedGood ==
    ASSUME NEW s, NEW d \in AllDies, NEW b \in Blocks, Good(s, OutOf(d, b)),
           s.die[d].current # b, \A p \in Pages : ~Valid(s, <<d, b, p>>),
           NEW t, t = EraseBlock(s, d, b)
    PROVE  Good(t, NoneOut) /\ ErasedFields(s, d, b, t)
<1>1. IsMaps(s) /\ DieOK(s.block[d], s.die[d], s.victims[d], {b})
  BY DEF Good, OutOf
<1>2. PICK c : c = Cleared(s, d, b)
  OBVIOUS
<1>3. t = PutToFbList(c, d, b)
  BY <1>2 DEF EraseBlock, Cleared
<1>4. ClearedFields(s, d, b, c)
  BY <1>1, <1>2, ClearedIs
<1>5. /\ IsMaps(c) /\ c.failed = s.failed /\ c.die = s.die /\ c.victims = s.victims
      /\ c.map = s.map
      /\ c.block[d][b] = [s.block[d][b] EXCEPT !.free = TRUE, !.invalid = 0, !.page = 0]
      /\ \A k \in Blocks \ {b} : c.block[d][k] = s.block[d][k]
      /\ \A e \in AllDies \ {d} : c.block[e] = s.block[e]
  BY <1>4 DEF ClearedFields
<1>6. PICK blk, die, vic, tail : /\ blk = s.block[d] /\ die = s.die[d] /\ vic = s.victims[d]
                                 /\ tail = die.free.tail
  OBVIOUS
<1>7. PICK blk1, blk2, die2 : blk1 = c.block[d] /\ blk2 = t.block[d] /\ die2 = t.die[d]
  OBVIOUS
<1>8. ListsOK(blk, die, vic, {b}) /\ Listing(InList(blk, {b}, 0), blk, die.free)
  <2>1. 0 \in 0 .. PagesPerBlock
    BY Sizes
  <2>2. ListsOK(blk, die, vic, {b})
    BY <1>1, <1>6 DEF DieOK
  <2> QED
    BY <2>1, <2>2 DEF ListsOK, ListAt
<1>9. tail # b /\ tail \in Links
  <2>1. tail # None => tail \in InList(blk, {b}, 0)
    BY <1>6, <1>8 DEF Listing, IsList
  <2>2. b # None
    BY Marks
  <2> QED
    BY <2>1, <2>2 DEF InList, Links
<1>10. PutFreeFields(c, d, b, t)
  <2>1. c.die[d].free.tail # b
    BY <1>5, <1>6, <1>9
  <2> QED
    BY <1>3, <1>5, <2>1, PutFreeIs
<1>11. /\ IsMaps(t) /\ t.map = c.map /\ t.rev = c.rev /\ t.flash = c.flash /\ t.failed = c.failed
       /\ OtherDies(c, t, d) /\ t.victims[d] = vic
       /\ die2.current = die.current /\ die2.cnt = die.cnt + 1
       /\ die2.free = Listed(die.free, b)
       /\ blk2 = Linked(blk1, tail, b)
  BY <1>5, <1>6, <1>7, <1>10 DEF PutFreeFields, SameSlices
<1>12. /\ blk2[b] = [blk1[b] EXCEPT !.prev = tail, !.next = None]
       /\ \A k \in Blocks \ {b} : blk2[k] = IF k = tail THEN [blk1[k] EXCEPT !.next = b] ELSE blk1[k]
  <2>1. blk1 \in [Blocks -> BlockRec]
    BY <1>5, <1>7, DieIs
  <2>2. LinkedFields(blk1, tail, b, Linked(blk1, tail, b))
    BY <1>9, <2>1, LinkedIs
  <2>3. LinkedFields(blk1, tail, b, blk2)
    BY <1>11, <2>2
  <2> QED
    BY <2>3 DEF LinkedFields
<1>13. /\ blk2[b].free /\ blk2[b].invalid = 0 /\ blk2[b].page = 0
       /\ blk2[b].prev = tail /\ blk2[b].next = None
  <2>1. blk[b] \in BlockRec /\ blk1[b] \in BlockRec
    BY <1>1, <1>5, <1>6, <1>7, BlockIs
  <2>2. blk1[b] = [blk[b] EXCEPT !.free = TRUE, !.invalid = 0, !.page = 0]
    BY <1>5, <1>6, <1>7
  <2>3. blk1[b].free = TRUE /\ blk1[b].invalid = 0 /\ blk1[b].page = 0
    BY <2>1, <2>2 DEF BlockRec
  <2> QED
    BY <1>12, <2>1, <2>3 DEF BlockRec
<1>14. ASSUME NEW k \in Blocks \ {b}
       PROVE  /\ SameClass(blk, blk2, k) /\ LinksTo(blk, tail, b, blk2, k)
              /\ blk2[k].page = blk[k].page
  <2>1. blk[k] \in BlockRec /\ blk1[k] = blk[k]
    BY <1>1, <1>5, <1>6, <1>7, BlockIs
  <2>2. CASE k = tail
    <3>1. blk2[k] = [blk[k] EXCEPT !.next = b]
      BY <1>12, <2>1, <2>2
    <3>2. /\ blk2[k].free = blk[k].free /\ blk2[k].invalid = blk[k].invalid
          /\ blk2[k].page = blk[k].page /\ blk2[k].prev = blk[k].prev /\ blk2[k].next = b
      BY <2>1, <3>1 DEF BlockRec
    <3> QED
      BY <2>2, <3>2 DEF SameClass, LinksTo
  <2>3. CASE k # tail
    <3>1. blk2[k] = blk[k]
      BY <1>12, <2>1, <2>3
    <3> QED
      BY <2>3, <3>1 DEF SameClass, LinksTo
  <2> QED
    BY <2>2, <2>3
<1>15. ListsOK(blk2, die2, vic, {})
  <2>1. ListAt(die, vic, 0) = die.free /\ ListAt(die2, vic, 0) = die2.free
    BY DEF ListAt
  <2>2. PutIn(die.free, b, die2.free)
    BY <1>6, <1>11 DEF PutIn, Listed
  <2>3. \A j \in 0 .. PagesPerBlock : j # 0 => ListAt(die2, vic, j) = ListAt(die, vic, j)
    BY DEF ListAt
  <2>4. PICK o : o = {b}
    OBVIOUS
  <2>5. ListsOK(blk, die, vic, o) /\ b \in o
    BY <1>8, <2>4
  <2>6. ListAt(die, vic, 0).tail = tail
    BY <1>6, <2>1
  <2>7. \A k \in Blocks \ {b} : /\ SameClass(blk, blk2, k)
                               /\ LinksTo(blk, ListAt(die, vic, 0).tail, b, blk2, k)
    BY <1>14, <2>6
  <2>8. blk2[b].prev = ListAt(die, vic, 0).tail /\ blk2[b].next = None
    BY <1>13, <2>6
  <2>9. PutIn(ListAt(die, vic, 0), b, ListAt(die2, vic, 0))
    BY <2>1, <2>2
  <2>10. 0 \in 0 .. PagesPerBlock
    BY Sizes
  <2>11. IF 0 = 0 THEN blk2[b].free ELSE ~blk2[b].free /\ blk2[b].invalid = 0
    BY <1>13
  <2>12. ListsOK(blk2, die2, vic, o \ {b})
    BY <2>3, <2>5, <2>7, <2>8, <2>9, <2>10, <2>11, PutBack
  <2> QED
    BY <2>4, <2>12
<1>16. b \notin Free(blk) /\ Free(blk2) = Free(blk) \cup {b}
  <2>1. ~blk[b].free
    BY <1>1, <1>6 DEF DieOK
  <2> QED
    BY <2>1, <1>13, <1>14 DEF Free, SameClass
<1>17. die2.cnt = Cardinality(Free(blk2))
  <2>1. IsFiniteSet(Free(blk))
    BY FreeFinite
  <2>2. b \notin Free(blk)
    BY <1>16
  <2>3. Cardinality(Free(blk) \cup {b}) = Cardinality(Free(blk)) + 1
    BY <2>1, <2>2, FS_AddElement
  <2>4. die.cnt = Cardinality(Free(blk))
    BY <1>1, <1>6 DEF DieOK
  <2> QED
    BY <1>11, <1>16, <2>3, <2>4
<1>18. DieOK(blk2, die2, vic, {})
  <2>1. DieOK(blk, die, vic, {b}) /\ die.current # b /\ die.current \in Links
    BY <1>1, <1>6, DieIs
  <2>2. die2.current # None => ~blk2[die2.current].free
    <3>1. die.current # None => die.current \in Blocks \ {b} /\ ~blk[die.current].free
      BY <2>1 DEF DieOK, Links
    <3> QED
      BY <1>11, <1>14, <3>1 DEF SameClass
  <2>3. ASSUME NEW k \in Blocks, blk2[k].free PROVE blk2[k].page = 0 /\ blk2[k].invalid = 0
    <3>1. CASE k = b
      BY <1>13, <3>1
    <3>2. CASE k # b
      <4>1. blk[k].free
        BY <1>14, <2>3, <3>2 DEF SameClass
      <4>2. blk[k].page = 0 /\ blk[k].invalid = 0
        BY <2>1, <4>1 DEF DieOK
      <4> QED
        BY <1>14, <3>2, <4>2 DEF SameClass
    <3> QED
      BY <3>1, <3>2
  <2>4. ASSUME NEW k \in Blocks, ~blk2[k].free, k # die2.current PROVE blk2[k].page = PagesPerBlock
    <3>1. k # b
      BY <1>13, <2>4
    <3>2. ~blk[k].free /\ k # die.current
      BY <1>11, <1>14, <2>4, <3>1 DEF SameClass
    <3>3. blk[k].page = PagesPerBlock
      BY <2>1, <3>2 DEF DieOK
    <3> QED
      BY <1>14, <3>1, <3>3
  <2> QED
    BY <1>15, <1>17, <2>2, <2>3, <2>4 DEF DieOK
<1>19. ASSUME NEW e \in AllDies, NEW k \in Blocks, ~ (e = d /\ k = b)
       PROVE  /\ t.block[e][k].page = s.block[e][k].page
              /\ t.block[e][k].invalid = s.block[e][k].invalid
  <2>1. CASE e = d
    <3>1. k # b /\ t.block[e][k] = blk2[k] /\ s.block[e][k] = blk[k]
      BY <1>6, <1>7, <1>19, <2>1
    <3> QED
      BY <1>14, <3>1 DEF SameClass
  <2>2. CASE e # d
    BY <1>5, <1>11, <2>2 DEF OtherDies
  <2> QED
    BY <2>1, <2>2
<1>20. ASSUME NEW e \in AllDies, NEW k \in Blocks, NEW q \in Pages
       PROVE  /\ <<e, k, q>> \in Vsas
              /\ e = d /\ k = b => t.rev[<<e, k, q>>] = None /\ t.flash[<<e, k, q>>] = None
              /\ ~ (e = d /\ k = b) => /\ t.rev[<<e, k, q>>] = s.rev[<<e, k, q>>]
                                       /\ t.flash[<<e, k, q>>] = s.flash[<<e, k, q>>]
  <2>1. PICK v : v = <<e, k, q>>
    OBVIOUS
  <2>2. v \in Vsas /\ v[1] = e /\ v[2] = k
    BY <2>1, VsaIs, VsaParts
  <2>3. /\ v[1] = d /\ v[2] = b => c.rev[v] = None /\ c.flash[v] = None
        /\ ~ (v[1] = d /\ v[2] = b) => c.rev[v] = s.rev[v] /\ c.flash[v] = s.flash[v]
    BY <1>4, <2>2 DEF ClearedFields
  <2> QED
    BY <1>11, <2>1, <2>2, <2>3
<1>21. PagesOK(t)
  <2> SUFFICES ASSUME NEW e \in AllDies, NEW k \in Blocks, NEW q \in Pages
               PROVE  /\ t.flash[<<e, k, q>>] # None <=> q < t.block[e][k].page
                      /\ t.rev[<<e, k, q>>] # None <=> q < t.block[e][k].page
    BY DEF PagesOK
  <2>1. CASE e = d /\ k = b
    <3>1. ~ (q < t.block[e][k].page)
      BY <1>7, <1>13, <2>1, Sizes DEF Pages
    <3> QED
      BY <1>20, <2>1, <3>1
  <2>2. CASE ~ (e = d /\ k = b)
    <3>1. /\ s.flash[<<e, k, q>>] # None <=> q < s.block[e][k].page
          /\ s.rev[<<e, k, q>>] # None <=> q < s.block[e][k].page
      BY DEF Good, PagesOK
    <3> QED
      BY <1>19, <1>20, <2>2, <3>1
  <2> QED
    BY <2>1, <2>2
<1>22. MapOK(t)
  <2> SUFFICES ASSUME NEW l \in Lsas
               PROVE  /\ t.map[l] # None => t.rev[t.map[l]] = l /\ t.flash[t.map[l]] = l
                      /\ t.map[l] = None => \A v \in Vsas : t.flash[v] # l
    BY DEF MapOK
  <2>1. t.map[l] = s.map[l] /\ s.map[l] \in Vsas \cup {None} /\ l # None
    BY <1>1, <1>5, <1>11, MapsAre, Marks
  <2>2. /\ s.map[l] # None => s.rev[s.map[l]] = l /\ s.flash[s.map[l]] = l
        /\ s.map[l] = None => \A v \in Vsas : s.flash[v] # l
    BY DEF Good, MapOK
  <2>3. ASSUME s.map[l] # None PROVE t.rev[s.map[l]] = l /\ t.flash[s.map[l]] = l
    <3>1. PICK e \in AllDies, k \in Blocks, q \in Pages : s.map[l] = <<e, k, q>>
      BY <2>1, <2>3, VsasAre
    <3>2. Valid(s, <<e, k, q>>)
      BY <2>1, <2>2, <2>3, <3>1 DEF Valid
    <3>3. ~ (e = d /\ k = b)
      BY <3>2
    <3> QED
      BY <1>20, <2>2, <2>3, <3>1, <3>3
  <2>4. ASSUME s.map[l] = None, NEW v \in Vsas PROVE t.flash[v] # l
    <3>1. PICK e \in AllDies, k \in Blocks, q \in Pages : v = <<e, k, q>>
      BY VsasAre
    <3> QED
      BY <1>20, <2>1, <2>2, <2>4, <3>1
  <2> QED
    BY <2>1, <2>3, <2>4
<1>23. CountOK(t, NoneOut)
  <2> SUFFICES ASSUME NEW e \in AllDies, NEW k \in Blocks
               PROVE  t.block[e][k].invalid = Cardinality(InvalidPages(t, e, k))
    BY DEF CountOK
  <2>1. CASE e = d /\ k = b
    <3>1. t.block[e][k].page = 0 /\ t.block[e][k].invalid = 0
      BY <1>7, <1>13, <2>1
    <3>2. \A q \in Pages : ~ (q < 0)
      BY Sizes DEF Pages
    <3>3. InvalidPages(t, e, k) = {}
      BY <3>1, <3>2 DEF InvalidPages
    <3> QED
      BY <3>1, <3>3, FS_EmptySet
  <2>2. CASE ~ (e = d /\ k = b)
    <3>1. k \notin OutOf(d, b)[e]
      BY <2>2 DEF OutOf
    <3>2. s.block[e][k].invalid = Cardinality(InvalidPages(s, e, k))
      BY <3>1 DEF Good, CountOK
    <3>3. ASSUME NEW q \in Pages PROVE Valid(t, <<e, k, q>>) <=> Valid(s, <<e, k, q>>)
      BY <1>5, <1>11, <1>20, <2>2 DEF Valid
    <3>4. InvalidPages(t, e, k) = InvalidPages(s, e, k)
      BY <1>19, <2>2, <3>3 DEF InvalidPages
    <3> QED
      BY <1>19, <2>2, <3>2, <3>4
  <2> QED
    BY <2>1, <2>2
<1>24. OtherDies(s, t, d)
  BY <1>5, <1>11 DEF OtherDies
<1>25. ASSUME NEW e \in AllDies PROVE DieOK(t.block[e], t.die[e], t.victims[e], NoneOut[e])
  <2>1. CASE e = d
    <3>1. NoneOut[e] = {}
      BY DEF NoneOut
    <3> QED
      BY <1>7, <1>11, <1>18, <2>1, <3>1
  <2>2. CASE e # d
    <3>1. \A x \in AllDies \ {d} : NoneOut[x] = OutOf(d, b)[x]
      BY DEF OutOf, NoneOut
    <3> QED
      BY <1>24, <2>2, <3>1, OthersSame
  <2> QED
    BY <2>1, <2>2
<1>26. Good(t, NoneOut)
  BY <1>11, <1>21, <1>22, <1>23, <1>25 DEF Good
<1>27. ErasedFields(s, d, b, t)
  <2>1. \A k \in Blocks \ {b} : t.block[d][k].page = s.block[d][k].page
    BY <1>19
  <2> QED
    BY <1>5, <1>6, <1>7, <1>11, <1>24, <2>1 DEF ErasedFields
<1> QED
  BY <1>26, <1>27

\* A slice is dropped and its block has one invalid slice more.
Dropped(s, d, b, l) == [s EXCEPT !.block[d][b].invalid = @ + 1, !.map[l] = None]

DroppedFields(s, d, b, l, t) ==
    /\ IsMaps(t) /\ t.failed = s.failed /\ t.die = s.die /\ t.victims = s.victims
    /\ t.rev = s.rev /\ t.flash = s.flash /\ t.map = [s.map EXCEPT ![l] = None]
    /\ t.block[d][b] = [s.block[d][b] EXCEPT !.invalid = s.block[d][b].invalid + 1]
    /\ \A k \in Blocks \ {b} : t.block[d][k] = s.block[d][k]
    /\ \A e \in AllDies \ {d} : t.block[e] = s.block[e]

LEMMA DroppedIs ==
    ASSUME NEW s, IsMaps(s), NEW d \in AllDies, NEW b \in Blocks,
           s.block[d][b].invalid < PagesPerBlock, NEW l \in Lsas, NEW t, t = Dropped(s, d, b, l)
    PROVE  DroppedFields(s, d, b, l, t)
<1> DEFINE rec == [s.block[d][b] EXCEPT !.invalid = s.block[d][b].invalid + 1]
           blk == [s.block[d] EXCEPT ![b] = rec]
<1>1. /\ s.map \in [Lsas -> Vsas \cup {None}] /\ s.block \in [AllDies -> [Blocks -> BlockRec]]
  BY MapsAre
<1>2. rec \in BlockRec
  <2>1. s.block[d][b] \in BlockRec /\ s.block[d][b].invalid \in 0 .. PagesPerBlock
    BY BlockIs
  <2>2. s.block[d][b].invalid + 1 \in 0 .. PagesPerBlock
    BY <2>1, Sizes
  <2> QED
    BY <2>1, <2>2 DEF BlockRec
<1>3. t.map = [s.map EXCEPT ![l] = None]
  BY <1>1 DEF Dropped, IsMaps
<1>4. /\ DOMAIN t = DOMAIN s /\ t = [x \in DOMAIN s |-> t[x]]
      /\ t.die = s.die /\ t.victims = s.victims /\ t.failed = s.failed
      /\ t.rev = s.rev /\ t.flash = s.flash
  BY DEF Dropped, IsMaps
<1>5. t.block = [s.block EXCEPT ![d] = blk]
  BY <1>1 DEF Dropped, IsMaps
<1> HIDE DEF rec
<1>6. /\ blk \in [Blocks -> BlockRec] /\ blk[b] = rec
      /\ \A k \in Blocks \ {b} : blk[k] = s.block[d][k]
  BY <1>1, <1>2
<1> HIDE DEF blk
<1>7. /\ t.block \in [AllDies -> [Blocks -> BlockRec]] /\ t.block[d] = blk
      /\ \A e \in AllDies \ {d} : t.block[e] = s.block[e]
  BY <1>1, <1>5, <1>6
<1>8. t.map \in [Lsas -> Vsas \cup {None}]
  BY <1>1, <1>3
<1>9. IsMaps(t)
  BY <1>4, <1>7, <1>8, MapsAre, MapsFrom
<1> QED
  BY <1>3, <1>4, <1>6, <1>7, <1>9 DEF DroppedFields, rec

InvalidatedFields(s, d, b, l, t) ==
    /\ IsMaps(t) /\ t.failed = s.failed /\ t.die[d] = s.die[d] /\ OtherDies(s, t, d)
    /\ t.rev = s.rev /\ t.flash = s.flash /\ t.map = [s.map EXCEPT ![l] = None]
    /\ DieOK(t.block[d], t.die[d], t.victims[d], {})
    /\ t.block[d][b].invalid = s.block[d][b].invalid + 1
    /\ \A k \in Blocks \ {b} : t.block[d][k].invalid = s.block[d][k].invalid
    /\ \A k \in Blocks : t.block[d][k].page = s.block[d][k].page

\* InvalidateOldVsa moves the block of a mapped slice to the next victim list.
LEMMA InvalidatedIs ==
    ASSUME NEW s, IsMaps(s), NEW d \in AllDies, NEW b \in Blocks, NEW q \in Pages, NEW l \in Lsas,
           DieOK(s.block[d], s.die[d], s.victims[d], {}),
           s.map[l] = <<d, b, q>>, s.rev[<<d, b, q>>] = l,
           ~s.block[d][b].free, s.block[d][b].invalid < PagesPerBlock,
           NEW t, t = InvalidateOldVsa(s, l)
    PROVE  InvalidatedFields(s, d, b, l, t)
<1>1. PICK c : c = SelectiveGetFromGcVictimList(s, d, b)
  OBVIOUS
<1>2. PICK u : u = Dropped(c, d, b, l)
  OBVIOUS
<1>3. t = PutToGcVictimList(u, d, b)
  <2>1. PICK v : v = <<d, b, q>>
    OBVIOUS
  <2>2. v \in Vsas
    BY <2>1, VsaIs
  <2>3. v # None
    BY <2>2, Marks
  <2>4. v[1] = d /\ v[2] = b
    BY <2>1
  <2>5. s.map[l] = v /\ s.rev[v] = l
    BY <2>1
  <2> QED
    BY <1>1, <1>2, <2>3, <2>4, <2>5 DEF InvalidateOldVsa, Dropped
<1>4. PICK n, p, i : n = s.block[d][b].next /\ p = s.block[d][b].prev /\ i = s.block[d][b].invalid
  OBVIOUS
<1>5. PICK blk, die, vic : blk = s.block[d] /\ die = s.die[d] /\ vic = s.victims[d]
  OBVIOUS
<1>6. PICK blk1, vic1 : blk1 = c.block[d] /\ vic1 = c.victims[d]
  OBVIOUS
<1>7. PICK blk2, vic2 : blk2 = t.block[d] /\ vic2 = t.victims[d]
  OBVIOUS
<1>8. i \in 0 .. PagesPerBlock /\ i + 1 \in 1 .. PagesPerBlock /\ i # i + 1
  <2>1. i \in 0 .. PagesPerBlock
    BY <1>4, BlockIs
  <2> QED
    BY <1>4, <2>1, Sizes
<1>9. ListsOK(blk, die, vic, {}) /\ ~blk[b].free /\ blk[b].invalid = i
  BY <1>4, <1>5 DEF DieOK
<1>10. p = n => p = None
  <2>1. CASE i = 0
    <3>1. blk[b].prev = None
      BY <1>9, <2>1 DEF ListsOK
    <3> QED
      BY <1>4, <1>5, <3>1
  <2>2. CASE i # 0
    <3>1. b \in InList(blk, {}, i)
      BY <1>9, <2>2 DEF InList
    <3>2. Listing(InList(blk, {}, i), blk, ListAt(die, vic, i))
      BY <1>8, <1>9 DEF ListsOK
    <3>3. blk[b].prev = blk[b].next => blk[b].prev = None
      BY <3>1, <3>2, NeighboursDiffer
    <3> QED
      BY <1>4, <1>5, <3>3
  <2> QED
    BY <2>1, <2>2
<1>11. SelectiveFields(s, d, b, n, p, i, c)
  BY <1>1, <1>4, <1>10, SelectiveIs
<1>12. /\ IsMaps(c) /\ c.map = s.map /\ c.rev = s.rev /\ c.flash = s.flash /\ c.failed = s.failed
       /\ OtherDies(s, c, d) /\ c.die[d] = die
       /\ \A j \in 0 .. PagesPerBlock : j # i => vic1[j] = vic[j]
       /\ vic1[i].head = IF p = None THEN n ELSE vic[i].head
       /\ vic1[i].tail = IF n = None THEN p ELSE vic[i].tail
       /\ \A k \in Blocks :
            blk1[k] = IF k = p THEN [blk[k] EXCEPT !.next = n]
                      ELSE IF k = n THEN [blk[k] EXCEPT !.prev = p]
                      ELSE blk[k]
  BY <1>5, <1>6, <1>11 DEF SelectiveFields, SameSlices
<1>13. ASSUME NEW k \in Blocks
       PROVE  SameClass(blk, blk1, k) /\ Unlinks(blk, b, blk1, k) /\ blk1[k].page = blk[k].page
  <2>1. blk[k] \in BlockRec /\ k # None /\ n = blk[b].next /\ p = blk[b].prev
    BY <1>4, <1>5, BlockIs, Marks
  <2>2. CASE k = p
    <3>1. blk1[k] = [blk[k] EXCEPT !.next = n]
      BY <1>12, <2>2
    <3>2. /\ blk1[k].free = blk[k].free /\ blk1[k].invalid = blk[k].invalid
          /\ blk1[k].page = blk[k].page /\ blk1[k].next = n /\ blk1[k].prev = blk[k].prev
      BY <2>1, <3>1 DEF BlockRec
    <3>3. k # n
      BY <1>10, <2>1, <2>2
    <3> QED
      BY <2>1, <2>2, <3>2, <3>3 DEF SameClass, Unlinks
  <2>3. CASE k = n /\ k # p
    <3>1. blk1[k] = [blk[k] EXCEPT !.prev = p]
      BY <1>12, <2>3
    <3>2. /\ blk1[k].free = blk[k].free /\ blk1[k].invalid = blk[k].invalid
          /\ blk1[k].page = blk[k].page /\ blk1[k].prev = p /\ blk1[k].next = blk[k].next
      BY <2>1, <3>1 DEF BlockRec
    <3> QED
      BY <2>1, <2>3, <3>2 DEF SameClass, Unlinks
  <2>4. CASE k # n /\ k # p
    <3>1. blk1[k] = blk[k]
      BY <1>12, <2>4
    <3> QED
      BY <2>1, <2>4, <3>1 DEF SameClass, Unlinks
  <2> QED
    BY <2>2, <2>3, <2>4
<1>14. ListsOK(blk1, die, vic1, {b})
  <2>1. TakenFrom(vic[i], blk, b, vic1[i])
    <3>1. n = blk[b].next /\ p = blk[b].prev
      BY <1>4, <1>5
    <3> QED
      BY <1>12, <3>1 DEF TakenFrom
  <2>2. \A k \in Blocks : SameClass(blk, blk1, k)
    BY <1>13
  <2>3. \A k \in Blocks \ {b} : Unlinks(blk, b, blk1, k)
    BY <1>13
  <2>4. \A j \in 1 .. PagesPerBlock : j # blk[b].invalid => vic1[j] = vic[j]
    BY <1>9, <1>12
  <2>5. b \in Blocks \ {} /\ ~blk[b].free /\ blk[b].invalid \in 0 .. PagesPerBlock
    BY <1>8, <1>9
  <2>6. blk[b].invalid # 0 => TakenFrom(vic[blk[b].invalid], blk, b, vic1[blk[b].invalid])
    BY <1>9, <2>1
  <2>7. ListsOK(blk, die, vic, {})
    BY <1>9
  <2>8. ListsOK(blk1, die, vic1, {} \cup {b})
    BY <2>2, <2>3, <2>4, <2>5, <2>6, <2>7, TakeVictim
  <2>9. {} \cup {b} = {b}
    OBVIOUS
  <2> QED
    BY <2>8, <2>9
<1>15. blk1[b].invalid = i /\ ~blk1[b].free
  BY <1>9, <1>13 DEF SameClass
<1>16. DroppedFields(c, d, b, l, u)
  <2>1. c.block[d][b].invalid < PagesPerBlock
    BY <1>4, <1>6, <1>15
  <2> QED
    BY <1>2, <1>12, <2>1, DroppedIs
<1>17. /\ IsMaps(u) /\ u.failed = s.failed /\ u.die = c.die /\ u.victims = c.victims
       /\ u.rev = s.rev /\ u.flash = s.flash /\ u.map = [s.map EXCEPT ![l] = None]
       /\ u.block[d][b] = [blk1[b] EXCEPT !.invalid = i + 1]
       /\ \A k \in Blocks \ {b} : u.block[d][k] = blk1[k]
       /\ \A e \in AllDies \ {d} : u.block[e] = c.block[e]
  BY <1>6, <1>12, <1>15, <1>16 DEF DroppedFields
<1>18. PICK tail : tail = vic1[i + 1].tail
  OBVIOUS
<1>19. tail # b /\ tail \in Links
  <2>1. i + 1 \in 0 .. PagesPerBlock /\ i + 1 # 0
    BY <1>8
  <2>2. Listing(InList(blk1, {b}, i + 1), blk1, ListAt(die, vic1, i + 1))
    BY <1>14, <2>1 DEF ListsOK
  <2>3. tail # None => tail \in InList(blk1, {b}, i + 1)
    BY <1>18, <2>1, <2>2 DEF Listing, IsList, ListAt
  <2>4. b # None
    BY Marks
  <2> QED
    BY <2>3, <2>4 DEF InList, Links
<1>20. blk1[b] \in BlockRec
  BY <1>6, <1>12, BlockIs
<1>21. u.block[d][b].invalid = i + 1
  BY <1>17, <1>20 DEF BlockRec
<1>22. PutVictimFields(u, d, b, i + 1, t)
  <2>1. u.victims[d][i + 1].tail # b
    BY <1>6, <1>17, <1>18, <1>19
  <2> QED
    BY <1>3, <1>17, <1>21, <2>1, PutVictimIs
<1>23. PICK blku : blku = u.block[d]
  OBVIOUS
<1>24. /\ IsMaps(t) /\ t.map = u.map /\ t.rev = u.rev /\ t.flash = u.flash /\ t.failed = u.failed
       /\ OtherDies(u, t, d) /\ t.die[d] = die
       /\ \A j \in 0 .. PagesPerBlock : j # i + 1 => vic2[j] = vic1[j]
       /\ vic2[i + 1] = Listed(vic1[i + 1], b)
       /\ blk2 = Linked(blku, tail, b)
  BY <1>6, <1>7, <1>12, <1>17, <1>18, <1>22, <1>23 DEF PutVictimFields, SameSlices
<1>25. LinkedFields(blku, tail, b, blk2)
  <2>1. blku \in [Blocks -> BlockRec]
    BY <1>17, <1>23, DieIs
  <2>2. LinkedFields(blku, tail, b, Linked(blku, tail, b))
    BY <1>19, <2>1, LinkedIs
  <2> QED
    BY <1>24, <2>2
<1>26. /\ blk2[b].free = blk1[b].free /\ blk2[b].invalid = i + 1 /\ blk2[b].page = blk1[b].page
       /\ blk2[b].prev = tail /\ blk2[b].next = None
  <2>1. blku[b] = [blk1[b] EXCEPT !.invalid = i + 1] /\ blku[b] \in BlockRec
    BY <1>17, <1>23, BlockIs
  <2>2. blku[b].free = blk1[b].free /\ blku[b].invalid = i + 1 /\ blku[b].page = blk1[b].page
    BY <1>20, <2>1 DEF BlockRec
  <2>3. blk2[b] = [blku[b] EXCEPT !.prev = tail, !.next = None]
    BY <1>25 DEF LinkedFields
  <2> QED
    BY <2>1, <2>2, <2>3 DEF BlockRec
<1>27. ASSUME NEW k \in Blocks \ {b}
       PROVE  /\ SameClass(blk1, blk2, k) /\ LinksTo(blk1, tail, b, blk2, k)
              /\ blk2[k].page = blk1[k].page
  <2>1. blk1[k] \in BlockRec /\ blku[k] = blk1[k]
    BY <1>6, <1>12, <1>17, <1>23, BlockIs
  <2>2. CASE k = tail
    <3>1. blk2[k] = [blk1[k] EXCEPT !.next = b]
      BY <1>25, <2>1, <2>2 DEF LinkedFields
    <3>2. /\ blk2[k].free = blk1[k].free /\ blk2[k].invalid = blk1[k].invalid
          /\ blk2[k].page = blk1[k].page /\ blk2[k].prev = blk1[k].prev /\ blk2[k].next = b
      BY <2>1, <3>1 DEF BlockRec
    <3> QED
      BY <2>2, <3>2 DEF SameClass, LinksTo
  <2>3. CASE k # tail
    <3>1. blk2[k] = blk1[k]
      BY <1>25, <2>1, <2>3 DEF LinkedFields
    <3> QED
      BY <2>3, <3>1 DEF SameClass, LinksTo
  <2> QED
    BY <2>2, <2>3
<1>28. ListsOK(blk2, die, vic2, {})
  <2>1. PICK j : j = i + 1
    OBVIOUS
  <2>2. j \in 0 .. PagesPerBlock /\ j # 0
    BY <1>8, <2>1
  <2>3. ListAt(die, vic1, j) = vic1[j] /\ ListAt(die, vic2, j) = vic2[j]
    BY <2>2 DEF ListAt
  <2>4. PutIn(ListAt(die, vic1, j), b, ListAt(die, vic2, j))
    BY <1>24, <2>1, <2>3 DEF PutIn, Listed
  <2>5. ASSUME NEW x \in 0 .. PagesPerBlock, x # j PROVE ListAt(die, vic2, x) = ListAt(die, vic1, x)
    BY <1>24, <2>1, <2>5 DEF ListAt
  <2>6. ListAt(die, vic1, j).tail = tail
    BY <1>18, <2>1, <2>3
  <2>7. \A k \in Blocks \ {b} : /\ SameClass(blk1, blk2, k)
                               /\ LinksTo(blk1, ListAt(die, vic1, j).tail, b, blk2, k)
    BY <1>27, <2>6
  <2>8. blk2[b].prev = ListAt(die, vic1, j).tail /\ blk2[b].next = None
    BY <1>26, <2>6
  <2>9. IF j = 0 THEN blk2[b].free ELSE ~blk2[b].free /\ blk2[b].invalid = j
    BY <1>15, <1>26, <2>1, <2>2
  <2>10. PICK o : o = {b}
    OBVIOUS
  <2>11. ListsOK(blk1, die, vic1, o) /\ b \in o
    BY <1>14, <2>10
  <2>12. ListsOK(blk2, die, vic2, o \ {b})
    BY <2>2, <2>4, <2>5, <2>7, <2>8, <2>9, <2>11, PutBack
  <2> QED
    BY <2>10, <2>12
<1>29. ASSUME NEW k \in Blocks
       PROVE  /\ blk2[k].free <=> blk[k].free
              /\ blk2[k].page = blk[k].page
              /\ k # b => blk2[k].invalid = blk[k].invalid
  <2>1. CASE k = b
    BY <1>13, <1>26, <2>1 DEF SameClass
  <2>2. CASE k # b
    BY <1>13, <1>27, <2>2 DEF SameClass
  <2> QED
    BY <2>1, <2>2
<1>30. DieOK(blk2, die, vic2, {})
  <2>1. DieOK(blk, die, vic, {}) /\ die.current \in Links
    BY <1>5, DieIs
  <2>2. Free(blk2) = Free(blk)
    BY <1>29 DEF Free
  <2>3. die.cnt = Cardinality(Free(blk2))
    BY <2>1, <2>2 DEF DieOK
  <2>4. die.current # None => ~blk2[die.current].free
    BY <1>29, <2>1 DEF DieOK, Links
  <2>5. ASSUME NEW k \in Blocks, blk2[k].free PROVE blk2[k].page = 0 /\ blk2[k].invalid = 0
    <3>1. blk[k].free /\ k # b
      BY <1>9, <1>29, <2>5
    <3> QED
      BY <1>29, <2>1, <3>1 DEF DieOK
  <2>6. ASSUME NEW k \in Blocks, ~blk2[k].free, k # die.current PROVE blk2[k].page = PagesPerBlock
    BY <1>29, <2>1, <2>6 DEF DieOK
  <2> QED
    BY <1>28, <2>3, <2>4, <2>5, <2>6 DEF DieOK
<1>31. OtherDies(s, t, d)
  BY <1>12, <1>17, <1>24 DEF OtherDies
<1> QED
  <2>1. /\ IsMaps(t) /\ t.failed = s.failed /\ t.die[d] = s.die[d]
        /\ t.rev = s.rev /\ t.flash = s.flash /\ t.map = [s.map EXCEPT ![l] = None]
    BY <1>5, <1>17, <1>24
  <2>2. DieOK(t.block[d], t.die[d], t.victims[d], {})
    BY <1>7, <1>24, <1>30
  <2>3. t.block[d][b].invalid = s.block[d][b].invalid + 1
    BY <1>4, <1>7, <1>26
  <2>4. \A k \in Blocks \ {b} : t.block[d][k].invalid = s.block[d][k].invalid
    BY <1>5, <1>7, <1>29
  <2>5. \A k \in Blocks : t.block[d][k].page = s.block[d][k].page
    BY <1>5, <1>7, <1>29
  <2> QED
    BY <1>31, <2>1, <2>2, <2>3, <2>4, <2>5 DEF InvalidatedFields

OutdatedFields(s, l, t) ==
    /\ IsMaps(t) /\ t.failed = s.failed /\ t.die = s.die /\ t.victims = s.victims
    /\ t.block = s.block /\ t.map = s.map /\ t.rev = s.rev
    /\ \A v \in Vsas : t.flash[v] = IF s.flash[v] = l THEN "stale" ELSE s.flash[v]

LEMMA OutdatedIs ==
    ASSUME NEW s, IsMaps(s), NEW l \in Lsas, NEW t, t = Outdated(s, l)
    PROVE  OutdatedFields(s, l, t)
<1>1. s.flash \in [Vsas -> Lsas \cup {None, "stale"}]
  BY MapsAre
<1>2. t.flash = [v \in Vsas |-> IF s.flash[v] = l THEN "stale" ELSE s.flash[v]]
  <2>1. DOMAIN s.flash = Vsas
    BY <1>1
  <2> QED
    BY <2>1 DEF Outdated, IsMaps
<1>3. /\ DOMAIN t = DOMAIN s /\ t = [x \in DOMAIN s |-> t[x]]
      /\ t.die = s.die /\ t.victims = s.victims /\ t.failed = s.failed
      /\ t.block = s.block /\ t.map = s.map /\ t.rev = s.rev
  BY DEF Outdated, IsMaps
<1>4. t.flash \in [Vsas -> Lsas \cup {None, "stale"}]
  BY <1>1, <1>2
<1>5. IsMaps(t)
  BY <1>3, <1>4, MapsAre, MapsFrom
<1> QED
  BY <1>2, <1>3, <1>5 DEF OutdatedFields

LEMMA InvalidPagesFinite ==
    ASSUME NEW s, NEW d, NEW b
    PROVE  /\ IsFiniteSet(InvalidPages(s, d, b)) /\ Cardinality(InvalidPages(s, d, b)) \in Nat
           /\ InvalidPages(s, d, b) \subseteq Pages
<1>1. InvalidPages(s, d, b) \subseteq Pages
  BY DEF InvalidPages
<1> QED
  BY <1>1, BlocksFinite, FS_Subset, FS_CardinalityType

\* A block with a valid page has fewer invalid slices than pages.
LEMMA CountBelow ==
    ASSUME NEW s, NEW d, NEW b, NEW q \in Pages, q \notin InvalidPages(s, d, b)
    PROVE  Cardinality(InvalidPages(s, d, b)) < PagesPerBlock
<1>1. PICK I : I = InvalidPages(s, d, b)
  OBVIOUS
<1>2. IsFiniteSet(I) /\ Cardinality(I) \in Nat /\ I \subseteq Pages /\ q \notin I
  BY <1>1, InvalidPagesFinite
<1>3. IsFiniteSet(I \cup {q}) /\ Cardinality(I \cup {q}) = Cardinality(I) + 1
  BY <1>2, FS_AddElement
<1>4. IsFiniteSet(Pages) /\ Cardinality(Pages) = PagesPerBlock /\ I \cup {q} \subseteq Pages
  BY <1>2, BlocksFinite
<1>5. Cardinality(I \cup {q}) <= Cardinality(Pages)
  BY <1>4, FS_Subset
<1> QED
  BY <1>1, <1>2, <1>3, <1>4, <1>5, Sizes

\* A mapped slice is in a block that is not free and has a valid page.
LEMMA MappedIs ==
    ASSUME NEW s, NEW out, Good(s, out), NEW l \in Lsas, s.map[l] # None
    PROVE  \E d \in AllDies, b \in Blocks, q \in Pages :
              /\ s.map[l] = <<d, b, q>> /\ s.rev[<<d, b, q>>] = l
              /\ Valid(s, <<d, b, q>>)
              /\ q < s.block[d][b].page /\ ~s.block[d][b].free
              /\ q \notin InvalidPages(s, d, b)
<1>1. IsMaps(s) /\ MapOK(s) /\ PagesOK(s)
  BY DEF Good
<1>2. s.map[l] \in Vsas
  BY <1>1, MapsAre
<1>3. PICK d \in AllDies, b \in Blocks, q \in Pages : s.map[l] = <<d, b, q>>
  BY <1>2, VsasAre
<1>4. s.rev[<<d, b, q>>] = l /\ l # None
  BY <1>1, <1>3, Marks DEF MapOK
<1>5. q < s.block[d][b].page
  BY <1>1, <1>4 DEF PagesOK
<1>6. Valid(s, <<d, b, q>>)
  BY <1>3, <1>4 DEF Valid
<1>7. ~s.block[d][b].free
  <2>1. ~ (q < 0)
    BY Sizes DEF Pages
  <2>2. DieOK(s.block[d], s.die[d], s.victims[d], out[d])
    BY DEF Good
  <2> QED
    BY <1>5, <2>1, <2>2 DEF DieOK
<1>8. q \notin InvalidPages(s, d, b)
  BY <1>6 DEF InvalidPages
<1> QED
  BY <1>3, <1>4, <1>5, <1>6, <1>7, <1>8

\* A dirty entry with slice l is about to be written.
InvalidatedOK(s, l, t) ==
    /\ Good(t, NoneOut) /\ t.map[l] = None /\ t.failed = s.failed
    /\ \A e \in AllDies : t.die[e] = s.die[e]
    /\ \A e \in AllDies, k \in Blocks : t.block[e][k].page = s.block[e][k].page

LEMMA InvalidatedGood ==
    ASSUME NEW s, Good(s, NoneOut), NEW l \in Lsas, NEW t, t = InvalidateOldVsa(Outdated(s, l), l)
    PROVE  InvalidatedOK(s, l, t)
<1>1. PICK o : o = Outdated(s, l)
  OBVIOUS
<1>2. IsMaps(s) /\ PagesOK(s) /\ CountOK(s, NoneOut) /\ MapOK(s)
  BY DEF Good
<1>3. OutdatedFields(s, l, o)
  BY <1>1, <1>2, OutdatedIs
<1>4. /\ IsMaps(o) /\ o.failed = s.failed /\ o.die = s.die /\ o.victims = s.victims
      /\ o.block = s.block /\ o.map = s.map /\ o.rev = s.rev
      /\ \A v \in Vsas : o.flash[v] = IF s.flash[v] = l THEN "stale" ELSE s.flash[v]
  BY <1>3 DEF OutdatedFields
<1>5. l # None /\ "stale" # None
  BY Marks
<1>6. \A x \in Lsas : x # "stale"
  BY Marks
<1>7. ASSUME NEW v \in Vsas
      PROVE  /\ o.flash[v] # None <=> s.flash[v] # None
             /\ o.flash[v] # l
             /\ \A x \in Lsas \ {l} : o.flash[v] = x <=> s.flash[v] = x
  BY <1>4, <1>5, <1>6
<1>8. CASE s.map[l] = None
  <2>1. t = o
    BY <1>1, <1>4, <1>8 DEF InvalidateOldVsa
  <2>2. PagesOK(o)
    <3> SUFFICES ASSUME NEW e \in AllDies, NEW k \in Blocks, NEW q \in Pages
                 PROVE  /\ o.flash[<<e, k, q>>] # None <=> q < o.block[e][k].page
                        /\ o.rev[<<e, k, q>>] # None <=> q < o.block[e][k].page
      BY DEF PagesOK
    <3>1. <<e, k, q>> \in Vsas
      BY VsaIs
    <3>2. /\ s.flash[<<e, k, q>>] # None <=> q < s.block[e][k].page
          /\ s.rev[<<e, k, q>>] # None <=> q < s.block[e][k].page
      BY <1>2 DEF PagesOK
    <3>3. o.block[e][k].page = s.block[e][k].page /\ o.rev[<<e, k, q>>] = s.rev[<<e, k, q>>]
      BY <1>4
    <3> QED
      BY <1>7, <3>1, <3>2, <3>3
  <2>3. MapOK(o)
    <3> SUFFICES ASSUME NEW x \in Lsas
                 PROVE  /\ o.map[x] # None => o.rev[o.map[x]] = x /\ o.flash[o.map[x]] = x
                        /\ o.map[x] = None => \A v \in Vsas : o.flash[v] # x
      BY DEF MapOK
    <3>1. CASE x = l
      BY <1>4, <1>7, <1>8, <3>1
    <3>2. CASE x # l
      <4>1. s.map[x] # None => s.map[x] \in Vsas
        BY <1>2, MapsAre
      <4> QED
        BY <1>2, <1>4, <1>7, <3>2, <4>1 DEF MapOK
    <3> QED
      BY <3>1, <3>2
  <2>4. CountOK(o, NoneOut)
    <3> SUFFICES ASSUME NEW e \in AllDies, NEW k \in Blocks, k \notin NoneOut[e]
                 PROVE  o.block[e][k].invalid = Cardinality(InvalidPages(o, e, k))
      BY DEF CountOK
    <3>1. InvalidPages(o, e, k) = InvalidPages(s, e, k)
      BY <1>4 DEF InvalidPages, Valid
    <3> QED
      BY <1>2, <1>4, <3>1 DEF CountOK
  <2>5. ASSUME NEW e \in AllDies PROVE DieOK(o.block[e], o.die[e], o.victims[e], NoneOut[e])
    BY <1>4 DEF Good
  <2>6. Good(o, NoneOut)
    BY <1>4, <2>2, <2>3, <2>4, <2>5 DEF Good
  <2> QED
    BY <1>4, <1>8, <2>1, <2>6 DEF InvalidatedOK
<1>9. CASE s.map[l] # None
  <2>1. PICK d \in AllDies, b \in Blocks, q \in Pages :
              /\ s.map[l] = <<d, b, q>> /\ s.rev[<<d, b, q>>] = l
              /\ Valid(s, <<d, b, q>>)
              /\ q < s.block[d][b].page /\ ~s.block[d][b].free
              /\ q \notin InvalidPages(s, d, b)
    BY <1>9, MappedIs
  <2>2. PICK v : v = <<d, b, q>>
    OBVIOUS
  <2>3. v \in Vsas /\ s.map[l] = v /\ s.rev[v] = l
    BY <2>1, <2>2, VsaIs
  <2>4. s.block[d][b].invalid = Cardinality(InvalidPages(s, d, b))
    BY <1>2 DEF CountOK, NoneOut
  <2>5. s.block[d][b].invalid < PagesPerBlock
    BY <2>1, <2>4, CountBelow
  <2>6. InvalidatedFields(o, d, b, l, t)
    <3>1. DieOK(o.block[d], o.die[d], o.victims[d], {})
      BY <1>4 DEF Good, NoneOut
    <3>2. /\ o.map[l] = <<d, b, q>> /\ o.rev[<<d, b, q>>] = l
          /\ ~o.block[d][b].free /\ o.block[d][b].invalid < PagesPerBlock
      BY <1>4, <2>1, <2>5
    <3>3. t = InvalidateOldVsa(o, l)
      BY <1>1
    <3> QED
      BY <1>4, <3>1, <3>2, <3>3, InvalidatedIs
  <2>7. /\ IsMaps(t) /\ t.failed = s.failed /\ t.die[d] = s.die[d] /\ OtherDies(s, t, d)
        /\ t.rev = s.rev /\ t.flash = o.flash /\ t.map = [s.map EXCEPT ![l] = None]
        /\ DieOK(t.block[d], t.die[d], t.victims[d], {})
        /\ t.block[d][b].invalid = s.block[d][b].invalid + 1
        /\ \A k \in Blocks \ {b} : t.block[d][k].invalid = s.block[d][k].invalid
        /\ \A k \in Blocks : t.block[d][k].page = s.block[d][k].page
    BY <1>4, <2>6 DEF InvalidatedFields, OtherDies
  <2>8. t.map[l] = None /\ \A x \in Lsas \ {l} : t.map[x] = s.map[x]
    <3>1. s.map \in [Lsas -> Vsas \cup {None}]
      BY <1>2, MapsAre
    <3> QED
      BY <2>7, <3>1
  <2>9. ASSUME NEW e \in AllDies, NEW k \in Blocks
        PROVE  /\ t.block[e][k].page = s.block[e][k].page
               /\ ~ (e = d /\ k = b) => t.block[e][k].invalid = s.block[e][k].invalid
    <3>1. CASE e = d
      BY <2>7, <3>1
    <3>2. CASE e # d
      BY <2>7, <3>2 DEF OtherDies
    <3> QED
      BY <3>1, <3>2
  <2>10. PagesOK(t)
    <3> SUFFICES ASSUME NEW e \in AllDies, NEW k \in Blocks, NEW r \in Pages
                 PROVE  /\ t.flash[<<e, k, r>>] # None <=> r < t.block[e][k].page
                        /\ t.rev[<<e, k, r>>] # None <=> r < t.block[e][k].page
      BY DEF PagesOK
    <3>1. <<e, k, r>> \in Vsas
      BY VsaIs
    <3>2. /\ s.flash[<<e, k, r>>] # None <=> r < s.block[e][k].page
          /\ s.rev[<<e, k, r>>] # None <=> r < s.block[e][k].page
      BY <1>2 DEF PagesOK
    <3> QED
      BY <1>7, <2>7, <2>9, <3>1, <3>2
  <2>11. MapOK(t)
    <3> SUFFICES ASSUME NEW x \in Lsas
                 PROVE  /\ t.map[x] # None => t.rev[t.map[x]] = x /\ t.flash[t.map[x]] = x
                        /\ t.map[x] = None => \A w \in Vsas : t.flash[w] # x
      BY DEF MapOK
    <3>1. CASE x = l
      BY <1>7, <2>7, <2>8, <3>1
    <3>2. CASE x # l
      <4>1. s.map[x] # None => s.map[x] \in Vsas
        BY <1>2, MapsAre
      <4> QED
        BY <1>2, <1>7, <2>7, <2>8, <3>2, <4>1 DEF MapOK
    <3> QED
      BY <3>1, <3>2
  <2>12. ASSUME NEW w \in Vsas, w # v PROVE Valid(t, w) <=> Valid(s, w)
    <3>1. t.rev[w] = s.rev[w] /\ w # None /\ s.rev[w] \in Lsas \cup {None}
      BY <1>2, <2>7, MapsAre, Marks
    <3>2. CASE s.rev[w] = l
      BY <2>3, <2>8, <2>12, <3>1, <3>2 DEF Valid
    <3>3. CASE s.rev[w] # l
      BY <2>8, <3>1, <3>3 DEF Valid
    <3> QED
      BY <3>2, <3>3
  <2>13. ~Valid(t, v)
    <3>1. v # None
      BY <2>3, Marks
    <3> QED
      BY <2>3, <2>7, <2>8, <3>1 DEF Valid
  <2>14. CountOK(t, NoneOut)
    <3> SUFFICES ASSUME NEW e \in AllDies, NEW k \in Blocks
                 PROVE  t.block[e][k].invalid = Cardinality(InvalidPages(t, e, k))
      BY DEF CountOK
    <3>1. s.block[e][k].invalid = Cardinality(InvalidPages(s, e, k))
      BY <1>2 DEF CountOK, NoneOut
    <3>2. ASSUME NEW r \in Pages, <<e, k, r>> # v
          PROVE  r \in InvalidPages(t, e, k) <=> r \in InvalidPages(s, e, k)
      <4>1. Valid(t, <<e, k, r>>) <=> Valid(s, <<e, k, r>>)
        BY <2>12, <3>2, VsaIs
      <4> QED
        BY <2>9, <4>1 DEF InvalidPages
    <3>3. InvalidPages(t, e, k) \subseteq Pages /\ InvalidPages(s, e, k) \subseteq Pages
      BY DEF InvalidPages
    <3>4. CASE e = d /\ k = b
      <4>1. \A r \in Pages : <<e, k, r>> # v <=> r # q
        BY <2>2, <3>4
      <4>2. q \in InvalidPages(t, e, k)
        BY <2>1, <2>2, <2>9, <2>13, <3>4 DEF InvalidPages
      <4>3. PICK I : I = InvalidPages(s, e, k)
        OBVIOUS
      <4>4. InvalidPages(t, e, k) = I \cup {q}
        BY <3>2, <3>3, <4>1, <4>2, <4>3
      <4>5. q \notin I /\ IsFiniteSet(I)
        BY <2>1, <3>4, <4>3, InvalidPagesFinite
      <4>6. Cardinality(I \cup {q}) = Cardinality(I) + 1
        BY <4>5, FS_AddElement
      <4> QED
        BY <2>7, <3>1, <3>4, <4>3, <4>4, <4>6
    <3>5. CASE ~ (e = d /\ k = b)
      <4>1. \A r \in Pages : <<e, k, r>> # v
        BY <2>2, <3>5
      <4>2. InvalidPages(t, e, k) = InvalidPages(s, e, k)
        BY <3>2, <3>3, <4>1
      <4> QED
        BY <2>9, <3>1, <3>5, <4>2
    <3> QED
      BY <3>4, <3>5
  <2>15. ASSUME NEW e \in AllDies PROVE DieOK(t.block[e], t.die[e], t.victims[e], NoneOut[e])
    <3>1. CASE e = d
      BY <2>7, <3>1 DEF NoneOut
    <3>2. CASE e # d
      BY <2>7, <3>2 DEF OtherDies, Good
    <3> QED
      BY <3>1, <3>2
  <2>16. Good(t, NoneOut)
    BY <2>7, <2>10, <2>11, <2>14, <2>15 DEF Good
  <2>17. \A e \in AllDies : t.die[e] = s.die[e]
    BY <2>7 DEF OtherDies
  <2> QED
    BY <2>7, <2>8, <2>9, <2>16, <2>17 DEF InvalidatedOK
<1> QED
  BY <1>8, <1>9

(***************************************************************************)
(* The garbage collector                                                   *)
(***************************************************************************)

\* Two records with the same maps, whatever requests were made.
SameMaps(s, t) ==
    /\ SameSlices(s, t) /\ t.block = s.block /\ t.die = s.die /\ t.victims = s.victims

\* Neither the requests nor the assertion matter to the maps.
LEMMA SameGood ==
    ASSUME NEW s, NEW out, Good(s, out), NEW t, DOMAIN t = DOMAIN s, t = [x \in DOMAIN s |-> t[x]],
           SameMaps(s, t)
    PROVE  Good(t, out)
<1>1. IsMaps(t)
  BY MapsAre, MapsFrom DEF Good, SameMaps, SameSlices
<1>2. PagesOK(t) /\ CountOK(t, out) /\ MapOK(t)
  <2>1. SameSlices(s, t) /\ SameCounts(s, t, out, out)
    BY DEF SameMaps, SameCounts
  <2> QED
    BY <2>1, SlicesSame, Zenon DEF Good
<1> QED
  BY <1>1, <1>2 DEF Good, SameMaps

LEMMA RequestedGood ==
    ASSUME NEW s, NEW out, Good(s, out), NEW r, NEW t, t = [s EXCEPT !.reqs = r]
    PROVE  Good(t, out) /\ SameMaps(s, t) /\ t.failed = s.failed
<1>1. /\ DOMAIN t = DOMAIN s /\ t = [x \in DOMAIN s |-> t[x]]
      /\ SameMaps(s, t) /\ t.failed = s.failed
  BY DEF Good, IsMaps, SameMaps, SameSlices
<1> QED
  BY <1>1, SameGood

LEMMA FailedGood ==
    ASSUME NEW s, NEW out, Good(s, out), NEW why, NEW t, t = Fail(s, why)
    PROVE  Good(t, out) /\ SameMaps(s, t) /\ t.failed = why
<1>1. /\ DOMAIN t = DOMAIN s /\ t = [x \in DOMAIN s |-> t[x]]
      /\ SameMaps(s, t) /\ t.failed = why
  BY DEF Good, IsMaps, SameMaps, SameSlices, Fail
<1> QED
  BY <1>1, SameGood

\* A block of a victim list, and the block count of the list.
VictimOf(s, d, i) ==
    /\ i \in 1 .. PagesPerBlock
    /\ s.victims[d][i].head \in Blocks

\* GetFromGcVictimList fails only when no block has an invalid slice.
LEMMA VictimFound ==
    ASSUME NEW s, Good(s, NoneOut), NEW d \in AllDies, NEW i, i = VictimCount(s, d)
    PROVE  /\ i # None => VictimOf(s, d, i)
           /\ i = None => \A b \in Blocks : ~s.block[d][b].free => s.block[d][b].invalid = 0
<1> DEFINE C == {j \in 1 .. PagesPerBlock : s.victims[d][j].head # None}
<1>1. CASE C = {}
  <2>1. i = None
    BY <1>1 DEF VictimCount
  <2>2. ASSUME NEW b \in Blocks, ~s.block[d][b].free, s.block[d][b].invalid # 0 PROVE FALSE
    <3>1. PICK j : j = s.block[d][b].invalid
      OBVIOUS
    <3>2. j \in 0 .. PagesPerBlock /\ j \in 1 .. PagesPerBlock
      <4>1. j \in 0 .. PagesPerBlock
        BY <3>1, BlockIs DEF Good
      <4> QED
        BY <2>2, <3>1, <4>1, Sizes
    <3>3. ListsOK(s.block[d], s.die[d], s.victims[d], {})
      BY DEF Good, DieOK, NoneOut
    <3>4. j # 0
      BY <2>2, <3>1
    <3>5. Listing(InList(s.block[d], {}, j), s.block[d], s.victims[d][j])
      BY <3>2, <3>3, <3>4 DEF ListsOK, ListAt
    <3>6. s.victims[d][j].head = None
      BY <1>1, <3>2
    <3>7. InList(s.block[d], {}, j) = {}
      BY <3>5, <3>6, ListEmpty
    <3>8. b \in InList(s.block[d], {}, j)
      BY <2>2, <3>1, <3>4 DEF InList
    <3> QED
      BY <3>7, <3>8
  <2> QED
    BY <2>1, <2>2
<1>2. CASE C # {}
  <2> HIDE DEF C
  <2>1. \E x \in C : \A y \in C : y <= x
    <3> DEFINE T == {k \in Nat : \E x \in C : k = PagesPerBlock - x}
    <3>1. C \subseteq 1 .. PagesPerBlock /\ PagesPerBlock \in Nat
      BY Sizes DEF C
    <3>2. \A x \in C : PagesPerBlock - x \in Nat
      BY <3>1
    <3>3. T \subseteq Nat /\ T # {}
      BY <1>2, <3>2
    <3>4. PICK k \in T : \A y \in T : k <= y
      <4> HIDE DEF T
      <4> QED
        BY <3>3, LeastNat
    <3>5. PICK x \in C : k = PagesPerBlock - x
      OBVIOUS
    <3>6. ASSUME NEW y \in C PROVE y <= x
      <4>1. PagesPerBlock - y \in T
        BY <3>2
      <4>2. PagesPerBlock - x <= PagesPerBlock - y
        BY <3>4, <3>5, <4>1
      <4>3. x \in Nat /\ y \in Nat
        BY <3>1
      <4> QED
        BY <3>1, <4>2, <4>3
    <3> QED
      BY <3>6
  <2>2. i = CHOOSE x \in C : \A y \in C : y <= x
    BY <1>2 DEF VictimCount, C
  <2>3. i \in C
    BY <2>1, <2>2
  <2>4. i \in 1 .. PagesPerBlock /\ s.victims[d][i].head # None
    BY <2>3 DEF C
  <2>5. i \in 0 .. PagesPerBlock /\ i \in Nat
    BY <2>4
  <2>6. s.victims[d][i] \in ListRec
    BY <2>5, DieIs DEF Good
  <2>7. s.victims[d][i].head \in Blocks
    BY <2>4, <2>6 DEF ListRec, Links
  <2>8. i # None
    BY <2>5, Marks
  <2> QED
    BY <2>4, <2>7, <2>8 DEF VictimOf
<1> QED
  BY <1>1, <1>2

\* What opening a block does, when the die has one to give.
OpenedOK(s, d, out, t) ==
    /\ Good(t, out) /\ SameSlices(s, t) /\ t.failed = s.failed /\ OtherDies(s, t, d)
    /\ t.die[d].current \in Blocks \ out[d] /\ t.die[d].cnt = s.die[d].cnt - 1
    /\ s.block[d][t.die[d].current].free /\ t.block[d][t.die[d].current].page = 0
    /\ \A e \in AllDies, k \in Blocks : t.block[e][k].page = s.block[e][k].page

\* A die whose free count is not zero has a block at the head of its free list.
LEMMA FreeHead ==
    ASSUME NEW s, NEW out, Good(s, out), NEW d \in AllDies, 1 <= s.die[d].cnt
    PROVE  s.die[d].free.head \in Blocks
<1>1. IsMaps(s) /\ DieOK(s.block[d], s.die[d], s.victims[d], out[d])
  BY DEF Good
<1>2. PICK blk : blk = s.block[d]
  OBVIOUS
<1>3. Listing(InList(blk, out[d], 0), blk, s.die[d].free)
  <2>1. 0 \in 0 .. PagesPerBlock
    BY Sizes
  <2> QED
    BY <1>1, <1>2, <2>1 DEF DieOK, ListsOK, ListAt
<1>4. InList(blk, out[d], 0) = Free(blk)
  BY <1>1, <1>2 DEF InList, Free, DieOK
<1>5. Free(blk) # {}
  <2>1. 1 <= Cardinality(Free(blk))
    BY <1>1, <1>2 DEF DieOK
  <2>2. Cardinality({}) = 0
    BY FS_EmptySet
  <2> QED
    BY <2>1, <2>2
<1>6. s.die[d].free.head # None
  BY <1>3, <1>4, <1>5, ListEmpty
<1>7. s.die[d].free.head \in Links
  BY <1>1, DieIs DEF ListRec
<1> QED
  BY <1>6, <1>7 DEF Links

LEMMA OpenBlockGood ==
    ASSUME NEW s, NEW out, Good(s, out), NEW d \in AllDies, NEW option,
           1 <= s.die[d].cnt, option = "normal" => 2 <= s.die[d].cnt,
           s.die[d].current # None => s.block[d][s.die[d].current].page = PagesPerBlock,
           NEW t, t = OpenBlock(s, d, option)
    PROVE  OpenedOK(s, d, out, t)
<1>1. PICK b : b = s.die[d].free.head
  OBVIOUS
<1>2. b \in Blocks
  BY <1>1, FreeHead
<1>3. b # None
  BY <1>2, Marks
<1>4. ~ (option = "normal" /\ s.die[d].cnt <= ReservedFreeBlockCount)
  <2>1. s.die[d].cnt \in Nat
    BY DieIs DEF Good
  <2> QED
    BY <2>1 DEF ReservedFreeBlockCount
<1>5. t = Opened(s, d, b)
  <2>1. FreeBlockFor(s, d, option) = b
    BY <1>1, <1>4 DEF FreeBlockFor
  <2> QED
    BY <1>3, <2>1, Zenon DEF OpenBlock, Opened
<1>6. OpenedAs(s, out, d, b, t)
  BY <1>1, <1>2, <1>5, OpenedGood, Zenon
<1> QED
  BY <1>2, <1>6 DEF OpenedOK, OpenedAs

LEMMA NoBlockLeft ==
    ASSUME NEW s, NEW out, Good(s, out), NEW d \in AllDies, 1 <= s.die[d].cnt
    PROVE  FreeBlockFor(s, d, "normal") = None <=> s.die[d].cnt = 1
<1>1. s.die[d].free.head # None
  BY FreeHead, Marks
<1>2. s.die[d].cnt \in Nat
  BY DieIs DEF Good
<1>3. CASE s.die[d].cnt = 1
  BY <1>3 DEF FreeBlockFor, ReservedFreeBlockCount
<1>4. CASE s.die[d].cnt # 1
  <2>1. ~ (s.die[d].cnt <= ReservedFreeBlockCount)
    BY <1>2, <1>4 DEF ReservedFreeBlockCount
  <2> QED
    BY <1>1, <1>4, <2>1 DEF FreeBlockFor
<1> QED
  BY <1>3, <1>4

\* The collector opens a block when the open one is full, be it the victim itself.
LEMMA RoomForGcIs ==
    ASSUME NEW s, NEW out, Good(s, out), s.failed = None, NEW d \in AllDies, NEW v \in Blocks,
           s.die[d].current \in Blocks, 1 <= s.die[d].cnt, NEW r, r = RoomForGc(s, d, v)
    PROVE  /\ CurrentPage(s, d) = PagesPerBlock => OpenedOK(s, d, out, r)
           /\ CurrentPage(s, d) < PagesPerBlock /\ s.die[d].current # v => r = s
<1>0. PagesPerBlock \in Nat /\ 0 < PagesPerBlock
  BY Sizes
<1>1. CASE CurrentPage(s, d) = PagesPerBlock
  <2>1. PICK o : o = OpenBlock(s, d, "gc")
    OBVIOUS
  <2>2. OpenedOK(s, d, out, o)
    BY <1>1, <2>1, OpenBlockGood DEF CurrentPage
  <2>3. o.failed = None /\ CurrentPage(o, d) = 0
    BY <2>2 DEF OpenedOK, CurrentPage
  <2>4. CASE s.die[d].current = v
    <3>1. r = o
      BY <1>0, <2>1, <2>3, <2>4 DEF RoomForGc
    <3> QED
      BY <1>0, <1>1, <2>2, <3>1
  <2>5. CASE s.die[d].current # v
    <3>1. r = o
      BY <1>0, <1>1, <2>1, <2>5 DEF RoomForGc
    <3> QED
      BY <1>0, <1>1, <2>2, <3>1
  <2> QED
    BY <2>4, <2>5
<1>2. CASE CurrentPage(s, d) # PagesPerBlock
  BY <1>2 DEF RoomForGc
<1> QED
  BY <1>1, <1>2

\* The first n pages of the victim v are copied; q is a page of it that was invalid.
Copied(u, d, v, q, n, t) ==
    /\ Good(t, OutOf(d, v)) /\ t.failed = None /\ OtherDies(u, t, d)
    /\ \A p \in Pages : p < n => ~Valid(t, <<d, v, p>>)
    /\ ~Valid(t, <<d, v, q>>)
    /\ \A x \in Lsas : u.map[x] = None => t.map[x] = None
    /\ t.die[d].current \in Blocks
    /\ \/ t.die[d] = u.die[d] /\ CurrentPage(t, d) = PagesPerBlock /\ SameSlices(u, t)
       \/ /\ t.die[d].current # v /\ t.die[d].cnt = u.die[d].cnt - 1
          /\ CurrentPage(t, d) + (IF q < n THEN 1 ELSE 0) <= n

\* The room for a copy, before the slice is programmed.
RoomMade(u, d, v, q, n, r) ==
    /\ r.die[d].current \in Blocks \ {v} /\ r.die[d].cnt = u.die[d].cnt - 1
    /\ CurrentPage(r, d) \in Nat /\ CurrentPage(r, d) < PagesPerBlock
    /\ CurrentPage(r, d) + 1 + (IF q < n THEN 1 ELSE 0) <= n

LEMMA CopyRoom ==
    ASSUME NEW u, NEW d \in AllDies, NEW v \in Blocks, NEW q \in Pages, NEW n \in 1 .. PagesPerBlock,
           1 <= u.die[d].cnt, q # n - 1,
           NEW s, Copied(u, d, v, q, n - 1, s), NEW r, r = RoomForGc(s, d, v)
    PROVE  /\ Good(r, OutOf(d, v)) /\ r.failed = None /\ OtherDies(u, r, d) /\ SameSlices(s, r)
           /\ RoomMade(u, d, v, q, n, r)
<1>1. /\ Good(s, OutOf(d, v)) /\ s.failed = None /\ OtherDies(u, s, d)
      /\ s.die[d].current \in Blocks
      /\ \/ s.die[d] = u.die[d] /\ CurrentPage(s, d) = PagesPerBlock
         \/ /\ s.die[d].current # v /\ s.die[d].cnt = u.die[d].cnt - 1
            /\ CurrentPage(s, d) + (IF q < n - 1 THEN 1 ELSE 0) <= n - 1
  BY DEF Copied
<1>2. /\ PagesPerBlock \in Nat /\ n \in Nat /\ n >= 1 /\ n <= PagesPerBlock /\ q \in Nat
  BY Sizes DEF Pages
<1>3. q < n <=> q < n - 1
  BY <1>2
<1>4. CurrentPage(s, d) \in 0 .. PagesPerBlock
  BY <1>1, BlockIs DEF Good, CurrentPage
<1>5. CASE s.die[d] = u.die[d] /\ CurrentPage(s, d) = PagesPerBlock
  <2>1. OpenedOK(s, d, OutOf(d, v), r)
    BY <1>1, <1>5, RoomForGcIs
  <2>2. /\ Good(r, OutOf(d, v)) /\ SameSlices(s, r) /\ r.failed = s.failed /\ OtherDies(s, r, d)
        /\ r.die[d].current \in Blocks \ OutOf(d, v)[d] /\ r.die[d].cnt = s.die[d].cnt - 1
        /\ r.block[d][r.die[d].current].page = 0
    BY <2>1 DEF OpenedOK
  <2>3. OtherDies(u, r, d)
    BY <1>1, <2>2 DEF OtherDies
  <2>4. OutOf(d, v)[d] = {v}
    BY DEF OutOf
  <2>5. CurrentPage(r, d) = 0
    BY <2>2 DEF CurrentPage
  <2>6. 0 + 1 + (IF q < n THEN 1 ELSE 0) <= n
    BY <1>2
  <2>7. RoomMade(u, d, v, q, n, r)
    BY <1>2, <1>5, <2>2, <2>4, <2>5, <2>6 DEF RoomMade
  <2> QED
    BY <1>1, <2>2, <2>3, <2>7
<1>6. CASE /\ s.die[d].current # v /\ s.die[d].cnt = u.die[d].cnt - 1
           /\ CurrentPage(s, d) + (IF q < n - 1 THEN 1 ELSE 0) <= n - 1
  <2>1. CurrentPage(s, d) < PagesPerBlock
    BY <1>2, <1>4, <1>6
  <2>2. CurrentPage(s, d) # PagesPerBlock /\ ~ (CurrentPage(s, d) > PagesPerBlock)
    BY <2>1, <1>2, <1>4
  <2>3. r = s
    BY <1>6, <2>1 DEF RoomForGc
  <2>4. CurrentPage(s, d) + 1 + (IF q < n THEN 1 ELSE 0) <= n
    BY <1>2, <1>3, <1>4, <1>6
  <2>5. RoomMade(u, d, v, q, n, r)
    BY <1>1, <1>4, <1>6, <2>1, <2>3, <2>4 DEF RoomMade
  <2> QED
    BY <1>1, <2>3, <2>5 DEF SameSlices
<1> QED
  BY <1>1, <1>5, <1>6

\* One more page of the victim.
LEMMA CopyPageGood ==
    ASSUME NEW u, NEW d \in AllDies, NEW v \in Blocks, NEW q \in Pages, NEW n \in 1 .. PagesPerBlock,
           1 <= u.die[d].cnt,
           NEW s, Copied(u, d, v, q, n - 1, s), NEW t, t = CopyPage(s, d, v, n - 1)
    PROVE  Copied(u, d, v, q, n, t)
<1> DEFINE p == n - 1
<1>1. /\ Good(s, OutOf(d, v)) /\ s.failed = None /\ OtherDies(u, s, d)
      /\ \A k \in Pages : k < p => ~Valid(s, <<d, v, k>>)
      /\ ~Valid(s, <<d, v, q>>)
      /\ \A x \in Lsas : u.map[x] = None => s.map[x] = None
      /\ s.die[d].current \in Blocks
      /\ \/ s.die[d] = u.die[d] /\ CurrentPage(s, d) = PagesPerBlock /\ SameSlices(u, s)
         \/ /\ s.die[d].current # v /\ s.die[d].cnt = u.die[d].cnt - 1
            /\ CurrentPage(s, d) + (IF q < p THEN 1 ELSE 0) <= p
  BY DEF Copied
<1>2. /\ p \in Pages /\ n \in Nat /\ q \in Nat /\ \A k \in Pages : k < n <=> k < p \/ k = p
  BY Sizes DEF Pages
<1>3. PICK w : w = <<d, v, p>>
  OBVIOUS
<1>4. Vorg2VsaTranslation(d, v, p) = w /\ w \in Vsas
  BY <1>2, <1>3, VsaIs
<1>5. IsMaps(s) /\ MapOK(s) /\ PagesOK(s)
  BY <1>1 DEF Good
<1>6. CurrentPage(s, d) \in 0 .. PagesPerBlock
  BY <1>1, <1>5, BlockIs DEF CurrentPage
<1>7. CASE ~Valid(s, w)
  <2>1. t = s
    BY <1>4, <1>7 DEF CopyPage
  <2>2. \A k \in Pages : k < n => ~Valid(s, <<d, v, k>>)
    BY <1>1, <1>2, <1>3, <1>7
  <2>3. ASSUME CurrentPage(s, d) + (IF q < p THEN 1 ELSE 0) <= p
        PROVE  CurrentPage(s, d) + (IF q < n THEN 1 ELSE 0) <= n
    BY <1>2, <1>6, <2>3
  <2> HIDE DEF p
  <2> QED
    BY <1>1, <2>1, <2>2, <2>3 DEF Copied
<1>8. CASE Valid(s, w)
  <2>1. PICK r : r = RoomForGc(s, d, v)
    OBVIOUS
  <2>2. q # p
    BY <1>1, <1>3, <1>8
  <2>3. /\ Good(r, OutOf(d, v)) /\ r.failed = None /\ OtherDies(u, r, d) /\ SameSlices(s, r)
        /\ RoomMade(u, d, v, q, n, r)
    BY <2>1, <2>2, CopyRoom
  <2>4. PICK l : l = s.rev[w]
    OBVIOUS
  <2>5. l \in Lsas /\ s.map[l] = w /\ s.flash[w] = l
    <3>1. l # None /\ s.map[l] = w
      BY <1>8, <2>4 DEF Valid
    <3>2. l \in Lsas
      BY <1>4, <1>5, <2>4, <3>1, MapsAre
    <3>3. w # None
      BY <1>4, Marks
    <3> QED
      BY <1>5, <3>1, <3>2, <3>3 DEF MapOK
  <2>6. PICK x : x = [r EXCEPT !.reqs = Append(@, NandReq("READ", w, 0, l))]
    OBVIOUS
  <2>7. Good(x, OutOf(d, v)) /\ SameMaps(r, x) /\ x.failed = None
    <3>1. PICK y : y = Append(r.reqs, NandReq("READ", w, 0, l))
      OBVIOUS
    <3>2. x = [r EXCEPT !.reqs = y]
      BY <2>6, <3>1
    <3> QED
      BY <2>3, <3>2, RequestedGood
  <2>8. t = Program(x, d, l, l)
    BY <1>1, <1>4, <1>8, <2>1, <2>3, <2>4, <2>5, <2>6 DEF CopyPage
  <2>9. PICK b, g : b = r.die[d].current /\ g = CurrentPage(r, d)
    OBVIOUS
  <2>10. /\ b \in Blocks /\ b # v /\ r.die[d].cnt = u.die[d].cnt - 1
         /\ g \in Nat /\ g < PagesPerBlock /\ g + 1 + (IF q < n THEN 1 ELSE 0) <= n
    BY <2>3, <2>9 DEF RoomMade
  <2>11. /\ x.die = r.die /\ x.block = r.block /\ x.victims = r.victims
         /\ x.map = s.map /\ x.rev = s.rev
    BY <2>3, <2>7 DEF SameMaps, SameSlices
  <2>12. b = x.die[d].current /\ g = x.block[d][b].page /\ b \notin OutOf(d, v)[d]
    BY <2>9, <2>10, <2>11 DEF CurrentPage, OutOf
  <2>13. \E k \in OutOf(d, v)[d], j \in Pages : x.map[l] = <<d, k, j>>
    <3>1. v \in OutOf(d, v)[d] /\ x.map[l] = <<d, v, p>>
      BY <1>3, <2>5, <2>11 DEF OutOf
    <3> QED
      BY <1>2, <3>1
  <2>14. Good(t, OutOf(d, v)) /\ ProgramFields(x, d, b, g, l, t)
    BY <2>5, <2>7, <2>8, <2>10, <2>12, <2>13, ProgramGood
  <2>15. /\ t.failed = x.failed /\ t.die = x.die /\ t.victims = x.victims
         /\ t.map = [x.map EXCEPT ![l] = <<d, b, g>>]
         /\ t.rev = [x.rev EXCEPT ![<<d, b, g>>] = l]
         /\ t.block[d][b] = [x.block[d][b] EXCEPT !.page = g + 1]
         /\ \A e \in AllDies \ {d} : t.block[e] = x.block[e]
    BY <2>14 DEF ProgramFields
  <2>16. t.failed = None /\ t.die[d].current = b /\ t.die[d].cnt = u.die[d].cnt - 1
    BY <2>7, <2>9, <2>10, <2>11, <2>15
  <2>17. OtherDies(u, t, d)
    BY <2>3, <2>11, <2>15 DEF OtherDies
  <2>18. CurrentPage(t, d) = g + 1
    <3>1. x.block[d][b] \in BlockRec
      BY <2>7, <2>10, BlockIs DEF Good
    <3>2. t.block[d][b].page = g + 1
      BY <2>15, <3>1 DEF BlockRec
    <3> QED
      BY <2>16, <3>2 DEF CurrentPage
  <2>19. ASSUME NEW k \in Pages, Valid(t, <<d, v, k>>) PROVE k # p /\ Valid(s, <<d, v, k>>)
    <3>1. <<d, v, k>> # <<d, b, g>> /\ <<d, v, k>> \in Vsas
      BY <2>10, VsaIs
    <3>2. t.rev[<<d, v, k>>] = s.rev[<<d, v, k>>]
      <4>1. s.rev \in [Vsas -> Lsas \cup {None}]
        BY <1>5, MapsAre
      <4> QED
        BY <2>11, <2>15, <3>1, <4>1
    <3>3. PICK y : y = s.rev[<<d, v, k>>]
      OBVIOUS
    <3>4. y # None /\ t.map[y] = <<d, v, k>>
      BY <2>19, <3>2, <3>3 DEF Valid
    <3>5. y \in Lsas
      BY <1>5, <3>1, <3>3, <3>4, MapsAre
    <3>6. s.map \in [Lsas -> Vsas \cup {None}]
      BY <1>5, MapsAre
    <3>7. y # l
      BY <2>5, <2>11, <2>15, <3>1, <3>4, <3>6
    <3>8. s.map[y] = <<d, v, k>>
      BY <2>11, <2>15, <3>4, <3>5, <3>6, <3>7
    <3>9. Valid(s, <<d, v, k>>)
      BY <3>3, <3>4, <3>8 DEF Valid
    <3>10. k # p
      BY <1>3, <2>4, <3>3, <3>7
    <3> QED
      BY <3>9, <3>10
  <2>20. \A k \in Pages : k < n => ~Valid(t, <<d, v, k>>)
    BY <1>1, <1>2, <2>19
  <2>21. ~Valid(t, <<d, v, q>>)
    BY <1>1, <2>19
  <2>22. ASSUME NEW y \in Lsas, u.map[y] = None PROVE t.map[y] = None
    <3>1. s.map[y] = None /\ w # None
      BY <1>1, <1>4, <2>22, Marks
    <3>2. y # l
      BY <2>5, <3>1
    <3>3. s.map \in [Lsas -> Vsas \cup {None}]
      BY <1>5, MapsAre
    <3> QED
      BY <2>11, <2>15, <3>1, <3>2, <3>3
  <2>23. CurrentPage(t, d) + (IF q < n THEN 1 ELSE 0) <= n
    BY <2>10, <2>18
  <2> HIDE DEF p
  <2> QED
    BY <2>10, <2>14, <2>16, <2>17, <2>20, <2>21, <2>22, <2>23 DEF Copied
<1> QED
  BY <1>7, <1>8

\* The states between the pages.
IsCopying(f, s, d, v, n) ==
    f = [i \in 0 .. n |-> IF i = 0 THEN s ELSE CopyPage(f[i - 1], d, v, i - 1)]

LEMMA CopyingExists ==
    ASSUME NEW s, NEW d, NEW v, NEW n \in Nat
    PROVE  \E f : IsCopying(f, s, d, v, n)
<1> DEFINE T == {k \in Nat : \E f : IsCopying(f, s, d, v, k)}
<1>1. 0 \in T
  <2> DEFINE f == [i \in 0 .. 0 |-> s]
  <2>1. f = [i \in 0 .. 0 |-> IF i = 0 THEN s ELSE CopyPage(f[i - 1], d, v, i - 1)]
    OBVIOUS
  <2>2. IsCopying(f, s, d, v, 0)
    BY <2>1 DEF IsCopying
  <2> HIDE DEF f
  <2> QED
    BY <2>2
<1>2. ASSUME NEW k \in 1 .. n, k - 1 \in T PROVE k \in T
  <2>1. PICK f : IsCopying(f, s, d, v, k - 1)
    BY <1>2
  <2> DEFINE g == [i \in 0 .. k |-> IF i = k THEN CopyPage(f[k - 1], d, v, k - 1) ELSE f[i]]
  <2>2. ASSUME NEW i \in 0 .. k
        PROVE  g[i] = IF i = 0 THEN s ELSE CopyPage(g[i - 1], d, v, i - 1)
    <3>1. CASE i = k
      <4>1. i # 0 /\ i - 1 = k - 1 /\ i - 1 \in 0 .. k /\ i - 1 # k
        BY <3>1
      <4>2. g[i - 1] = f[k - 1] /\ g[i] = CopyPage(f[k - 1], d, v, k - 1)
        BY <3>1, <4>1
      <4> QED
        BY <3>1, <4>1, <4>2
    <3>2. CASE i # k
      <4>1. i \in 0 .. k - 1
        BY <3>2
      <4>2. f[i] = IF i = 0 THEN s ELSE CopyPage(f[i - 1], d, v, i - 1)
        BY <2>1, <4>1 DEF IsCopying
      <4>3. g[i] = f[i]
        BY <3>2
      <4>4. i # 0 => i - 1 \in 0 .. k /\ i - 1 # k
        BY <4>1
      <4>5. i # 0 => g[i - 1] = f[i - 1]
        BY <4>4
      <4> QED
        BY <4>2, <4>3, <4>5
    <3> QED
      BY <3>1, <3>2
  <2>3. IsCopying(g, s, d, v, k)
    BY <2>2 DEF IsCopying
  <2>4. k \in Nat
    OBVIOUS
  <2> HIDE DEF g
  <2> QED
    BY <2>3, <2>4
<1> HIDE DEF T
<1>3. n \in T
  BY <1>1, <1>2, UpTo
<1> QED
  BY <1>3 DEF T

\* All the pages of the victim.
LEMMA CopyPagesGood ==
    ASSUME NEW u, NEW d \in AllDies, NEW v \in Blocks, NEW q \in Pages, 1 <= u.die[d].cnt,
           Copied(u, d, v, q, 0, u), NEW t, t = CopyPages(u, d, v)
    PROVE  Copied(u, d, v, q, PagesPerBlock, t)
<1>0. PagesPerBlock \in Nat
  BY Sizes
<1> DEFINE Rec(f) == f = [i \in 0 .. PagesPerBlock |->
                            IF i = 0 THEN u ELSE CopyPage(f[i - 1], d, v, i - 1)]
<1>1. \E f : Rec(f)
  <2>1. PICK f : IsCopying(f, u, d, v, PagesPerBlock)
    BY <1>0, CopyingExists
  <2>2. Rec(f)
    BY <2>1 DEF IsCopying
  <2> HIDE DEF Rec
  <2> QED
    BY <2>2
<1> DEFINE f == CHOOSE g : Rec(g)
<1>2. Rec(f)
  BY <1>1
<1>3. t = f[PagesPerBlock]
  BY DEF CopyPages
<1> HIDE DEF f
<1>4. /\ f[0] = u
      /\ \A i \in 1 .. PagesPerBlock : f[i] = CopyPage(f[i - 1], d, v, i - 1)
  BY <1>0, <1>2
<1> DEFINE T == {i \in 0 .. PagesPerBlock : Copied(u, d, v, q, i, f[i])}
<1>5. 0 \in T
  BY <1>0, <1>4
<1>6. ASSUME NEW i \in 1 .. PagesPerBlock, i - 1 \in T PROVE i \in T
  <2>1. Copied(u, d, v, q, i - 1, f[i - 1]) /\ f[i] = CopyPage(f[i - 1], d, v, i - 1)
    BY <1>4, <1>6
  <2>2. Copied(u, d, v, q, i, f[i])
    BY <2>1, CopyPageGood
  <2> QED
    BY <1>0, <2>2
<1> HIDE DEF T
<1>7. PagesPerBlock \in T
  BY <1>0, <1>5, <1>6, UpTo
<1> QED
  BY <1>3, <1>7 DEF T

\* What a garbage collection leaves: a free block and room in the open one, or two free
\* blocks and a full open one.
CollectedOK(s, d, t) ==
    /\ Good(t, NoneOut) /\ t.failed = None /\ OtherDies(s, t, d)
    /\ \A x \in Lsas : s.map[x] = None => t.map[x] = None
    /\ t.die[d].current \in Blocks
    /\ \/ t.die[d].cnt = 1 /\ CurrentPage(t, d) < PagesPerBlock
       \/ t.die[d].cnt = 2 /\ CurrentPage(t, d) = PagesPerBlock

\* The pages of a full block are all invalid when the count says so.
LEMMA AllInvalid ==
    ASSUME NEW s, NEW d, NEW b, Cardinality(InvalidPages(s, d, b)) = PagesPerBlock
    PROVE  \A p \in Pages : ~Valid(s, <<d, b, p>>)
<1>1. ASSUME NEW p \in Pages PROVE p \in InvalidPages(s, d, b)
  BY CountBelow, Sizes
<1> QED
  BY <1>1 DEF InvalidPages

LEMMA GarbageCollectionGood ==
    ASSUME NEW s, Good(s, NoneOut), s.failed = None, NEW d \in AllDies,
           s.die[d].current \in Blocks, CurrentPage(s, d) = PagesPerBlock, s.die[d].cnt = 1,
           NEW i, i = VictimCount(s, d), i # None,
           ~ (i = PagesPerBlock /\ s.victims[d][i].head = s.die[d].current),
           NEW t, t = GarbageCollection(s, d)
    PROVE  CollectedOK(s, d, t)
<1>1. PICK b : b = s.victims[d][i].head
  OBVIOUS
<1>2. i \in 1 .. PagesPerBlock /\ b \in Blocks
  BY <1>1, VictimFound DEF VictimOf
<1>3. PICK u : u = GetFromGcVictimList(s, d, i)
  OBVIOUS
<1>4. /\ Good(u, OutOf(d, b)) /\ SameSlices(s, u) /\ u.failed = s.failed
      /\ OtherDies(s, u, d) /\ u.die[d] = s.die[d]
      /\ ~s.block[d][b].free /\ s.block[d][b].invalid = i
      /\ \A e \in AllDies, k \in Blocks : u.block[e][k].page = s.block[e][k].page
  BY <1>1, <1>2, <1>3, TakenGood
<1>5. s.block[d][b].page = PagesPerBlock
  <2>1. DieOK(s.block[d], s.die[d], s.victims[d], {})
    BY DEF Good, NoneOut
  <2> QED
    BY <1>2, <1>4, <2>1 DEF DieOK, CurrentPage
<1>6. Cardinality(InvalidPages(s, d, b)) = i
  <2>1. CountOK(s, NoneOut) /\ b \notin NoneOut[d]
    BY DEF Good, NoneOut
  <2> QED
    BY <1>2, <1>4, <2>1 DEF CountOK
<1>7. \A p \in Pages : Valid(u, <<d, b, p>>) <=> Valid(s, <<d, b, p>>)
  BY <1>4 DEF Valid, SameSlices
<1>8. CurrentPage(u, d) = PagesPerBlock /\ u.failed = None /\ u.die[d].cnt = 1
      /\ u.die[d].current = s.die[d].current
  BY <1>4 DEF CurrentPage
<1>9. \A x \in Lsas : s.map[x] = u.map[x]
  BY <1>4 DEF SameSlices
<1>10. CASE i = PagesPerBlock
  <2>1. \A p \in Pages : ~Valid(u, <<d, b, p>>)
    BY <1>6, <1>7, <1>10, AllInvalid
  <2>2. u.die[d].current # b
    BY <1>1, <1>8, <1>10
  <2>3. t = EraseBlock(u, d, b)
    BY <1>1, <1>3, <1>8, <1>10 DEF GarbageCollection
  <2>4. Good(t, NoneOut) /\ ErasedFields(u, d, b, t)
    BY <1>2, <1>4, <2>1, <2>2, <2>3, ErasedGood
  <2>5. /\ t.map = u.map /\ t.failed = u.failed /\ OtherDies(u, t, d)
        /\ t.die[d].current = u.die[d].current /\ t.die[d].cnt = u.die[d].cnt + 1
        /\ \A k \in Blocks \ {b} : t.block[d][k].page = u.block[d][k].page
    BY <2>4 DEF ErasedFields
  <2>6. CurrentPage(t, d) = PagesPerBlock
    BY <1>8, <2>2, <2>5 DEF CurrentPage
  <2>7. OtherDies(s, t, d)
    BY <1>4, <2>5 DEF OtherDies
  <2>8. t.die[d].cnt = 2
    BY <1>8, <2>5
  <2> QED
    BY <1>8, <1>9, <2>4, <2>5, <2>6, <2>7, <2>8 DEF CollectedOK
<1>11. CASE i # PagesPerBlock
  <2>1. PICK q \in Pages : ~Valid(u, <<d, b, q>>)
    <3>1. InvalidPages(s, d, b) # {}
      <4>1. Cardinality(InvalidPages(s, d, b)) # 0
        BY <1>2, <1>6
      <4> QED
        BY <4>1, FS_EmptySet
    <3> QED
      BY <1>7, <3>1 DEF InvalidPages
  <2>2. \A p \in Pages : ~ (p < 0)
    BY Sizes DEF Pages
  <2>3. Copied(u, d, b, q, 0, u)
    <3>1. OtherDies(u, u, d) /\ SameSlices(u, u)
      BY DEF OtherDies, SameSlices
    <3> QED
      BY <1>4, <1>8, <2>1, <2>2, <3>1 DEF Copied
  <2>4. PICK c : c = CopyPages(u, d, b)
    OBVIOUS
  <2>5. Copied(u, d, b, q, PagesPerBlock, c)
    BY <1>2, <1>8, <2>3, <2>4, CopyPagesGood
  <2>6. /\ Good(c, OutOf(d, b)) /\ c.failed = None /\ OtherDies(u, c, d)
        /\ \A p \in Pages : p < PagesPerBlock => ~Valid(c, <<d, b, p>>)
        /\ \A x \in Lsas : u.map[x] = None => c.map[x] = None
        /\ c.die[d].current \in Blocks
        /\ \/ SameSlices(u, c)
           \/ /\ c.die[d].current # b /\ c.die[d].cnt = u.die[d].cnt - 1
              /\ CurrentPage(c, d) + (IF q < PagesPerBlock THEN 1 ELSE 0) <= PagesPerBlock
    BY <2>5 DEF Copied
  <2>7. \A p \in Pages : p \in Nat /\ p < PagesPerBlock
    BY Sizes DEF Pages
  <2>8. \A p \in Pages : ~Valid(c, <<d, b, p>>)
    BY <2>6, <2>7
  <2>9. ~SameSlices(u, c)
    <3>1. SUFFICES ASSUME SameSlices(u, c) PROVE FALSE
      OBVIOUS
    <3>2. \A p \in Pages : ~Valid(s, <<d, b, p>>)
      BY <1>7, <2>8, <3>1 DEF Valid, SameSlices
    <3>3. InvalidPages(s, d, b) = Pages
      BY <1>5, <2>7, <3>2 DEF InvalidPages
    <3> QED
      BY <1>6, <1>11, <3>3, BlocksFinite
  <2>10. CurrentPage(c, d) \in Nat
    BY <2>6, BlockIs DEF Good, CurrentPage
  <2>11. c.die[d].current # b /\ c.die[d].cnt = 0 /\ CurrentPage(c, d) < PagesPerBlock
    <3>1. PagesPerBlock \in Nat
      BY Sizes
    <3> QED
      BY <1>8, <2>6, <2>7, <2>9, <2>10, <3>1
  <2>12. t = EraseBlock(c, d, b)
    BY <1>1, <1>3, <1>11, <2>4, <2>6 DEF GarbageCollection
  <2>13. Good(t, NoneOut) /\ ErasedFields(c, d, b, t)
    BY <1>2, <2>6, <2>8, <2>11, <2>12, ErasedGood
  <2>14. /\ t.map = c.map /\ t.failed = c.failed /\ OtherDies(c, t, d)
         /\ t.die[d].current = c.die[d].current /\ t.die[d].cnt = c.die[d].cnt + 1
         /\ \A k \in Blocks \ {b} : t.block[d][k].page = c.block[d][k].page
    BY <2>13 DEF ErasedFields
  <2>15. CurrentPage(t, d) = CurrentPage(c, d)
    BY <2>6, <2>11, <2>14 DEF CurrentPage
  <2>16. OtherDies(s, t, d)
    BY <1>4, <2>6, <2>14 DEF OtherDies
  <2>17. t.die[d].cnt = 1
    BY <2>11, <2>14
  <2> QED
    BY <1>9, <2>6, <2>11, <2>13, <2>14, <2>15, <2>16, <2>17 DEF CollectedOK
<1> QED
  BY <1>10, <1>11

(***************************************************************************)
(* A write                                                                 *)
(***************************************************************************)

\* Between two writes: the maps are right, and every die has an open block and a free one.
Ready(s) ==
    /\ Good(s, NoneOut)
    /\ \A d \in AllDies : s.die[d].current \in Blocks /\ 1 <= s.die[d].cnt

\* FindFreeVirtualSlice found a page.
RoomOK(s, d, t) ==
    /\ Ready(t) /\ t.failed = None /\ CurrentPage(t, d) < PagesPerBlock
    /\ \A x \in Lsas : s.map[x] = None => t.map[x] = None

\* The garbage collector would erase the open block.
EatsOpenBlock(s, d) ==
    /\ NeedsGc(s, d) /\ VictimCount(s, d) = PagesPerBlock
    /\ s.victims[d][PagesPerBlock].head = s.die[d].current

LEMMA OthersReady ==
    ASSUME NEW s, Ready(s), NEW d \in AllDies, NEW t, Good(t, NoneOut), OtherDies(s, t, d),
           t.die[d].current \in Blocks, 1 <= t.die[d].cnt
    PROVE  Ready(t)
  BY DEF Ready, OtherDies

LEMMA RoomGood ==
    ASSUME NEW s, Ready(s), s.failed = None, NEW d \in AllDies, ~EatsOpenBlock(s, d),
           NEW t, t = Room(s, d)
    PROVE  \/ RoomOK(s, d, t)
           \/ NeedsGc(s, d) /\ VictimCount(s, d) = None /\ t = Fail(s, "no victim")
<1>1. Good(s, NoneOut) /\ s.die[d].current \in Blocks /\ 1 <= s.die[d].cnt
  BY DEF Ready
<1>2. CurrentPage(s, d) \in 0 .. PagesPerBlock /\ PagesPerBlock \in Nat /\ s.die[d].cnt \in Nat
  BY <1>1, BlockIs, DieIs, Sizes DEF Good, CurrentPage
<1>3. 0 < PagesPerBlock
  BY Sizes
<1>4. CASE CurrentPage(s, d) < PagesPerBlock
  <2>1. t = s
    BY <1>4 DEF Room
  <2> QED
    BY <1>4, <2>1 DEF RoomOK
<1>5. CASE CurrentPage(s, d) = PagesPerBlock
  <2>0. ~ (CurrentPage(s, d) < PagesPerBlock) /\ ~ (CurrentPage(s, d) > PagesPerBlock)
    BY <1>2, <1>5
  <2>1. NeedsGc(s, d) <=> s.die[d].cnt = 1
    BY <1>1, <1>5, NoBlockLeft DEF NeedsGc
  <2>2. CASE s.die[d].cnt # 1
    <3>1. t = OpenBlock(s, d, "normal")
      BY <2>0, <2>1, <2>2 DEF Room
    <3>2. 2 <= s.die[d].cnt
      BY <1>1, <1>2, <2>2
    <3>3. OpenedOK(s, d, NoneOut, t)
      BY <1>1, <1>5, <3>1, <3>2, OpenBlockGood DEF CurrentPage
    <3>4. /\ Good(t, NoneOut) /\ SameSlices(s, t) /\ t.failed = s.failed /\ OtherDies(s, t, d)
          /\ t.die[d].current \in Blocks /\ t.die[d].cnt = s.die[d].cnt - 1
          /\ t.block[d][t.die[d].current].page = 0
      BY <3>3 DEF OpenedOK
    <3>5. 1 <= t.die[d].cnt
      BY <1>2, <3>2, <3>4
    <3>6. Ready(t)
      BY <3>4, <3>5, OthersReady
    <3> QED
      BY <1>3, <3>4, <3>6 DEF RoomOK, CurrentPage, SameSlices
  <2>3. CASE s.die[d].cnt = 1
    <3>1. PICK i, g : i = VictimCount(s, d) /\ g = GarbageCollection(s, d)
      OBVIOUS
    <3>2. NeedsGc(s, d)
      BY <2>1, <2>3
    <3>3. CASE i = None
      <4>1. g = Fail(s, "no victim")
        BY <3>1, <3>3 DEF GarbageCollection
      <4>2. g.failed # None
        BY <1>1, <4>1, FailedGood, Marks
      <4>3. t = g
        BY <2>0, <3>1, <3>2, <4>2 DEF Room
      <4> QED
        BY <3>1, <3>2, <3>3, <4>1, <4>3
    <3>4. CASE i # None
      <4>1. ~ (i = PagesPerBlock /\ s.victims[d][i].head = s.die[d].current)
        BY <3>1, <3>2 DEF EatsOpenBlock
      <4>2. CollectedOK(s, d, g)
        BY <1>1, <1>5, <2>3, <3>1, <3>4, <4>1, GarbageCollectionGood
      <4>3. /\ Good(g, NoneOut) /\ g.failed = None /\ OtherDies(s, g, d)
            /\ \A x \in Lsas : s.map[x] = None => g.map[x] = None
            /\ g.die[d].current \in Blocks
            /\ \/ g.die[d].cnt = 1 /\ CurrentPage(g, d) < PagesPerBlock
               \/ g.die[d].cnt = 2 /\ CurrentPage(g, d) = PagesPerBlock
        BY <4>2 DEF CollectedOK
      <4>4. Ready(g)
        <5>1. 1 <= g.die[d].cnt
          BY <4>3
        <5> QED
          BY <4>3, <5>1, OthersReady
      <4>5. CASE CurrentPage(g, d) < PagesPerBlock
        <5>1. t = g
          BY <2>0, <3>1, <3>2, <4>5 DEF Room
        <5> QED
          BY <4>3, <4>4, <4>5, <5>1 DEF RoomOK
      <4>6. CASE g.die[d].cnt = 2 /\ CurrentPage(g, d) = PagesPerBlock
        <5>1. ~ (CurrentPage(g, d) < PagesPerBlock) /\ ~ (CurrentPage(g, d) > PagesPerBlock)
          BY <1>2, <4>6
        <5>2. t = OpenBlock(g, d, "normal")
          BY <2>0, <3>1, <3>2, <4>3, <5>1 DEF Room
        <5>3. OpenedOK(g, d, NoneOut, t)
          <6>1. 1 <= g.die[d].cnt /\ 2 <= g.die[d].cnt
            BY <4>6
          <6> QED
            BY <4>3, <4>6, <5>2, <6>1, OpenBlockGood DEF CurrentPage
        <5>4. /\ Good(t, NoneOut) /\ SameSlices(g, t) /\ t.failed = g.failed /\ OtherDies(g, t, d)
              /\ t.die[d].current \in Blocks /\ t.die[d].cnt = g.die[d].cnt - 1
              /\ t.block[d][t.die[d].current].page = 0
          BY <5>3 DEF OpenedOK
        <5>5. 1 <= t.die[d].cnt
          BY <4>6, <5>4
        <5>6. Ready(t)
          BY <4>4, <5>4, <5>5, OthersReady
        <5> QED
          BY <1>3, <4>3, <5>4, <5>6 DEF RoomOK, CurrentPage, SameSlices
      <4> QED
        BY <4>3, <4>5, <4>6
    <3> QED
      BY <3>3, <3>4
  <2> QED
    BY <2>2, <2>3
<1>6. CurrentPage(s, d) < PagesPerBlock \/ CurrentPage(s, d) = PagesPerBlock
  BY <1>2
<1> QED
  BY <1>4, <1>5, <1>6

\* The fields of the record.
IsRecord(s) ==
    /\ DOMAIN s = {"map", "rev", "block", "die", "victims", "flash", "reqs", "failed"}
    /\ s = [x \in DOMAIN s |-> s[x]]

\* Two records that differ in what the pages hold.
SameLists(s, t) ==
    /\ IsRecord(s) /\ IsRecord(t)
    /\ t.block = s.block /\ t.die = s.die /\ t.victims = s.victims
    /\ t.map = s.map /\ t.rev = s.rev

LEMMA SelectiveSame ==
    ASSUME NEW s, NEW o, SameLists(s, o), NEW d, NEW b,
           NEW x, x = SelectiveGetFromGcVictimList(s, d, b),
           NEW y, y = SelectiveGetFromGcVictimList(o, d, b)
    PROVE  SameLists(x, y)
<1>1. IsRecord(x) /\ IsRecord(y)
  BY Zenon DEF SelectiveGetFromGcVictimList, IsRecord, SameLists
<1>2. y.die = x.die /\ y.map = x.map /\ y.rev = x.rev
  BY Zenon DEF SelectiveGetFromGcVictimList, IsRecord, SameLists
<1>3. y.block = x.block
  <2> DEFINE Blk(B) == [k \in Blocks |->
                          CASE k = B[b].prev -> [B[k] EXCEPT !.next = B[b].next]
                            [] k = B[b].next -> [B[k] EXCEPT !.prev = B[b].prev]
                            [] OTHER -> B[k]]
  <2>1. x.block = [s.block EXCEPT ![d] = Blk(s.block[d])]
    BY Zenon DEF SelectiveGetFromGcVictimList, IsRecord, SameLists
  <2>2. y.block = [o.block EXCEPT ![d] = Blk(o.block[d])]
    BY Zenon DEF SelectiveGetFromGcVictimList, IsRecord, SameLists
  <2> HIDE DEF Blk
  <2> QED
    BY <2>1, <2>2 DEF SameLists
<1>4. y.victims = x.victims
  BY Zenon DEF SelectiveGetFromGcVictimList, IsRecord, SameLists
<1> QED
  BY <1>1, <1>2, <1>3, <1>4 DEF SameLists

LEMMA DroppedSame ==
    ASSUME NEW s, NEW o, SameLists(s, o), NEW d, NEW b, NEW l,
           NEW x, x = Dropped(s, d, b, l), NEW y, y = Dropped(o, d, b, l)
    PROVE  SameLists(x, y)
<1>1. IsRecord(x) /\ IsRecord(y)
  BY DEF Dropped, IsRecord, SameLists
<1>2. y.die = x.die /\ y.map = x.map /\ y.rev = x.rev /\ y.victims = x.victims
  BY DEF Dropped, IsRecord, SameLists
<1>3. y.block = x.block
  BY DEF Dropped, IsRecord, SameLists
<1> QED
  BY <1>1, <1>2, <1>3 DEF SameLists

LEMMA PutVictimSame ==
    ASSUME NEW s, NEW o, SameLists(s, o), NEW d, NEW b,
           NEW x, x = PutToGcVictimList(s, d, b), NEW y, y = PutToGcVictimList(o, d, b)
    PROVE  SameLists(x, y)
<1>1. IsRecord(x) /\ IsRecord(y)
  BY Zenon DEF PutToGcVictimList, IsRecord, SameLists
<1>2. y.die = x.die /\ y.map = x.map /\ y.rev = x.rev
  BY Zenon DEF PutToGcVictimList, IsRecord, SameLists
<1>3. y.block = x.block
  BY Zenon DEF PutToGcVictimList, IsRecord, SameLists
<1>4. y.victims = x.victims
  BY Zenon DEF PutToGcVictimList, IsRecord, SameLists
<1> QED
  BY <1>1, <1>2, <1>3, <1>4 DEF SameLists

\* The guard of EvictDataBufEntry looks at the lists the write will find.
LEMMA GuardSame ==
    ASSUME NEW s, Good(s, NoneOut), NEW l \in Lsas, NEW d,
           NEW x, x = InvalidateOldVsa(s, l), NEW y, y = InvalidateOldVsa(Outdated(s, l), l)
    PROVE  EatsOpenBlock(x, d) <=> EatsOpenBlock(y, d)
<1>1. PICK o : o = Outdated(s, l)
  OBVIOUS
<1>2. SameLists(s, o)
  <2>1. IsMaps(s) /\ OutdatedFields(s, l, o)
    BY <1>1, OutdatedIs DEF Good
  <2>2. IsRecord(s) /\ IsRecord(o)
    BY <2>1 DEF OutdatedFields, IsMaps, IsRecord
  <2> QED
    BY <2>1, <2>2 DEF OutdatedFields, SameLists
<1>3. SameLists(x, y)
  <2>1. PICK v : v = s.map[l]
    OBVIOUS
  <2>2. o.map[l] = v /\ o.rev[v] = s.rev[v]
    BY <1>2, <2>1 DEF SameLists
  <2>3. CASE v = None \/ s.rev[v] # l
    BY <1>1, <1>2, <2>1, <2>2, <2>3 DEF InvalidateOldVsa
  <2>4. CASE ~ (v = None \/ s.rev[v] # l)
    <3>1. PICK e, b : e = v[1] /\ b = v[2]
      OBVIOUS
    <3>2. PICK s1, o1 : /\ s1 = SelectiveGetFromGcVictimList(s, e, b)
                        /\ o1 = SelectiveGetFromGcVictimList(o, e, b)
      OBVIOUS
    <3>3. PICK s2, o2 : s2 = Dropped(s1, e, b, l) /\ o2 = Dropped(o1, e, b, l)
      OBVIOUS
    <3>4. x = PutToGcVictimList(s2, e, b)
      BY <2>1, <2>4, <3>1, <3>2, <3>3, Zenon DEF InvalidateOldVsa, Dropped
    <3>5. y = PutToGcVictimList(o2, e, b)
      BY <1>1, <2>2, <2>4, <3>1, <3>2, <3>3, Zenon DEF InvalidateOldVsa, Dropped
    <3>6. SameLists(s1, o1)
      BY <1>2, <3>2, SelectiveSame
    <3>7. SameLists(s2, o2)
      BY <3>3, <3>6, DroppedSame
    <3> QED
      BY <3>4, <3>5, <3>7, PutVictimSame
  <2> QED
    BY <2>3, <2>4
<1>4. x.block = y.block /\ x.die = y.die /\ x.victims = y.victims
  BY <1>3 DEF SameLists
<1>5. VictimCount(x, d) = VictimCount(y, d)
  BY <1>4 DEF VictimCount
<1>6. NeedsGc(x, d) <=> NeedsGc(y, d)
  BY <1>4 DEF NeedsGc, CurrentPage, FreeBlockFor
<1> QED
  BY <1>4, <1>5, <1>6 DEF EatsOpenBlock

\* A write that finds no victim.
NoVictim(s, l, d) ==
    LET y == InvalidateOldVsa(Outdated(s, l), l)
    IN  NeedsGc(y, d) /\ VictimCount(y, d) = None

LEMMA WriteGood ==
    ASSUME NEW s, Ready(s), s.failed = None, NEW d \in AllDies, NEW l \in Lsas,
           ~EatsOpenBlock(InvalidateOldVsa(s, l), d),
           NEW t, t = AddrTransWrite(Outdated(s, l), d, l, l)
    PROVE  /\ Ready(t)
           /\ t.failed # None => t.failed = "no victim" /\ NoVictim(s, l, d)
<1>1. PICK y : y = InvalidateOldVsa(Outdated(s, l), l)
  OBVIOUS
<1>2. InvalidatedOK(s, l, y)
  BY <1>1, InvalidatedGood DEF Ready
<1>3. Good(y, NoneOut) /\ y.map[l] = None /\ y.failed = None /\ \A e \in AllDies : y.die[e] = s.die[e]
  BY <1>2 DEF InvalidatedOK
<1>4. Ready(y)
  BY <1>3 DEF Ready
<1>5. ~EatsOpenBlock(y, d)
  BY <1>1, GuardSame DEF Ready
<1>6. PICK r : r = Room(y, d)
  OBVIOUS
<1>7. CASE RoomOK(y, d, r)
  <2>1. /\ Ready(r) /\ Good(r, NoneOut) /\ r.failed = None /\ r.map[l] = None
        /\ CurrentPage(r, d) < PagesPerBlock
    BY <1>3, <1>7 DEF RoomOK, Ready
  <2>2. t = Program(r, d, l, l)
    BY <1>1, <1>6, <2>1 DEF AddrTransWrite
  <2>3. PICK b, p : b = r.die[d].current /\ p = r.block[d][b].page
    OBVIOUS
  <2>4. b \in Blocks /\ b \notin NoneOut[d] /\ p < PagesPerBlock
    BY <2>1, <2>3 DEF Ready, NoneOut, CurrentPage
  <2>5. Good(t, NoneOut) /\ ProgramFields(r, d, b, p, l, t)
    BY <2>1, <2>2, <2>3, <2>4, ProgramGood
  <2>6. t.failed = r.failed /\ t.die = r.die
    BY <2>5 DEF ProgramFields
  <2>7. t.failed = None
    BY <2>1, <2>6
  <2>8. Ready(t)
    BY <2>1, <2>5, <2>6 DEF Ready
  <2> QED
    BY <2>7, <2>8
<1>8. CASE NeedsGc(y, d) /\ VictimCount(y, d) = None /\ r = Fail(y, "no victim")
  <2>1. Good(r, NoneOut) /\ SameMaps(y, r) /\ r.failed = "no victim"
    <3>1. PICK why : why = "no victim"
      OBVIOUS
    <3>2. r = Fail(y, why)
      BY <1>8, <3>1
    <3>3. Good(r, NoneOut) /\ SameMaps(y, r) /\ r.failed = why
      BY <1>3, <3>2, FailedGood
    <3> QED
      BY <3>1, <3>3
  <2>2. r.failed # None
    BY <2>1, Marks
  <2>3. t = r
    BY <1>1, <1>6, <2>2 DEF AddrTransWrite
  <2> QED
    BY <1>1, <1>4, <1>8, <2>1, <2>3 DEF Ready, SameMaps, NoVictim
<1> QED
  BY <1>3, <1>4, <1>5, <1>6, <1>7, <1>8, RoomGood

(***************************************************************************)
(* Start-up                                                                *)
(***************************************************************************)

\* The blocks of a die after InitBlockMap.
FreshBlocks ==
    [b \in Blocks |-> [NewBlock EXCEPT !.prev = IF b = 0 THEN None ELSE b - 1,
                                       !.next = IF b = NumBlocks - 1 THEN None ELSE b + 1]]

LEMMA FreshIs ==
    ASSUME NEW b \in Blocks
    PROVE  /\ FreshBlocks[b] \in BlockRec
           /\ FreshBlocks[b].free /\ FreshBlocks[b].invalid = 0 /\ FreshBlocks[b].page = 0
           /\ FreshBlocks[b].prev = IF b = 0 THEN None ELSE b - 1
           /\ FreshBlocks[b].next = IF b = NumBlocks - 1 THEN None ELSE b + 1
<1>1. b # 0 => b - 1 \in Blocks
  BY Sizes DEF Blocks
<1>2. b # NumBlocks - 1 => b + 1 \in Blocks
  BY Sizes DEF Blocks
<1>3. 0 \in 0 .. PagesPerBlock
  BY Sizes
<1>4. PICK a, c : /\ a = IF b = 0 THEN None ELSE b - 1
                  /\ c = IF b = NumBlocks - 1 THEN None ELSE b + 1
  OBVIOUS
<1>5. FreshBlocks[b] = [NewBlock EXCEPT !.prev = a, !.next = c]
  BY <1>4 DEF FreshBlocks
<1>6. NewBlock \in [free : {TRUE}, invalid : {0}, page : {0}, prev : {None}, next : {None}]
  BY DEF NewBlock
<1>7. FreshBlocks[b] \in [free : {TRUE}, invalid : {0}, page : {0}, prev : {a}, next : {c}]
  BY <1>5, <1>6
<1>8. a \in Links /\ c \in Links
  BY <1>1, <1>2, <1>4 DEF Links
<1>9. FreshBlocks[b] \in BlockRec
  BY <1>3, <1>7, <1>8 DEF BlockRec
<1> QED
  BY <1>4, <1>7, <1>9

\* All blocks are in the free list, in order.
LEMMA FreshList == Listing(Blocks, FreshBlocks, [head |-> 0, tail |-> NumBlocks - 1])
<1> DEFINE pos == [b \in Blocks |-> b]
           list == [head |-> 0, tail |-> NumBlocks - 1]
<1>1. list.head = 0 /\ list.tail = NumBlocks - 1
  OBVIOUS
<1>2. 0 \in Blocks /\ NumBlocks - 1 \in Blocks
  BY Sizes DEF Blocks
<1>3. FreshBlocks[0].prev = None /\ FreshBlocks[NumBlocks - 1].next = None
  BY <1>2, FreshIs
<1>4. ASSUME NEW x \in Blocks
      PROVE  /\ pos[x] \in Nat
             /\ FreshBlocks[x].next # None =>
                  /\ FreshBlocks[x].next \in Blocks
                  /\ FreshBlocks[FreshBlocks[x].next].prev = x
                  /\ pos[x] < pos[FreshBlocks[x].next]
             /\ FreshBlocks[x].prev # None =>
                  FreshBlocks[x].prev \in Blocks /\ FreshBlocks[FreshBlocks[x].prev].next = x
             /\ FreshBlocks[x].prev = None => 0 = x
             /\ FreshBlocks[x].next = None => NumBlocks - 1 = x
  <2>1. x \in Nat /\ pos[x] = x
    BY Sizes DEF Blocks
  <2>2. PICK n, p : n = FreshBlocks[x].next /\ p = FreshBlocks[x].prev
    OBVIOUS
  <2>3. /\ p = IF x = 0 THEN None ELSE x - 1
        /\ n = IF x = NumBlocks - 1 THEN None ELSE x + 1
    BY <2>2, FreshIs
  <2>4. x # NumBlocks - 1 => x + 1 \in Blocks /\ x < x + 1 /\ x + 1 # 0 /\ x + 1 - 1 = x
    BY <2>1, Sizes DEF Blocks
  <2>5. x # 0 => x - 1 \in Blocks /\ x - 1 # NumBlocks - 1 /\ x - 1 + 1 = x
    BY <2>1, Sizes DEF Blocks
  <2>6. x # 0 => p # None
    BY <2>3, <2>5, Marks
  <2>7. x # NumBlocks - 1 => n # None
    BY <2>3, <2>4, Marks
  <2>8. x # NumBlocks - 1 => FreshBlocks[x + 1].prev = x /\ pos[x + 1] = x + 1
    <3>1. PICK y : y = x + 1
      OBVIOUS
    <3>2. ASSUME x # NumBlocks - 1 PROVE y \in Blocks /\ y # 0 /\ y - 1 = x
      BY <2>1, <2>4, <3>1, <3>2
    <3>3. ASSUME x # NumBlocks - 1 PROVE FreshBlocks[y].prev = x
      BY <3>2, <3>3, FreshIs
    <3> QED
      BY <3>1, <3>2, <3>3
  <2>9. x # 0 => FreshBlocks[x - 1].next = x
    BY <2>5, FreshIs
  <2>10. n # None => n \in Blocks /\ FreshBlocks[n].prev = x /\ pos[x] < pos[n]
    <3>1. ASSUME n # None PROVE n = x + 1 /\ x # NumBlocks - 1
      BY <2>3, <3>1
    <3> HIDE DEF pos
    <3> QED
      BY <2>1, <2>4, <2>8, <3>1
  <2>11. p # None => p \in Blocks /\ FreshBlocks[p].next = x
    BY <2>3, <2>5, <2>9
  <2> HIDE DEF pos
  <2> QED
    BY <2>1, <2>2, <2>6, <2>7, <2>10, <2>11
<1> HIDE DEF pos, list
<1>5. IsList(Blocks, FreshBlocks, list, pos)
  BY <1>1, <1>2, <1>3, <1>4 DEF IsList
<1> QED
  BY <1>5 DEF Listing, list

LEMMA EmptyList ==
    ASSUME NEW blk PROVE Listing({}, blk, NoList)
<1>1. IsList({}, blk, NoList, {})
  BY DEF IsList, NoList
<1> QED
  BY <1>1 DEF Listing

LEMMA EmptyGood ==
    /\ Good(EmptyMaps, NoneOut) /\ EmptyMaps.failed = None
    /\ \A d \in AllDies : EmptyMaps.die[d].current = None /\ EmptyMaps.die[d].cnt = NumBlocks
<1>1. PICK s : s = EmptyMaps
  OBVIOUS
<1>2. /\ s.map = [l \in Lsas |-> None] /\ s.rev = [v \in Vsas |-> None]
      /\ s.flash = [v \in Vsas |-> None] /\ s.failed = None
      /\ DOMAIN s = {"map", "rev", "block", "die", "victims", "flash", "reqs", "failed"}
      /\ s = [x \in DOMAIN s |-> s[x]]
  BY <1>1 DEF EmptyMaps
<1>3. s.block = [d \in AllDies |-> FreshBlocks]
  BY <1>1 DEF EmptyMaps, FreshBlocks
<1> DEFINE list == [head |-> 0, tail |-> NumBlocks - 1]
           die == [current |-> None, cnt |-> NumBlocks, free |-> list]
           vic == [i \in 0 .. PagesPerBlock |-> NoList]
<1>4. s.die = [d \in AllDies |-> die] /\ s.victims = [d \in AllDies |-> vic]
  BY <1>1 DEF EmptyMaps
<1>5. FreshBlocks \in [Blocks -> BlockRec]
  <2>1. FreshBlocks = [b \in Blocks |-> FreshBlocks[b]]
    BY DEF FreshBlocks
  <2> QED
    BY <2>1, FreshIs
<1>6. die \in DieRec
  <2>1. 0 \in Blocks /\ NumBlocks - 1 \in Blocks /\ NumBlocks \in Nat
    BY Sizes DEF Blocks
  <2> QED
    BY <2>1 DEF DieRec, ListRec, Links
<1>7. vic \in [0 .. PagesPerBlock -> ListRec]
  BY DEF ListRec, Links, NoList
<1>8. die.current = None /\ die.cnt = NumBlocks /\ die.free = list
      /\ \A i \in 0 .. PagesPerBlock : vic[i] = NoList
  OBVIOUS
<1>9. Listing(Blocks, FreshBlocks, list)
  BY FreshList
<1> HIDE DEF die, vic, list
<1>10. /\ s.map \in [Lsas -> Vsas \cup {None}] /\ s.rev \in [Vsas -> Lsas \cup {None}]
       /\ s.block \in [AllDies -> [Blocks -> BlockRec]]
       /\ s.die \in [AllDies -> DieRec]
       /\ s.victims \in [AllDies -> [0 .. PagesPerBlock -> ListRec]]
       /\ s.flash \in [Vsas -> Lsas \cup {None, "stale"}]
  BY <1>2, <1>3, <1>4, <1>5, <1>6, <1>7
<1>11. IsMaps(s)
  BY <1>2, <1>10 DEF IsMaps
<1>12. DieOK(FreshBlocks, die, vic, {})
  <2>1. ASSUME NEW i \in 0 .. PagesPerBlock
        PROVE  Listing(InList(FreshBlocks, {}, i), FreshBlocks, ListAt(die, vic, i))
    <3>1. CASE i = 0
      <4>1. InList(FreshBlocks, {}, i) = Blocks
        BY <3>1, FreshIs DEF InList
      <4> QED
        BY <1>8, <1>9, <3>1, <4>1 DEF ListAt
    <3>2. CASE i # 0
      <4>1. InList(FreshBlocks, {}, i) = {}
        BY <3>2, FreshIs DEF InList
      <4>2. ListAt(die, vic, i) = NoList
        BY <1>8, <3>2 DEF ListAt
      <4> QED
        BY <4>1, <4>2, EmptyList
    <3> QED
      BY <3>1, <3>2
  <2>2. ListsOK(FreshBlocks, die, vic, {})
    BY <2>1, FreshIs DEF ListsOK
  <2>3. Free(FreshBlocks) = Blocks
    BY FreshIs DEF Free
  <2>4. die.cnt = Cardinality(Free(FreshBlocks))
    BY <1>8, <2>3, BlocksFinite
  <2> QED
    BY <1>8, <2>2, <2>4, FreshIs DEF DieOK
<1>13. \A d \in AllDies : DieOK(s.block[d], s.die[d], s.victims[d], NoneOut[d])
  BY <1>3, <1>4, <1>12 DEF NoneOut
<1>14. \A d \in AllDies, b \in Blocks, p \in Pages :
          /\ s.block[d][b].page = 0 /\ s.block[d][b].invalid = 0 /\ ~ (p < 0)
          /\ s.flash[<<d, b, p>>] = None /\ s.rev[<<d, b, p>>] = None
  <2>1. \A p \in Pages : ~ (p < 0)
    BY Sizes DEF Pages
  <2>2. ASSUME NEW d \in AllDies, NEW b \in Blocks
        PROVE  s.block[d][b].page = 0 /\ s.block[d][b].invalid = 0
    BY <1>3, FreshIs
  <2>3. ASSUME NEW d \in AllDies, NEW b \in Blocks, NEW p \in Pages
        PROVE  s.flash[<<d, b, p>>] = None /\ s.rev[<<d, b, p>>] = None
    BY <1>2, VsaIs
  <2> QED
    BY <2>1, <2>2, <2>3
<1>15. PagesOK(s)
  BY <1>14 DEF PagesOK
<1>16. CountOK(s, NoneOut)
  <2>1. ASSUME NEW d \in AllDies, NEW b \in Blocks
        PROVE  s.block[d][b].invalid = 0 /\ InvalidPages(s, d, b) = {}
    <3>1. s.block[d][b].invalid = 0 /\ s.block[d][b].page = 0
      BY <1>3, FreshIs
    <3> QED
      BY <1>14, <3>1 DEF InvalidPages
  <2>2. Cardinality({}) = 0
    BY FS_EmptySet
  <2> QED
    BY <2>1, <2>2 DEF CountOK
<1>17. MapOK(s)
  <2>1. \A l \in Lsas : l # None
    BY Marks
  <2> QED
    BY <1>2, <2>1 DEF MapOK
<1>18. \A d \in AllDies : s.die[d].current = None /\ s.die[d].cnt = NumBlocks
  BY <1>4, <1>8
<1>19. Good(s, NoneOut)
  BY <1>11, <1>13, <1>15, <1>16, <1>17 DEF Good
<1> QED
  BY <1>1, <1>2, <1>18, <1>19

\* The first n dies have an open block.
DiesOpen(n, s) ==
    /\ Good(s, NoneOut) /\ s.failed = None
    /\ \A d \in AllDies :
         IF d < n THEN s.die[d].current \in Blocks /\ s.die[d].cnt = NumBlocks - 1
         ELSE s.die[d].current = None /\ s.die[d].cnt = NumBlocks

LEMMA OneDieOpened ==
    ASSUME NEW n \in 1 .. NumDies, NEW s, DiesOpen(n - 1, s), NEW t, t = OpenBlock(s, n - 1, "normal")
    PROVE  DiesOpen(n, t)
<1>1. PICK d : d = n - 1
  OBVIOUS
<1>2. d \in AllDies /\ n \in Nat /\ ~ (d < n - 1) /\ d < n
  BY <1>1, Sizes DEF AllDies
<1>3. /\ Good(s, NoneOut) /\ s.failed = None
      /\ s.die[d].current = None /\ s.die[d].cnt = NumBlocks
  BY <1>2 DEF DiesOpen
<1>4. 1 <= s.die[d].cnt /\ 2 <= s.die[d].cnt
  BY <1>3, Sizes
<1>5. OpenedOK(s, d, NoneOut, t)
  <2>1. PICK option : option = "normal"
    OBVIOUS
  <2>2. t = OpenBlock(s, d, option)
    BY <1>1, <2>1
  <2> QED
    BY <1>2, <1>3, <1>4, <2>2, OpenBlockGood
<1>6. /\ Good(t, NoneOut) /\ t.failed = None /\ OtherDies(s, t, d)
      /\ t.die[d].current \in Blocks /\ t.die[d].cnt = NumBlocks - 1
  BY <1>3, <1>5 DEF OpenedOK
<1>7. ASSUME NEW e \in AllDies
      PROVE  IF e < n THEN t.die[e].current \in Blocks /\ t.die[e].cnt = NumBlocks - 1
             ELSE t.die[e].current = None /\ t.die[e].cnt = NumBlocks
  <2>1. CASE e = d
    BY <1>2, <1>6, <2>1
  <2>2. CASE e # d
    <3>1. t.die[e] = s.die[e]
      BY <1>6, <2>2 DEF OtherDies
    <3>2. e < n <=> e < n - 1
      BY <1>1, <2>2, Sizes DEF AllDies
    <3>3. IF e < n - 1 THEN s.die[e].current \in Blocks /\ s.die[e].cnt = NumBlocks - 1
          ELSE s.die[e].current = None /\ s.die[e].cnt = NumBlocks
      BY DEF DiesOpen
    <3> QED
      BY <3>1, <3>2, <3>3
  <2> QED
    BY <2>1, <2>2
<1> QED
  BY <1>6, <1>7 DEF DiesOpen

\* The states between the dies.
IsOpening(f, s, n) ==
    f = [i \in 0 .. n |-> IF i = 0 THEN s ELSE OpenBlock(f[i - 1], i - 1, "normal")]

LEMMA OpeningExists ==
    ASSUME NEW s, NEW n \in Nat
    PROVE  \E f : IsOpening(f, s, n)
<1> DEFINE T == {k \in Nat : \E f : IsOpening(f, s, k)}
<1>1. 0 \in T
  <2> DEFINE f == [i \in 0 .. 0 |-> s]
  <2>1. f = [i \in 0 .. 0 |-> IF i = 0 THEN s ELSE OpenBlock(f[i - 1], i - 1, "normal")]
    OBVIOUS
  <2>2. IsOpening(f, s, 0)
    BY <2>1 DEF IsOpening
  <2> HIDE DEF f
  <2> QED
    BY <2>2
<1>2. ASSUME NEW k \in 1 .. n, k - 1 \in T PROVE k \in T
  <2>1. PICK f : IsOpening(f, s, k - 1)
    BY <1>2
  <2> DEFINE g == [i \in 0 .. k |-> IF i = k THEN OpenBlock(f[k - 1], k - 1, "normal") ELSE f[i]]
  <2>2. ASSUME NEW i \in 0 .. k
        PROVE  g[i] = IF i = 0 THEN s ELSE OpenBlock(g[i - 1], i - 1, "normal")
    <3>1. CASE i = k
      <4>1. i # 0 /\ i - 1 = k - 1 /\ i - 1 \in 0 .. k /\ i - 1 # k
        BY <3>1
      <4>2. g[i - 1] = f[k - 1] /\ g[i] = OpenBlock(f[k - 1], k - 1, "normal")
        BY <3>1, <4>1
      <4> QED
        BY <3>1, <4>1, <4>2
    <3>2. CASE i # k
      <4>1. i \in 0 .. k - 1
        BY <3>2
      <4>2. f[i] = IF i = 0 THEN s ELSE OpenBlock(f[i - 1], i - 1, "normal")
        BY <2>1, <4>1 DEF IsOpening
      <4>3. g[i] = f[i]
        BY <3>2
      <4>4. i # 0 => i - 1 \in 0 .. k /\ i - 1 # k
        BY <4>1
      <4>5. i # 0 => g[i - 1] = f[i - 1]
        BY <4>4
      <4> QED
        BY <4>2, <4>3, <4>5
    <3> QED
      BY <3>1, <3>2
  <2>3. IsOpening(g, s, k)
    BY <2>2 DEF IsOpening
  <2>4. k \in Nat
    OBVIOUS
  <2> HIDE DEF g
  <2> QED
    BY <2>3, <2>4
<1> HIDE DEF T
<1>3. n \in T
  BY <1>1, <1>2, UpTo
<1> QED
  BY <1>3 DEF T

LEMMA OpenDiesGood ==
    ASSUME NEW t, t = OpenDies(EmptyMaps)
    PROVE  Ready(t) /\ t.failed = None
<1>0. NumDies \in Nat
  BY Sizes
<1>1. PICK s : s = EmptyMaps
  OBVIOUS
<1> DEFINE Rec(f) == f = [i \in 0 .. NumDies |->
                            IF i = 0 THEN s ELSE OpenBlock(f[i - 1], i - 1, "normal")]
<1>2. \E f : Rec(f)
  <2>1. PICK f : IsOpening(f, s, NumDies)
    BY <1>0, OpeningExists
  <2>2. Rec(f)
    BY <2>1 DEF IsOpening
  <2> HIDE DEF Rec
  <2> QED
    BY <2>2
<1> DEFINE f == CHOOSE g : Rec(g)
<1>3. Rec(f)
  BY <1>2
<1>4. t = f[NumDies]
  BY <1>1 DEF OpenDies
<1> HIDE DEF f
<1>5. /\ f[0] = s
      /\ \A i \in 1 .. NumDies : f[i] = OpenBlock(f[i - 1], i - 1, "normal")
  BY <1>0, <1>3
<1> DEFINE T == {i \in 0 .. NumDies : DiesOpen(i, f[i])}
<1>6. 0 \in T
  <2>1. \A d \in AllDies : ~ (d < 0)
    BY Sizes DEF AllDies
  <2>2. DiesOpen(0, s)
    BY <1>1, <2>1, EmptyGood DEF DiesOpen
  <2> QED
    BY <1>0, <1>5, <2>2
<1>7. ASSUME NEW i \in 1 .. NumDies, i - 1 \in T PROVE i \in T
  <2>1. DiesOpen(i - 1, f[i - 1]) /\ f[i] = OpenBlock(f[i - 1], i - 1, "normal")
    BY <1>5, <1>7
  <2>2. DiesOpen(i, f[i])
    BY <2>1, OneDieOpened
  <2> QED
    BY <1>0, <2>2
<1> HIDE DEF T
<1>8. NumDies \in T
  BY <1>0, <1>6, <1>7, UpTo
<1>9. DiesOpen(NumDies, t)
  BY <1>4, <1>8 DEF T
<1>10. \A d \in AllDies : d < NumDies
  BY Sizes DEF AllDies
<1>11. 1 <= NumBlocks - 1
  BY Sizes
<1> QED
  BY <1>9, <1>10, <1>11 DEF DiesOpen, Ready

(***************************************************************************)
(* The inductive invariant, and what follows from it                       *)
(***************************************************************************)

IInv ==
    /\ Ready(m) /\ targetDie \in AllDies
    /\ m.failed = None \/ m.failed = "no victim"

LEMMA InitOK == Init => IInv
<1>1. 0 \in AllDies
  BY Sizes DEF AllDies
<1> QED
  BY <1>1, OpenDiesGood DEF Init, IInv

\* A write leaves the invariant, and fails only for want of a victim.
LEMMA EvictOK ==
    ASSUME ~WholeBlockRewrites, IInv, NEW l \in Lsas, EvictDataBufEntry(l)
    PROVE  /\ IInv' /\ m.failed = None
           /\ m'.failed # None => NoVictim(m, l, targetDie)
<1>1. Ready(m) /\ m.failed = None /\ targetDie \in AllDies /\ ~RewritesOpenBlock(l)
  BY DEF IInv, EvictDataBufEntry
<1>2. ~EatsOpenBlock(InvalidateOldVsa(m, l), targetDie)
  BY <1>1 DEF RewritesOpenBlock, EatsOpenBlock
<1>3. PICK t : t = AddrTransWrite(Outdated(m, l), targetDie, l, l)
  OBVIOUS
<1>4. Ready(t) /\ (t.failed # None => t.failed = "no victim" /\ NoVictim(m, l, targetDie))
  BY <1>1, <1>2, <1>3, WriteGood
<1>5. PICK r : r = << >>
  OBVIOUS
<1>6. m' = [t EXCEPT !.reqs = r]
  BY <1>3, <1>5 DEF EvictDataBufEntry
<1>7. Good(m', NoneOut) /\ SameMaps(t, m') /\ m'.failed = t.failed
  BY <1>4, <1>6, RequestedGood DEF Ready
<1>8. Ready(m')
  BY <1>4, <1>7 DEF Ready, SameMaps
<1>9. targetDie' \in AllDies
  <2>1. targetDie \in Nat /\ NumDies \in Nat /\ 0 < NumDies
    BY <1>1, Sizes DEF AllDies
  <2>2. (targetDie + 1) % NumDies \in 0 .. NumDies - 1
    BY <2>1
  <2> QED
    BY <2>2 DEF EvictDataBufEntry, FindDieForFreeSliceAllocation, AllDies
<1>10. m'.failed = None \/ m'.failed = "no victim"
  BY <1>4, <1>7
<1>11. m'.failed # None => NoVictim(m, l, targetDie)
  BY <1>4, <1>7
<1>12. IInv'
  BY <1>8, <1>9, <1>10 DEF IInv
<1> QED
  BY <1>1, <1>11, <1>12

LEMMA InvariantHolds ==
    ASSUME ~WholeBlockRewrites PROVE Spec => []IInv
<1>1. IInv /\ [Next]_vars => IInv'
  <2> SUFFICES ASSUME IInv, [Next]_vars PROVE IInv'
    OBVIOUS
  <2>1. CASE Next
    BY <2>1, EvictOK DEF Next
  <2>2. CASE UNCHANGED vars
    BY <2>2 DEF vars, IInv
  <2> QED
    BY <2>1, <2>2
<1> QED
  BY <1>1, InitOK, PTL DEF Spec

\* The length of the chain of a list is the number of its blocks.
LEMMA ChainLength ==
    ASSUME NEW c, NEW S, c \in Seq(S), Nodes(c) = S, \A i, j \in DOMAIN c : c[i] = c[j] => i = j
    PROVE  Len(c) = Cardinality(S)
<1>1. Len(c) \in Nat /\ DOMAIN c = 1 .. Len(c) /\ c \in [1 .. Len(c) -> S]
  OBVIOUS
<1>2. \A x \in S : \E i \in 1 .. Len(c) : c[i] = x
  BY <1>1 DEF Nodes
<1>3. c \in Bijection(1 .. Len(c), S)
  BY <1>1, <1>2 DEF Bijection, Injection, Surjection, IsInjective
<1>4. ExistsBijection(1 .. Len(c), S)
  BY <1>3 DEF ExistsBijection
<1> QED
  BY <1>1, <1>4, FS_CountingElements

LEMMA ListOfOK ==
    ASSUME NEW d, NEW list, NEW S, Listing(S, m.block[d], list)
    PROVE  ListOf(d, list, S)
<1> DEFINE next == [b \in Blocks |-> m.block[d][b].next]
           c == Chain(next, list.head, NumBlocks, None)
<1>1. Enumerates(c, S, next, list.head, None)
  BY ListChain
<1>2. PICK blk, pos : blk = m.block[d] /\ IsList(S, blk, list, pos)
  BY DEF Listing
<1>3. \A x \in S : next[x] = blk[x].next /\ x # None
  <2>1. S \subseteq Blocks
    BY <1>2, Zenon DEF IsList
  <2>2. None \notin Blocks
    BY Marks
  <2>3. \A x \in S : next[x] = m.block[d][x].next
    BY <2>1
  <2> QED
    BY <1>2, <2>1, <2>2, <2>3, Zenon
<1> HIDE DEF c, next
<1>4. /\ c \in Seq(S) /\ Nodes(c) = S /\ \A i, j \in DOMAIN c : c[i] = c[j] => i = j
      /\ Follows(c, next, list.head, None)
      /\ Len(c) \in Nat /\ DOMAIN c = 1 .. Len(c) /\ \A i \in DOMAIN c : c[i] \in S
  BY <1>1 DEF Enumerates
<1>5. Len(c) = Cardinality(S)
  BY <1>4, ChainLength
<1>6. list.tail = IF S = {} THEN None ELSE c[Len(c)]
  <2>1. CASE S = {}
    BY <2>1, ListEmpty
  <2>2. CASE S # {}
    <3>1. c # << >>
      BY <1>4, <2>2 DEF Nodes
    <3>2. Len(c) \in DOMAIN c /\ c[Len(c)] \in S
      BY <1>4, <3>1
    <3>3. next[c[Len(c)]] = None
      BY <1>4, <3>1 DEF Follows
    <3>4. PICK x : x = c[Len(c)]
      OBVIOUS
    <3>5. x \in S /\ blk[x].next = None
      BY <1>3, <3>2, <3>3, <3>4
    <3>6. list.tail = x
      BY <1>2, <3>5 DEF IsList
    <3> QED
      BY <2>2, <3>4, <3>6
  <2> QED
    BY <2>1, <2>2
<1>7. ASSUME NEW k \in 1 .. Len(c)
      PROVE  m.block[d][c[k]].prev = IF k = 1 THEN None ELSE c[k - 1]
  <2>1. CASE k = 1
    <3>1. c # << >> /\ c[1] \in S
      BY <1>4, <2>1
    <3>2. list.head = c[1] /\ list.head # None
      BY <1>3, <1>4, <3>1 DEF Follows
    <3> QED
      BY <1>2, <2>1, <3>2 DEF IsList
  <2>2. CASE k # 1
    <3>1. k - 1 \in 1 .. Len(c) - 1 /\ k - 1 \in DOMAIN c /\ k \in DOMAIN c /\ (k - 1) + 1 = k
      BY <1>4, <2>2
    <3>2. PICK x, y : x = c[k - 1] /\ y = c[k]
      OBVIOUS
    <3>3. next[x] = y /\ x \in S /\ y \in S
      BY <1>4, <3>1, <3>2 DEF Follows
    <3>4. blk[x].next = y /\ y # None
      BY <1>3, <3>3
    <3>5. blk[y].prev = x
      BY <1>2, <3>3, <3>4 DEF IsList
    <3> QED
      BY <1>2, <2>2, <3>2, <3>5
  <2> QED
    BY <2>1, <2>2
<1> QED
  BY <1>4, <1>5, <1>6, <1>7 DEF ListOf, c, next

LEMMA ListsExactOK == ASSUME IInv PROVE ListsExact
<1> SUFFICES ASSUME NEW d \in AllDies
             PROVE  LET free == {b \in Blocks : m.block[d][b].free}
                    IN  /\ ListOf(d, m.die[d].free, free)
                        /\ m.die[d].cnt = Cardinality(free)
                        /\ m.die[d].current \notin free
                        /\ \A i \in 1 .. PagesPerBlock :
                              ListOf(d, m.victims[d][i],
                                     {b \in Blocks \ free : m.block[d][b].invalid = i})
  BY DEF ListsExact
<1> DEFINE free == {b \in Blocks : m.block[d][b].free}
<1>1. PICK blk, die, vic : blk = m.block[d] /\ die = m.die[d] /\ vic = m.victims[d]
  OBVIOUS
<1>2. DieOK(blk, die, vic, {}) /\ die.current \in Blocks
  BY <1>1 DEF IInv, Ready, Good, NoneOut
<1>3. \A i \in 0 .. PagesPerBlock : Listing(InList(blk, {}, i), blk, ListAt(die, vic, i))
  BY <1>2 DEF DieOK, ListsOK
<1>4. ListOf(d, m.die[d].free, free)
  <2>1. 0 \in 0 .. PagesPerBlock
    BY Sizes
  <2>2. InList(blk, {}, 0) = free
    BY <1>1 DEF InList
  <2>3. Listing(free, blk, die.free)
    BY <1>3, <2>1, <2>2 DEF ListAt
  <2> QED
    BY <1>1, <2>3, ListOfOK
<1>5. m.die[d].cnt = Cardinality(free) /\ m.die[d].current \notin free
  <2>1. free = Free(blk)
    BY <1>1 DEF Free
  <2>2. die.cnt = Cardinality(Free(blk)) /\ ~blk[die.current].free
    BY <1>2, Marks DEF DieOK
  <2> QED
    BY <1>1, <2>1, <2>2
<1>6. ASSUME NEW i \in 1 .. PagesPerBlock
      PROVE  ListOf(d, m.victims[d][i], {b \in Blocks \ free : m.block[d][b].invalid = i})
  <2>1. i \in 0 .. PagesPerBlock /\ i # 0
    OBVIOUS
  <2>2. InList(blk, {}, i) = {b \in Blocks \ free : m.block[d][b].invalid = i}
    BY <1>1, <2>1 DEF InList
  <2>3. Listing({b \in Blocks \ free : m.block[d][b].invalid = i}, blk, vic[i])
    BY <1>3, <2>1, <2>2 DEF ListAt
  <2> QED
    BY <1>1, <2>3, ListOfOK
<1> QED
  BY <1>4, <1>5, <1>6

LEMMA TypeCorrect == ASSUME IInv PROVE TypeOK
<1>1. IsMaps(m) /\ targetDie \in AllDies
  BY DEF IInv, Ready, Good
<1>2. ASSUME NEW d \in AllDies
      PROVE  /\ m.block[d] \in [Blocks -> [free : BOOLEAN, invalid : 0 .. PagesPerBlock,
                                           page : 0 .. PagesPerBlock,
                                           prev : Blocks \cup {None}, next : Blocks \cup {None}]]
             /\ m.die[d].current \in Blocks /\ m.die[d].cnt \in 0 .. NumBlocks
  <2>1. m.block[d] \in [Blocks -> BlockRec]
    BY <1>1, DieIs
  <2>2. m.die[d].current \in Blocks
    BY DEF IInv, Ready
  <2>3. m.die[d].cnt \in 0 .. NumBlocks
    <3>1. m.die[d].cnt = Cardinality(Free(m.block[d]))
      BY DEF IInv, Ready, Good, DieOK
    <3>2. Free(m.block[d]) \subseteq Blocks
      BY DEF Free
    <3>3. Cardinality(Free(m.block[d])) <= NumBlocks /\ Cardinality(Free(m.block[d])) \in Nat
      BY <3>2, BlocksFinite, FreeFinite, FS_Subset
    <3> QED
      BY <3>1, <3>3, Sizes
  <2> QED
    BY <2>1, <2>2, <2>3 DEF BlockRec, Links
<1>3. m.map \in [Lsas -> Vsas \cup {None}] /\ m.rev \in [Vsas -> Lsas \cup {None}]
  BY <1>1, MapsAre
<1> QED
  BY <1>1, <1>2, <1>3 DEF TypeOK

\* What the allocator and the garbage collector decide by is right after any sequence of
\* evictions, on any number of dies, blocks, pages and slices: every block is in the
\* list it should be in and in no other, with links that agree both ways, every
\* invalidSliceCnt is the number of invalid pages of its block, and every die keeps the
\* free block that the next garbage collection copies to.  Only a host that rewrites the
\* whole open block of a die that is out of blocks is excluded.
THEOREM BlockMapIsExact ==
    ASSUME ~WholeBlockRewrites PROVE Spec => []BlockMapExact
<1>1. ASSUME IInv PROVE BlockMapExact
  <2>1. InvalidCountExact
    <3>1. CountOK(m, NoneOut)
      BY <1>1 DEF IInv, Ready, Good
    <3> QED
      BY <3>1 DEF InvalidCountExact, CountOK, InvalidPages, NoneOut
  <2>2. KeepsSpareBlock
    <3>1. ASSUME NEW d \in AllDies PROVE m.die[d].cnt >= ReservedFreeBlockCount
      <4>1. 1 <= m.die[d].cnt /\ m.die[d].cnt \in Nat
        BY <1>1, DieIs DEF IInv, Ready, Good
      <4> QED
        BY <4>1 DEF ReservedFreeBlockCount
    <3> QED
      BY <3>1 DEF KeepsSpareBlock
  <2> QED
    BY <1>1, <2>1, <2>2, ListsExactOK, TypeCorrect DEF BlockMapExact
<1>2. IInv => BlockMapExact
  BY <1>1
<1> QED
  BY <1>2, InvariantHolds, PTL

\* No write is lost to the garbage collector, under the same hypothesis: every slice that
\* was written is mapped to a page that holds its last version, and a slice that is not
\* mapped was not written.
THEOREM NoDataIsLost ==
    ASSUME ~WholeBlockRewrites PROVE Spec => []NoDataLost
<1>1. ASSUME IInv PROVE NoDataLost
  <2>1. MapOK(m) /\ DOMAIN m.flash = Vsas
    BY <1>1, MapsAre DEF IInv, Ready, Good
  <2> QED
    BY <2>1 DEF MapOK, NoDataLost
<1>2. IInv => NoDataLost
  BY <1>1
<1> QED
  BY <1>2, InvariantHolds, PTL

\* The programmed pages of a block are those below its currentPage: the page that
\* FindFreeVirtualSlice hands out next is erased.
THEOREM ErasedPagesProgrammed ==
    ASSUME ~WholeBlockRewrites PROVE Spec => []ProgramsErasedPages
<1>1. IInv => ProgramsErasedPages
  BY DEF IInv, Ready, Good, PagesOK, ProgramsErasedPages
<1> QED
  BY <1>1, InvariantHolds, PTL

(***************************************************************************)
(* The garbage collector finds a victim                                    *)
(***************************************************************************)

\* A die without a victim and without a free block to spare has a slice in every other
\* page.
LEMMA DieIsFull ==
    ASSUME NEW s, Ready(s), NEW d \in AllDies,
           NeedsGc(s, d), VictimCount(s, d) = None, IsFiniteSet(Lsas)
    PROVE  Cardinality({x \in Lsas : s.map[x] # None /\ s.map[x][1] = d})
              >= (NumBlocks - 1) * PagesPerBlock
<1>1. /\ Good(s, NoneOut) /\ IsMaps(s) /\ CountOK(s, NoneOut)
      /\ s.die[d].current \in Blocks /\ 1 <= s.die[d].cnt
      /\ DieOK(s.block[d], s.die[d], s.victims[d], {})
  BY DEF Ready, Good, NoneOut
<1>2. PICK blk : blk = s.block[d]
  OBVIOUS
<1>3. s.die[d].cnt = 1 /\ blk[s.die[d].current].page = PagesPerBlock
  BY <1>1, <1>2, NoBlockLeft DEF NeedsGc, CurrentPage
<1> DEFINE U == Blocks \ Free(blk)
<1>4. IsFiniteSet(U) /\ Cardinality(U) = NumBlocks - 1
  <2>1. Cardinality(Free(blk)) = 1
    BY <1>1, <1>2, <1>3 DEF DieOK
  <2>2. Blocks \cap Free(blk) = Free(blk)
    BY DEF Free
  <2>3. IsFiniteSet(U) /\ Cardinality(U) = Cardinality(Blocks) - Cardinality(Blocks \cap Free(blk))
    BY BlocksFinite, FS_Difference
  <2> QED
    BY <2>1, <2>2, <2>3, BlocksFinite
<1>5. \A p \in Pages : p < PagesPerBlock
  BY Sizes DEF Pages
<1>6. ASSUME NEW b \in U, NEW p \in Pages PROVE Valid(s, <<d, b, p>>)
  <2>1. b \in Blocks /\ ~blk[b].free
    BY DEF Free
  <2>2. blk[b].page = PagesPerBlock
    BY <1>1, <1>2, <1>3, <2>1 DEF DieOK
  <2>3. blk[b].invalid = 0
    BY <1>1, <1>2, <2>1, VictimFound
  <2>4. b \notin NoneOut[d]
    BY DEF NoneOut
  <2>5. Cardinality(InvalidPages(s, d, b)) = 0
    BY <1>1, <1>2, <2>1, <2>3, <2>4 DEF CountOK
  <2>6. InvalidPages(s, d, b) = {}
    BY <2>5, InvalidPagesFinite, FS_EmptySet
  <2> QED
    BY <1>2, <1>5, <2>2, <2>6 DEF InvalidPages
<1> HIDE DEF U
<1> DEFINE A == U \X Pages
           V(x) == <<d, x[1], x[2]>>
           f == [x \in A |-> s.rev[V(x)]]
           L == {x \in Lsas : s.map[x] # None /\ s.map[x][1] = d}
<1>7. IsFiniteSet(A) /\ Cardinality(A) = (NumBlocks - 1) * PagesPerBlock
  BY <1>4, BlocksFinite, FS_Product
<1>8. IsFiniteSet(L)
  BY FS_Subset
<1>9. ASSUME NEW x \in A PROVE s.rev[V(x)] \in L /\ s.map[s.rev[V(x)]] = V(x)
  <2>1. x[1] \in U /\ x[2] \in Pages /\ x[1] \in Blocks
    BY DEF U
  <2>2. Valid(s, V(x)) /\ V(x) \in Vsas
    BY <1>6, <2>1, VsaIs
  <2>3. PICK y : y = s.rev[V(x)]
    OBVIOUS
  <2>4. y # None /\ s.map[y] = V(x)
    BY <2>2, <2>3 DEF Valid
  <2>5. y \in Lsas
    BY <1>1, <2>2, <2>3, <2>4, MapsAre
  <2>6. V(x) # None /\ V(x)[1] = d
    BY <2>2, Marks
  <2> QED
    BY <2>3, <2>4, <2>5, <2>6
<1>10. ASSUME NEW x \in A, NEW z \in A, s.rev[V(x)] = s.rev[V(z)] PROVE x = z
  <2>1. V(x) = V(z)
    BY <1>9, <1>10
  <2>2. x = <<x[1], x[2]>> /\ z = <<z[1], z[2]>>
    OBVIOUS
  <2> QED
    BY <2>1, <2>2
<1>11. f \in Injection(A, L)
  <2>1. f \in [A -> L]
    BY <1>9
  <2>2. \A x, z \in A : f[x] = f[z] => x = z
    BY <1>10
  <2> HIDE DEF f, A, L
  <2> QED
    BY <2>1, <2>2 DEF Injection, IsInjective
<1> HIDE DEF f, A, L
<1>12. Cardinality(A) <= Cardinality(L)
  BY <1>8, <1>11, FS_Injection
<1>13. Cardinality(L) \in Nat /\ Cardinality(A) \in Nat
  BY <1>7, <1>8, FS_CardinalityType
<1> QED
  BY <1>7, <1>12, <1>13 DEF L

\* A write that finds no victim leaves the maps as they were without the old page of
\* its slice.
LEMMA AbortLeavesMap ==
    ASSUME NEW s, Ready(s), s.failed = None, NEW d \in AllDies, NEW l \in Lsas,
           NoVictim(s, l, d), NEW y, y = InvalidateOldVsa(Outdated(s, l), l),
           NEW t, t = AddrTransWrite(Outdated(s, l), d, l, l)
    PROVE  t.map = y.map
<1>1. NeedsGc(y, d) /\ VictimCount(y, d) = None
  BY DEF NoVictim
<1>2. ~ (CurrentPage(y, d) < PagesPerBlock) /\ ~ (CurrentPage(y, d) > PagesPerBlock)
  BY <1>1, Sizes DEF NeedsGc
<1>3. PICK g : g = Fail(y, "no victim")
  OBVIOUS
<1>4. GarbageCollection(y, d) = g
  BY <1>1, <1>3 DEF GarbageCollection
<1>5. "no victim" # None
  BY NoneAssumption DEF Failures
<1>6. g.failed = "no victim" /\ g.map = y.map
  <2>1. Good(y, NoneOut)
    BY InvalidatedGood DEF InvalidatedOK, Ready
  <2>2. IsMaps(y)
    BY <2>1 DEF Good
  <2> QED
    BY <1>3, <2>2 DEF Fail, IsMaps
<1>7. Room(y, d) = g
  BY <1>1, <1>2, <1>4, <1>5, <1>6 DEF Room
<1> QED
  BY <1>3, <1>5, <1>6, <1>7 DEF AddrTransWrite

\* For any number of dies and any number of slices: the firmware aborts for want of a
\* victim and for nothing else (the open block never runs over, and the collector always
\* gets the block it copies to), and only when one die has a valid slice in every page
\* outside its reserve.  The dies take turns whatever they hold
\* (FindDieForFreeSliceAllocation), so this is as much as can be said of them.
THEOREM AbortsOnlyOnFullDie ==
    ASSUME ~WholeBlockRewrites, IsFiniteSet(Lsas)
    PROVE  Spec => []AbortsOnlyWhenFull
<1>1. Init => AbortsOnlyWhenFull
  BY OpenDiesGood DEF Init, AbortsOnlyWhenFull
<1>2. IInv /\ AbortsOnlyWhenFull /\ [Next]_vars => AbortsOnlyWhenFull'
  <2> SUFFICES ASSUME IInv, AbortsOnlyWhenFull, [Next]_vars PROVE AbortsOnlyWhenFull'
    OBVIOUS
  <2>1. CASE Next
    <3>1. PICK l \in Lsas : EvictDataBufEntry(l)
      BY <2>1 DEF Next
    <3>2. m.failed = None /\ (m'.failed # None => NoVictim(m, l, targetDie))
      BY <3>1, EvictOK
    <3>3. PICK y : y = InvalidateOldVsa(Outdated(m, l), l)
      OBVIOUS
    <3>4. PICK t : t = AddrTransWrite(Outdated(m, l), targetDie, l, l)
      OBVIOUS
    <3>5. Good(m, NoneOut) /\ Ready(m) /\ targetDie \in AllDies
      BY DEF IInv, Ready
    <3>6. Ready(y)
      <4>1. InvalidatedOK(m, l, y)
        BY <3>3, <3>5, InvalidatedGood
      <4> QED
        BY <3>5, <4>1 DEF InvalidatedOK, Ready
    <3>7. SUFFICES ASSUME m'.failed # None PROVE AbortsOnlyWhenFull'
      BY DEF AbortsOnlyWhenFull
    <3>8. NeedsGc(y, targetDie) /\ VictimCount(y, targetDie) = None
      BY <3>2, <3>3, <3>7 DEF NoVictim
    <3>9. Cardinality({x \in Lsas : y.map[x] # None /\ y.map[x][1] = targetDie})
             >= (NumBlocks - 1) * PagesPerBlock
      BY <3>5, <3>6, <3>8, DieIsFull
    <3>10. t.map = y.map
      BY <3>2, <3>3, <3>4, <3>5, <3>7, AbortLeavesMap
    <3>11. m'.map = t.map
      <4>1. PICK r : r = << >>
        OBVIOUS
      <4>2. m' = [t EXCEPT !.reqs = r]
        BY <3>1, <3>4, <4>1 DEF EvictDataBufEntry
      <4>3. ~EatsOpenBlock(InvalidateOldVsa(m, l), targetDie)
        BY <3>1 DEF EvictDataBufEntry, RewritesOpenBlock, EatsOpenBlock
      <4>4. Ready(t)
        BY <3>2, <3>4, <3>5, <4>3, WriteGood
      <4>5. SameMaps(t, m')
        BY <4>2, <4>4, RequestedGood DEF Ready
      <4> QED
        BY <4>5 DEF SameMaps, SameSlices
    <3>12. PICK d \in AllDies : d = targetDie
      BY <3>5
    <3>13. Cardinality(SlicesOn(d)') >= (NumBlocks - ReservedFreeBlockCount) * PagesPerBlock
      BY <3>9, <3>10, <3>11, <3>12 DEF SlicesOn, ReservedFreeBlockCount
    <3>14. m'.failed = "no victim"
      BY <3>1, <3>7, EvictOK DEF IInv
    <3> QED
      BY <3>13, <3>14 DEF AbortsOnlyWhenFull
  <2>2. CASE UNCHANGED vars
    BY <2>2 DEF vars, AbortsOnlyWhenFull, SlicesOn
  <2> QED
    BY <2>1, <2>2
<1> QED
  BY <1>1, <1>2, InvariantHolds, PTL DEF Spec
=============================================================================
