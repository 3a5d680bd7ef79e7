------------------------------- MODULE FtlMap -------------------------------
(***************************************************************************)
(* The flash translation layer: the logical and virtual slice maps, the    *)
(* free blocks and the garbage collector (address_translation.c,           *)
(* garbage_collection.c).                                                  *)
(*                                                                         *)
(* One action, the eviction of a dirty buffer entry: AddrTransWrite finds  *)
(* a new page for the slice, which may collect a block of the target die   *)
(* on the way, and the slice is programmed there.  The firmware polls the  *)
(* hardware in between (GetFromFreeReqQ), but nothing it does then touches *)
(* this state.  The slice maps, block map, die map and victim lists are    *)
(* one record `m', and every C function an operator from such a record to  *)
(* the next.                                                               *)
(*                                                                         *)
(*   map, rev   logicalSliceMap and virtualSliceMap                        *)
(*   block      virtualBlockMap: free, invalidSliceCnt, currentPage and    *)
(*              the links of the list the block is in                      *)
(*   die        virtualDieMap: currentBlock, the free list, freeBlockCnt   *)
(*   victims    gcVictimList: one list per number of invalid slices        *)
(*   flash      (external) what the NAND requests leave in the pages, in   *)
(*              the order they are issued: the last version of a slice is  *)
(*              written as its address, an older one as "stale"            *)
(*   reqs       the NAND requests made on the way, for GcPath, which       *)
(*              follows them through the request queues                    *)
(*   failed     the assertion that stopped the firmware, if one did        *)
(*                                                                         *)
(* Blocks that are bad are in no list; NumBlocks counts the others.        *)
(***************************************************************************)
EXTENDS Integers, Sequences, FiniteSets, LinkedLists

CONSTANTS NumDies, NumBlocks,
          PagesPerBlock,   \* USER_PAGES_PER_BLOCK = SLICES_PER_BLOCK
          Lsas,            \* the logical slices the host uses
          None,            \* BLOCK_NONE, BLOCK_FAIL, VSA_NONE, LSA_NONE
          WholeBlockRewrites  \* may the host overwrite the last valid slice of
                              \* the open block when its die is out of blocks?

ASSUME SizeAssumption ==
    NumDies \in Nat \ {0} /\ NumBlocks \in Nat \ {0, 1} /\ PagesPerBlock \in Nat \ {0}
ASSUME LsasAssumption == "stale" \notin Lsas

VARIABLES m,          \* the maps, see above
          targetDie   \* sliceAllocationTargetDie

vars == <<m, targetDie>>

AllDies == 0 .. NumDies - 1
Blocks  == 0 .. NumBlocks - 1
Pages   == 0 .. PagesPerBlock - 1
Vsas    == AllDies \X Blocks \X Pages

Failures == {"no available block", "current page", "no victim"}

\* The marks BLOCK_NONE, VSA_NONE and LSA_NONE are no block, address or slice.
ASSUME NoneAssumption == None \notin Nat \cup Vsas \cup Lsas \cup Failures \cup {"stale"}

ReservedFreeBlockCount == 1

NoList == [head |-> None, tail |-> None]

\* A page number one past the end of a block is the first page of the next.
Vorg2VsaTranslation(d, b, p) == <<d, b + p \div PagesPerBlock, p % PagesPerBlock>>

(***************************************************************************)
(* Lists of blocks.  A block has one pair of links, for the list it is in. *)
(***************************************************************************)

\* The list with b at its end, and the blocks with the links that takes.
Listed(list, b) ==
    [head |-> IF list.tail = None THEN b ELSE list.head, tail |-> b]

Linked(blocks, tail, b) ==
    [k \in Blocks |->
        CASE k = b    -> [blocks[k] EXCEPT !.prev = tail, !.next = None]
          [] k = tail -> [blocks[k] EXCEPT !.next = b]
          [] OTHER    -> blocks[k]]

\* The list without its head, whose successor is n.
Beheaded(list, n) == [head |-> n, tail |-> IF n = None THEN None ELSE list.tail]

PutToFbList(s, d, b) ==
    [s EXCEPT !.block[d] = Linked(@, s.die[d].free.tail, b),
              !.die[d].free = Listed(@, b),
              !.die[d].cnt = @ + 1]

\* The block GetFromFbList returns, or None: only the garbage collector gets
\* the reserved one.
FreeBlockFor(s, d, option) ==
    IF option = "normal" /\ s.die[d].cnt <= ReservedFreeBlockCount
    THEN None
    ELSE s.die[d].free.head

\* GetFromFbList, when it returns block b.
GetFromFbList(s, d, b) ==
    LET n == s.block[d][b].next
    IN  [s EXCEPT !.die[d].free = Beheaded(@, n),
                  !.die[d].cnt = @ - 1,
                  !.block[d] = [k \in Blocks |->
                      CASE k = b -> [@[k] EXCEPT !.free = FALSE, !.prev = None, !.next = None]
                        [] k = n -> [@[k] EXCEPT !.prev = None]
                        [] OTHER -> @[k]]]

PutToGcVictimList(s, d, b) ==
    LET i == s.block[d][b].invalid
    IN  [s EXCEPT !.block[d] = Linked(@, s.victims[d][i].tail, b),
                  !.victims[d][i] = Listed(@, b)]

\* MUTANT of SelectiveGetFromGcVictimList: the tail of the list is not moved.
SelectiveGetKeepTail(s, d, b) ==
    LET n == s.block[d][b].next
        p == s.block[d][b].prev
    IN  [s EXCEPT
          !.block[d] = [k \in Blocks |->
              CASE k = p -> [@[k] EXCEPT !.next = n]
                [] k = n -> [@[k] EXCEPT !.prev = p]
                [] OTHER -> @[k]],
          !.victims[d][s.block[d][b].invalid].head = IF p = None THEN n ELSE @]

\* The block leaves the list of its invalid count, wherever it is in it.  A
\* block without invalid slices is in none, and empties the unused list 0.
SelectiveGetFromGcVictimList(s, d, b) ==
    LET n == s.block[d][b].next
        p == s.block[d][b].prev
    IN  [s EXCEPT
          !.block[d] = [k \in Blocks |->
              CASE k = p -> [@[k] EXCEPT !.next = n]
                [] k = n -> [@[k] EXCEPT !.prev = p]
                [] OTHER -> @[k]],
          !.victims[d][s.block[d][b].invalid] =
              [head |-> IF p = None THEN n ELSE @.head,
               tail |-> IF n = None THEN p ELSE @.tail]]

\* MUTANT of VictimCount: only a block without valid slices is collected.
VictimCountFull(s, d) ==
    IF s.victims[d][PagesPerBlock].head # None THEN PagesPerBlock ELSE None

\* GetFromGcVictimList takes the head of the list with the most invalid slices.
VictimCount(s, d) ==
    LET counts == {i \in 1 .. PagesPerBlock : s.victims[d][i].head # None}
    IN  IF counts = {} THEN None ELSE CHOOSE i \in counts : \A j \in counts : j <= i

GetFromGcVictimList(s, d, i) ==
    LET n == s.block[d][s.victims[d][i].head].next
    IN  [s EXCEPT !.victims[d][i] = Beheaded(@, n),
                  !.block[d] = [k \in Blocks |->
                      IF k = n THEN [@[k] EXCEPT !.prev = None] ELSE @[k]]]

(***************************************************************************)
(* Allocation of a page.                                                   *)
(***************************************************************************)

Fail(s, why) == [s EXCEPT !.failed = why]

CurrentPage(s, d) == s.block[d][s.die[d].current].page

\* The die goes on with a free block, if it gets one.
OpenBlock(s, d, option) ==
    LET b == FreeBlockFor(s, d, option)
    IN  IF b = None
        THEN Fail(s, "no available block")
        ELSE [GetFromFbList(s, d, b) EXCEPT !.die[d].current = b]

\* A NAND request; `cnt' is programmedPageCnt, `data' what a read will find when
\* the requests take effect in the order they are made.
NandReq(code, vsa, cnt, data) == [code |-> code, vsa |-> vsa, cnt |-> cnt, data |-> data]

\* The slice l is mapped to the next page of the open block and `data'
\* programmed there.
Program(s, d, l, data) ==
    LET b   == s.die[d].current
        vsa == Vorg2VsaTranslation(d, b, CurrentPage(s, d))
    IN  [s EXCEPT !.block[d][b].page = @ + 1,
                  !.map[l] = vsa, !.rev[vsa] = l, !.flash[vsa] = data,
                  !.reqs = Append(@, NandReq("WRITE", vsa, 0, data))]

\* FindFreeVirtualSliceForGc up to the choice of the page.
RoomForGc(s, d, victim) ==
    LET moved == IF s.die[d].current = victim THEN OpenBlock(s, d, "gc") ELSE s
    IN  IF moved.failed # None \/ CurrentPage(moved, d) < PagesPerBlock THEN moved
        ELSE IF CurrentPage(moved, d) = PagesPerBlock THEN OpenBlock(moved, d, "gc")
        ELSE Fail(moved, "current page")

Valid(s, vsa) == s.rev[vsa] # None /\ s.map[s.rev[vsa]] = vsa

\* One page of the victim: a valid slice is read and written elsewhere.
CopyPage(s, d, victim, p) ==
    LET vsa  == Vorg2VsaTranslation(d, victim, p)
        room == RoomForGc(s, d, victim)
    IN  IF s.failed # None \/ ~Valid(s, vsa) THEN s
        ELSE IF room.failed # None THEN room
        ELSE Program([room EXCEPT !.reqs = Append(@, NandReq("READ", vsa, 0, s.flash[vsa]))],
                     d, s.rev[vsa], s.flash[vsa])

\* The pages of the victim, in order.
CopyPages(s, d, victim) ==
    LET after[n \in 0 .. PagesPerBlock] ==
            IF n = 0 THEN s ELSE CopyPage(after[n - 1], d, victim, n - 1)
    IN  after[PagesPerBlock]

EraseBlock(s, d, b) ==
    LET InBlock(v) == v[1] = d /\ v[2] = b
    IN  PutToFbList(
          [s EXCEPT !.reqs = Append(@, NandReq("ERASE", <<d, b, 0>>, s.block[d][b].page, None)),
                    !.block[d][b] = [@ EXCEPT !.free = TRUE, !.invalid = 0, !.page = 0],
                    !.rev   = [v \in DOMAIN @ |-> IF InBlock(v) THEN None ELSE @[v]],
                    !.flash = [v \in DOMAIN @ |-> IF InBlock(v) THEN None ELSE @[v]]],
          d, b)

\* MUTANT of GarbageCollection: the victim is erased without its copies.
CollectWithoutCopy(s, d) ==
    LET i == VictimCount(s, d)
    IN  IF i = None THEN Fail(s, "no victim")
        ELSE EraseBlock(GetFromGcVictimList(s, d, i), d, s.victims[d][i].head)

GarbageCollection(s, d) ==
    LET i        == VictimCount(s, d)
        victim   == s.victims[d][i].head
        taken    == GetFromGcVictimList(s, d, i)
        copied   == IF i = PagesPerBlock THEN taken ELSE CopyPages(taken, d, victim)
    IN  IF i = None THEN Fail(s, "no victim")
        ELSE IF copied.failed # None THEN copied
        ELSE EraseBlock(copied, d, victim)

NeedsGc(s, d) ==
    CurrentPage(s, d) = PagesPerBlock /\ FreeBlockFor(s, d, "normal") = None

\* FindFreeVirtualSlice up to the choice of the page.
Room(s, d) ==
    LET collected == GarbageCollection(s, d)
    IN  IF CurrentPage(s, d) < PagesPerBlock THEN s
        ELSE IF CurrentPage(s, d) > PagesPerBlock THEN Fail(s, "current page")
        ELSE IF ~NeedsGc(s, d) THEN OpenBlock(s, d, "normal")
        ELSE IF collected.failed # None \/ CurrentPage(collected, d) < PagesPerBlock THEN collected
        ELSE IF CurrentPage(collected, d) > PagesPerBlock THEN Fail(collected, "current page")
        ELSE OpenBlock(collected, d, "normal")

\* The old page of the slice becomes invalid and its block a better victim.
InvalidateOldVsa(s, l) ==
    LET vsa == s.map[l]
        d   == vsa[1]
        b   == vsa[2]
    IN  IF vsa = None \/ s.rev[vsa] # l THEN s
        ELSE PutToGcVictimList(
               [SelectiveGetFromGcVictimList(s, d, b) EXCEPT !.block[d][b].invalid = @ + 1,
                                                             !.map[l] = None],
               d, b)

\* AddrTransWrite and the NAND write that follows it (EvictDataBufEntry).
AddrTransWrite(s, d, l, data) ==
    LET room == Room(InvalidateOldVsa(s, l), d)
    IN  IF room.failed # None THEN room ELSE Program(room, d, l, data)

(***************************************************************************)
(* The system.                                                             *)
(***************************************************************************)

NewBlock == [free |-> TRUE, invalid |-> 0, page |-> 0, prev |-> None, next |-> None]

\* InitBlockMap: all blocks are free, in order.
EmptyMaps ==
    [map     |-> [l \in Lsas |-> None],
     rev     |-> [v \in Vsas |-> None],
     block   |-> [d \in AllDies |-> [b \in Blocks |->
                    [NewBlock EXCEPT !.prev = IF b = 0 THEN None ELSE b - 1,
                                     !.next = IF b = NumBlocks - 1 THEN None ELSE b + 1]]],
     die     |-> [d \in AllDies |-> [current |-> None, cnt |-> NumBlocks,
                                  free |-> [head |-> 0, tail |-> NumBlocks - 1]]],
     victims |-> [d \in AllDies |-> [i \in 0 .. PagesPerBlock |-> NoList]],
     flash   |-> [v \in Vsas |-> None],
     reqs    |-> << >>,
     failed  |-> None]

\* InitCurrentBlockOfDieMap opens a first block on every die.
OpenDies(s) ==
    LET after[n \in 0 .. NumDies] ==
            IF n = 0 THEN s ELSE OpenBlock(after[n - 1], n - 1, "normal")
    IN  after[NumDies]

Init == m = OpenDies(EmptyMaps) /\ targetDie = 0

\* The write leaves the open block of the target die, full, without a valid
\* slice, and next in line for the garbage collector.
RewritesOpenBlock(l) ==
    LET s == InvalidateOldVsa(m, l)
        i == VictimCount(s, targetDie)
    IN  /\ NeedsGc(s, targetDie)
        /\ i = PagesPerBlock
        /\ s.victims[targetDie][i].head = s.die[targetDie].current

\* History: what the pages hold of slice l is no longer its last version.
Outdated(s, l) ==
    [s EXCEPT !.flash = [v \in DOMAIN @ |-> IF @[v] = l THEN "stale" ELSE @[v]]]

\* The dies take turns, whatever they hold.
FindDieForFreeSliceAllocation(d) == (d + 1) % NumDies

\* A dirty entry with slice l is evicted.
EvictDataBufEntry(l) ==
    /\ m.failed = None
    /\ WholeBlockRewrites \/ ~RewritesOpenBlock(l)
    /\ m' = [AddrTransWrite(Outdated(m, l), targetDie, l, l) EXCEPT !.reqs = << >>]
    /\ targetDie' = FindDieForFreeSliceAllocation(targetDie)

Next == \E l \in Lsas : EvictDataBufEntry(l)

Spec == Init /\ [][Next]_vars

(***************************************************************************)
(* Properties.                                                             *)
(***************************************************************************)

TypeOK ==
    /\ m.map \in [Lsas -> Vsas \cup {None}]
    /\ m.rev \in [Vsas -> Lsas \cup {None}]
    /\ \A d \in AllDies :
         /\ m.block[d] \in [Blocks -> [free : BOOLEAN, invalid : 0 .. PagesPerBlock,
                                       page : 0 .. PagesPerBlock,
                                       prev : Blocks \cup {None}, next : Blocks \cup {None}]]
         /\ m.die[d].current \in Blocks /\ m.die[d].cnt \in 0 .. NumBlocks
    /\ targetDie \in AllDies

\* Following the links from the head meets exactly the blocks of S, once each,
\* back links agree, and the list ends at its tail.
ListOf(d, list, S) ==
    LET next  == [b \in Blocks |-> m.block[d][b].next]
        chain == Chain(next, list.head, NumBlocks, None)
    IN  /\ Nodes(chain) = S /\ Len(chain) = Cardinality(S)
        /\ list.tail = IF S = {} THEN None ELSE chain[Len(chain)]
        /\ \A k \in 1 .. Len(chain) :
             m.block[d][chain[k]].prev = IF k = 1 THEN None ELSE chain[k - 1]

\* The lists hold what they should, although a block has a single pair of links:
\* a block is in the free list exactly when it is free, and in the victim list
\* of its invalid count exactly when it has invalid slices.  The open block is
\* not free, and freeBlockCnt is the length of the free list.
ListsExact ==
    \A d \in AllDies :
        LET free == {b \in Blocks : m.block[d][b].free}
        IN  /\ ListOf(d, m.die[d].free, free)
            /\ m.die[d].cnt = Cardinality(free)
            /\ m.die[d].current \notin free
            /\ \A i \in 1 .. PagesPerBlock :
                  ListOf(d, m.victims[d][i],
                         {b \in Blocks \ free : m.block[d][b].invalid = i})

\* invalidSliceCnt is exact: the garbage collector skips the copies of a block
\* whose count says that nothing in it is valid.
InvalidCountExact ==
    \A d \in AllDies, b \in Blocks :
        m.block[d][b].invalid =
            Cardinality({p \in Pages : p < m.block[d][b].page /\ ~Valid(m, <<d, b, p>>)})

\* No write is lost to the garbage collector: every slice the host has written
\* is mapped to a programmed page that holds its last version.
NoDataLost ==
    \A l \in Lsas :
        \/ m.map[l] # None /\ m.flash[m.map[l]] = l
        \/ m.map[l] = None /\ \A v \in DOMAIN m.flash : m.flash[v] # l

\* The programmed pages of a block are those below its currentPage: the page
\* FindFreeVirtualSlice hands out next is erased.
ProgramsErasedPages ==
    \A d \in AllDies, b \in Blocks, p \in Pages :
        m.flash[<<d, b, p>>] # None <=> p < m.block[d][b].page

\* When a write is over, every die has the free block the next garbage
\* collection will copy to.
KeepsSpareBlock == \A d \in AllDies : m.die[d].cnt >= ReservedFreeBlockCount

\* What the allocator and the garbage collector decide by is right: the maps, the
\* lists, the counts of invalid slices, and the reserve.
BlockMapExact == TypeOK /\ ListsExact /\ InvalidCountExact /\ KeepsSpareBlock

\* Slices that have their page on die d.
SlicesOn(d) == {l \in Lsas : m.map[l] # None /\ m.map[l][1] = d}

\* The only assertion of the allocator and of the garbage collector that can
\* fire is that there is a victim, and only on a die all of whose pages outside
\* the reserve hold valid slices: dies take turns whatever they hold, so that
\* can be long before the device is full.
AbortsOnlyWhenFull ==
    m.failed # None =>
        /\ m.failed = "no victim"
        /\ \E d \in AllDies :
              Cardinality(SlicesOn(d)) >= (NumBlocks - ReservedFreeBlockCount) * PagesPerBlock

\* The assertions of the allocator and of the garbage collector never fire.
NoAssertFails == m.failed = None

\* currentPage never runs past its block.
CurrentPageInBlock == \A d \in AllDies : CurrentPage(m, d) <= PagesPerBlock

\* The garbage collector always finds a victim.
GcFindsVictim == m.failed # "no victim"
=============================================================================
