----------------------------- MODULE BadBlocks -----------------------------
(***************************************************************************)
(* Bad blocks (address_translation.c): the table kept in flash, how it is  *)
(* found or made at start-up, how bad blocks are remapped to the reserved  *)
(* blocks of their LUN, how blocks that go bad in use are booked and       *)
(* written to the table at shutdown, and what a power cut leaves of it.    *)
(*                                                                         *)
(*   nand[d].table  the table page in block BbtBlock: the set of blocks it *)
(*                  calls bad, or Erased                                   *)
(*   nand[d].marks  blocks with the manufacturer's bad block mark          *)
(*   nand[d].data   blocks whose data reads like such a mark               *)
(*   ram            phyBlockMap (bad, remap), virtualBlockMap.bad (vbad),  *)
(*                  grownBadUpdate (booked), badBlockCount, eraseFlag      *)
(*   ops[d]         NAND requests of die d not executed yet, in order:     *)
(*                  they carry no row address dependency, so each die runs *)
(*                  them as they were queued                               *)
(*   phase          where the firmware is; it goes on once the requests    *)
(*                  are executed (SyncAllLowLevelReqDone)                  *)
(*   worn           (ghost) blocks on which a request ever failed          *)
(*   saving         (ghost) grown bad blocks when the table being saved    *)
(*                  was built                                              *)
(*   savedSinceRemake  (ghost) grown bad blocks of the saves completed     *)
(*                  since the operator last had the table re-made          *)
(*   torn           (ghost) dies on which the power failed while the table *)
(*                  of a used device was rewritten                         *)
(*                                                                         *)
(* A block number is LUN * TotalPerLun + block, the two LUNs of the code.  *)
(* The table fits one page (TOTAL_BLOCKS_PER_DIE < 16384), so the loops    *)
(* over its pages run once.  Requests on the table block do not fail.      *)
(***************************************************************************)
EXTENDS Integers, Sequences, FiniteSets, FiniteSetsExt

CONSTANTS Dies,
          UserPerLun,     \* USER_BLOCKS_PER_LUN
          TotalPerLun,    \* TOTAL_BLOCKS_PER_LUN
          MaxMarked,      \* bound on the marked blocks of the device
          MaxWorn,        \* bound on the blocks that go bad in use
          MaxData,        \* bound on the blocks with data that read like a mark
          MarksErasable,  \* erasing a marked block may succeed and clear its mark
          MayRemake       \* the operator may press 'X' at start-up

ASSUME SizeAssumption ==
    /\ UserPerLun \in Nat \ {0} /\ TotalPerLun \in Nat /\ UserPerLun <= TotalPerLun
    /\ {MaxMarked, MaxWorn, MaxData} \subseteq Nat
ASSUME SwitchAssumption == {MarksErasable, MayRemake} \subseteq BOOLEAN

VARIABLES nand, ram, ops, phase, worn, saving, savedSinceRemake, torn

vars == <<nand, ram, ops, phase, worn, saving, savedSinceRemake, torn>>

Blocks   == 0 .. 2 * TotalPerLun - 1
VBlocks  == 0 .. 2 * UserPerLun - 1
BbtBlock == 0                        \* bbtInfo[dieNo].phyBlock
Erased   == {-1}                     \* no set of blocks
Phases   == {"off", "eraseTotal", "saveNew", "eraseUser", "run", "saveGrown", "halted"}
ReservedFreeBlockCount == 1
Lun1BaseAddr == 2 * TotalPerLun      \* in blocks; any value >= TotalPerLun

(***************************************************************************)
(* Addresses                                                               *)
(***************************************************************************)

Vblock2PblockOfTbs(v) == (v \div UserPerLun) * TotalPerLun + (v % UserPerLun)

\* The row address, in blocks, that a request on virtual block v goes to.
GenerateNandRowAddr(remap, v) ==
    LET p == Vblock2PblockOfTbs(v)
    IN  (IF p \div TotalPerLun = 0 THEN 0 ELSE Lun1BaseAddr) + (remap[p] % TotalPerLun)

\* The block a row address lies in: what ExecuteNandReq books when a request fails.
PhyBlockOfRow(row) == (row % Lun1BaseAddr) + (row \div Lun1BaseAddr) * TotalPerLun

PhyBlock(remap, v) == PhyBlockOfRow(GenerateNandRowAddr(remap, v))

(***************************************************************************)
(* RemapBadBlock, for one die.  Each LUN gives out its reserved blocks in  *)
(* order, the bad ones skipped; next is the reservedBlockOfLun pointer.    *)
(***************************************************************************)

\* MUTANT of RemapUser: the pointer stays on the block given out.
RemapSameReserve(bad, lun, acc, b) ==
    LET end == (lun + 1) * TotalPerLun
        r   == Min({q \in acc.next .. end - 1 : q \notin bad} \cup {end})
    IN  IF b \notin bad THEN acc
        ELSE IF r = end THEN [acc EXCEPT !.next = end, !.left = @ + 1]
        ELSE [acc EXCEPT !.next = r, !.remap[b] = r]

RemapUser(bad, lun, acc, b) ==
    LET end == (lun + 1) * TotalPerLun
        r   == Min({q \in acc.next .. end - 1 : q \notin bad} \cup {end})
    IN  IF b \notin bad THEN acc
        ELSE IF r = end THEN [acc EXCEPT !.next = end, !.left = @ + 1]
        ELSE [acc EXCEPT !.next = r + 1, !.remap[b] = r]

RemapLun(bad, lun, acc) ==
    LET base == lun * TotalPerLun
        after[i \in 0 .. UserPerLun] ==
            IF i = 0 THEN [acc EXCEPT !.next = base + UserPerLun]
            ELSE RemapUser(bad, lun, after[i - 1], base + i - 1)
    IN  after[UserPerLun]

\* MUTANT of RemapBadBlock: the count of LUN 0 is lost.
RemapCountsLun1(bad) ==
    RemapLun(bad, 1, [RemapLun(bad, 0, [remap |-> [b \in Blocks |-> b], next |-> 0, left |-> 0])
                        EXCEPT !.left = 0])

\* remap: remappedPhyBlock; left: badBlockCount.
RemapBadBlock(bad) ==
    RemapLun(bad, 1, RemapLun(bad, 0, [remap |-> [b \in Blocks |-> b], next |-> 0, left |-> 0]))

(***************************************************************************)
(* Start-up                                                                *)
(***************************************************************************)

Quiet == \A d \in Dies : ops[d] = <<>>

EraseOp(b)        == [code |-> "erase", block |-> b]
ProgramTable(bad) == [code |-> "program", block |-> BbtBlock, table |-> bad]

\* The blocks of bs are erased in the order of their numbers.
EraseAll(bs) ==
    LET upTo[i \in 0 .. 2 * TotalPerLun] ==
            IF i = 0 THEN << >>
            ELSE IF i - 1 \in bs THEN Append(upTo[i - 1], EraseOp(i - 1)) ELSE upTo[i - 1]
    IN  upTo[2 * TotalPerLun]

SaveBadBlockTable(bad) == <<EraseOp(BbtBlock), ProgramTable(bad)>>

NoRam == [bad |-> [d \in Dies |-> {}], remap |-> [d \in Dies |-> [b \in Blocks |-> b]],
          vbad |-> [d \in Dies |-> {}], booked |-> {}, left |-> [d \in Dies |-> 0],
          eraseFlag |-> TRUE]

\* InitAddressMap up to the question for 'X' in InitBlockDieMap.  An 'X' erases
\* the tables with everything else: the scan that follows finds the marks of the
\* manufacturer only, and every block that went bad in use is used again, so that
\* no table saved before counts any more (savedSinceRemake).
PowerOn(x) ==
    /\ phase = "off"
    /\ x => MayRemake
    /\ ram' = [NoRam EXCEPT !.eraseFlag = ~x]
    /\ ops' = [d \in Dies |-> IF x THEN EraseAll(Blocks) ELSE <<>>]
    /\ phase' = "eraseTotal"
    /\ savedSinceRemake' = IF x THEN [d \in Dies |-> {}] ELSE savedSinceRemake
    /\ UNCHANGED <<nand, worn, saving, torn>>

\* MUTANT of TableExists: only the code of a good block is looked for.
TableExistsIfNormal(t) == t # Erased /\ BbtBlock \notin t

\* The first byte of the table is the state of the table block itself.
TableExists(t) == t # Erased

\* The blocks whose first or last row reads like a mark.
FindBadBlock(d) == nand[d].marks \cup nand[d].data

RecoverBadBlockTable ==
    /\ phase = "eraseTotal" /\ Quiet
    /\ LET bad(d) == IF TableExists(nand[d].table) THEN nand[d].table ELSE FindBadBlock(d)
       IN  /\ ram' = [ram EXCEPT !.bad = [d \in Dies |-> bad(d)], !.booked = {}]
           /\ ops' = [d \in Dies |-> IF TableExists(nand[d].table) THEN <<>>
                                     ELSE SaveBadBlockTable(bad(d))]
    /\ phase' = "saveNew"
    /\ UNCHANGED <<nand, worn, saving, savedSinceRemake, torn>>

\* The virtual blocks in use, and the blocks behind them.
GoodVBlocks(d) == VBlocks \ ram.vbad[d]
InUse(d)       == {PhyBlock(ram.remap[d], v) : v \in GoodVBlocks(d)}

HideBbt(bad) == bad \cup {BbtBlock}

\* The rest of InitBlockDieMap: RemapBadBlock, InitBlockMap, EraseUserBlockSpace.
InitBlockMap ==
    /\ phase = "saveNew" /\ Quiet
    /\ LET bad(d)  == HideBbt(ram.bad[d])
           map(d)  == RemapBadBlock(bad(d))
           vbad(d) == {v \in VBlocks : map(d).remap[Vblock2PblockOfTbs(v)] \in bad(d)}
       IN  /\ ram' = [ram EXCEPT !.bad   = [d \in Dies |-> bad(d)],
                                 !.remap = [d \in Dies |-> map(d).remap],
                                 !.left  = [d \in Dies |-> map(d).left],
                                 !.vbad  = [d \in Dies |-> vbad(d)]]
           /\ ops' = [d \in Dies |->
                IF ram.eraseFlag
                THEN EraseAll({PhyBlock(map(d).remap, v) : v \in VBlocks \ vbad(d)})
                ELSE <<>>]
    /\ phase' = "eraseUser"
    /\ UNCHANGED <<nand, worn, saving, savedSinceRemake, torn>>

\* The assertion fails on a die without a free block above the reserved count.
InitCurrentBlockOfDieMap ==
    /\ phase = "eraseUser" /\ Quiet
    /\ phase' = IF \A d \in Dies : Cardinality(GoodVBlocks(d)) > ReservedFreeBlockCount
                THEN "run" ELSE "halted"
    /\ UNCHANGED <<nand, ram, ops, worn, saving, savedSinceRemake, torn>>

(***************************************************************************)
(* The device in use                                                       *)
(***************************************************************************)

\* Requests of the host go on while a shutdown saves the table: those still queued
\* are executed by the same SyncAllLowLevelReqDone.
InService == phase \in {"run", "saveGrown"}

\* A page 0 is programmed with data that reads like a mark; or a block is erased.
Program(d, v) ==
    /\ InService /\ v \in GoodVBlocks(d)
    /\ Cardinality(UNION {{e} \X nand[e].data : e \in Dies}) < MaxData
    /\ nand' = [nand EXCEPT ![d].data = @ \cup {PhyBlock(ram.remap[d], v)}]
    /\ UNCHANGED <<ram, ops, phase, worn, saving, savedSinceRemake, torn>>

EraseBlock(d, v) ==
    /\ InService /\ v \in GoodVBlocks(d)
    /\ nand' = [nand EXCEPT ![d].data = @ \ {PhyBlock(ram.remap[d], v)}]
    /\ UNCHANGED <<ram, ops, phase, worn, saving, savedSinceRemake, torn>>

UpdatePhyBlockMapForGrownBadBlock(r, d, b) ==
    [r EXCEPT !.bad[d] = @ \cup {b}, !.booked = @ \cup {d}]

\* A request fails for good.  The block stays in use until the next start.  After
\* the table was built it is too late for this save: the die stays booked.
Fail(d, b) ==
    /\ Cardinality((UNION {{d1} \X worn[d1] : d1 \in Dies}) \cup {<<d, b>>}) <= MaxWorn
    /\ ram' = UpdatePhyBlockMapForGrownBadBlock(ram, d, b)
    /\ worn' = [worn EXCEPT ![d] = @ \cup {b}]

FailInUse(d, v) ==
    /\ InService /\ v \in GoodVBlocks(d)
    /\ Fail(d, PhyBlock(ram.remap[d], v))
    /\ UNCHANGED <<nand, ops, phase, saving, savedSinceRemake, torn>>

\* MUTANT of TableOf: only the blocks of the user space are written down.
TableOfUserSpace(d) == {b \in ram.bad[d] \ {BbtBlock} : b % TotalPerLun < UserPerLun}

\* The table block, bad in ram to keep the host away, is normal in the table.
TableOf(d) == ram.bad[d] \ {BbtBlock}

\* The end of a shutdown.  The host has already been told that it is complete.
UpdateBadBlockTableForGrownBadBlock ==
    /\ phase = "run"
    /\ ops' = [d \in Dies |->
          IF d \in ram.booked THEN SaveBadBlockTable(TableOf(d)) ELSE <<>>]
    /\ saving' = [d \in Dies |-> ram.bad[d] \cap worn[d]]
    /\ phase' = "saveGrown"
    /\ UNCHANGED <<nand, ram, worn, savedSinceRemake, torn>>

\* The host may enable the controller again.  grownBadUpdate is not cleared.
Resume ==
    /\ phase = "saveGrown" /\ Quiet
    /\ savedSinceRemake' = [d \in Dies |-> savedSinceRemake[d] \cup saving[d]]
    /\ saving' = [d \in Dies |-> {}]
    /\ phase' = "run"
    /\ UNCHANGED <<nand, ram, ops, worn, torn>>

(***************************************************************************)
(* The dies (external)                                                     *)
(***************************************************************************)

Executed(n, op) ==
    IF op.code = "program" THEN {[n EXCEPT !.table = op.table]}
    ELSE {[n EXCEPT !.table = IF op.block = BbtBlock THEN Erased ELSE @,
                    !.data = @ \ {op.block}, !.marks = k] :
             k \in IF MarksErasable THEN {n.marks, n.marks \ {op.block}} ELSE {n.marks}}

ExecuteNandReq(d) ==
    /\ ops[d] # <<>>
    /\ \E n \in Executed(nand[d], Head(ops[d])) : nand' = [nand EXCEPT ![d] = n]
    /\ ops' = [ops EXCEPT ![d] = Tail(@)]
    /\ UNCHANGED <<ram, phase, worn, saving, savedSinceRemake, torn>>

\* An erase fails while the blocks are being prepared.
EraseFails(d) ==
    /\ ops[d] # <<>> /\ Head(ops[d]).block # BbtBlock
    /\ Fail(d, Head(ops[d]).block)
    /\ ops' = [ops EXCEPT ![d] = Tail(@)]
    /\ UNCHANGED <<nand, phase, saving, savedSinceRemake, torn>>

PowerCut ==
    /\ phase # "off"
    /\ torn' = IF phase \in {"saveGrown", "eraseTotal"}
               THEN torn \cup {d \in Dies : ops[d] # <<>>} ELSE torn
    /\ phase' = "off"
    /\ ram' = NoRam
    /\ ops' = [d \in Dies |-> <<>>]
    /\ saving' = [d \in Dies |-> {}]
    /\ UNCHANGED <<nand, worn, savedSinceRemake>>

(***************************************************************************)
(* Specification                                                           *)
(***************************************************************************)

\* A new device: erased, with the marks of the manufacturer.
Init ==
    /\ nand \in {[d \in Dies |-> [table |-> Erased, marks |-> k[d], data |-> {}]] :
                   k \in {k \in [Dies -> SUBSET Blocks] :
                            Cardinality(UNION {{d} \X k[d] : d \in Dies}) <= MaxMarked}}
    /\ ram = NoRam
    /\ ops = [d \in Dies |-> <<>>]
    /\ phase = "off"
    /\ worn = [d \in Dies |-> {}]
    /\ saving = [d \in Dies |-> {}]
    /\ savedSinceRemake = [d \in Dies |-> {}]
    /\ torn = {}

Next ==
    \/ \E x \in BOOLEAN : PowerOn(x)
    \/ RecoverBadBlockTable \/ InitBlockMap \/ InitCurrentBlockOfDieMap
    \/ \E d \in Dies, v \in VBlocks : Program(d, v) \/ EraseBlock(d, v) \/ FailInUse(d, v)
    \/ UpdateBadBlockTableForGrownBadBlock \/ Resume
    \/ \E d \in Dies : ExecuteNandReq(d) \/ EraseFails(d)
    \/ PowerCut

Spec == Init /\ [][Next]_vars

(***************************************************************************)
(* Properties                                                              *)
(***************************************************************************)

TypeOK ==
    /\ nand \in [Dies -> [table : (SUBSET Blocks) \cup {Erased},
                          marks : SUBSET Blocks, data : SUBSET Blocks]]
    /\ ram \in [bad : [Dies -> SUBSET Blocks], remap : [Dies -> [Blocks -> Blocks]],
                vbad : [Dies -> SUBSET VBlocks], booked : SUBSET Dies,
                left : [Dies -> Nat], eraseFlag : BOOLEAN]
    /\ \A d \in Dies : \A i \in DOMAIN ops[d] : ops[d][i].block \in Blocks
    /\ phase \in Phases
    /\ {worn, saving, savedSinceRemake} \subseteq [Dies -> SUBSET Blocks]
    /\ torn \subseteq Dies

Mapped == phase \in {"eraseUser", "run", "saveGrown", "halted"}

\* Two virtual blocks in use never share a block, none is the block of the bad
\* block table, and none carries a manufacturer's mark: whatever the marks, and
\* wherever the power failed before (RemapBadBlock, GenerateNandRowAddr).
InUseSound ==
    Mapped =>
        \A d \in Dies :
            /\ Cardinality(InUse(d)) = Cardinality(GoodVBlocks(d))
            /\ BbtBlock \notin InUse(d)
            /\ InUse(d) \cap nand[d].marks = {}

\* The capacity reported to the host (mbPerbadBlockSpace in InitFTL) counts, for
\* every die, as many blocks as the worst die lacks: no die has fewer.
CapacityBacked ==
    Mapped =>
        \A d \in Dies : Cardinality(GoodVBlocks(d))
                            >= 2 * UserPerLun - Max({ram.left[e] : e \in Dies})

\* A virtual block has no good block behind it only when its LUN has run out of
\* them: every reserved block of the LUN is bad or stands in for another one.
ReservesUsedUp ==
    Mapped =>
        \A d \in Dies : \A v \in ram.vbad[d] : \A r \in UserPerLun .. TotalPerLun - 1 :
            (v \div UserPerLun) * TotalPerLun + r \in ram.bad[d] \cup InUse(d)

\* The capacity is what the good blocks allow: never more, and a block is missing
\* only where no reserve was left to take its place.
CapacityExact == TypeOK /\ CapacityBacked /\ ReservesUsedUp

\* A block is given up only if it was marked or a request on it failed: start-up
\* never takes data for marks and loses a good block (RecoverBadBlockTable scans
\* the marks only when there is no table, hence no data).  The exception is a die
\* whose table was lost between its erasure and its programming.
OnlyBadGivenUp ==
    \A d \in Dies \ torn : ram.bad[d] \subseteq nand[d].marks \cup worn[d] \cup {BbtBlock}

\* A block that went bad before a shutdown built the table
\* (UpdateBadBlockTableForGrownBadBlock) is not used after any start that follows
\* the completed save, whatever fails, is programmed or is cut off meanwhile.  Not
\* claimed: after a start at which the operator had the table re-made ('X' puts all
\* blocks without a manufacturer's mark back in use), on a die whose table was lost
\* between its erasure and its programming, and for a block that fails when the
\* table has been built already, which only the next shutdown saves.
GrownStaysOut ==
    [][phase = "saveNew" /\ phase' = "eraseUser"
         => \A d \in Dies \ torn : InUse(d)' \cap savedSinceRemake[d] = {}]_vars

\* Saving the table keeps the mark of the block it is saved in.
BbtMarkPreserved ==
    [][\A d \in Dies : BbtBlock \in nand[d].marks => BbtBlock \in nand'[d].marks]_vars

=============================================================================
