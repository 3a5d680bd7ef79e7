---------------------------- MODULE RequestPath ----------------------------
(***************************************************************************)
(* The life of a host command in the firmware: from the NVMe main loop     *)
(* through the split into slice requests, the two data buffers, the        *)
(* eviction and fill of a buffer entry, the DMA and NAND queues, to the    *)
(* completion of the command.                                              *)
(*                                                                         *)
(* Processes.  The firmware is one thread; the host DMA engine executes    *)
(* the two FIFOs and every die its current NAND request at any time.  The  *)
(* firmware only learns of it by polling: from the main loop, or from      *)
(* GetFromFreeReqQ (SyncAvailFreeReq) when the request pool is empty in    *)
(* the middle of a translation.  A poll visits one request per step, so    *)
(* that the hardware can act between two tests of one poll.                *)
(***************************************************************************)
EXTENDS LowLevelReq, SliceSplit

CONSTANTS NormalBuf,  \* the data buffer of host writes
          RBuf,       \* the read buffer of data_buffer_ccmd.c
          MaxLsa,     \* bound: largest logical slice address
          MaxPages,   \* bound: pages programmed per die
          Workload,   \* the commands the host may send as its c-th command
          MaxRw       \* bound: RW commands the host keeps outstanding

ASSUME BufAssumption == NormalBuf \cap RBuf = {} /\ Entries = NormalBuf \cup RBuf
ASSUME DiesAssumption == Dies = 0 .. Cardinality(Dies) - 1
ASSUME CmdsAssumption == Cmds = 1 .. Cardinality(Cmds)

VARIABLES
    \* the firmware
    pc,         \* where the translation of the current command stands
    toSlice,    \* slices ReqTransNvmeToSlice still has to put into sliceReqQ
    sliceReqQ,
    cur,        \* the slice request in hand in ReqTransSliceToLowLevel
    scan,       \* the running poll
    low,        \* see LowLevelReq
    dataBuf,    \* logicalSliceAddr and dirty of every buffer entry
    hashed,     \* the entries in one of the hash lists
    lru,        \* dataBufLruList and ccmdDataBufLruList, head first
    sliceMap,   \* logicalSliceMap
    nextPage,   \* currentPage of the open block of every die
    targetDie,  \* sliceAllocationTargetDie
    \* the hardware
    die,        \* idle, busy with the head of its queue, or ready
    content,    \* the data in the buffer entries
    flash,      \* the data in the programmed pages
    \* the host
    sent,       \* the commands sent, by command slot tag
    dmaLeft,    \* slices of the command the engine has still to transfer
    latest      \* history: who wrote a block last, in translation order

fwVars   == <<pc, toSlice, sliceReqQ, cur, scan>>
bufVars  == <<dataBuf, hashed, lru>>
mapVars  == <<sliceMap, nextPage, targetDie>>
hwVars   == <<die, content, flash>>
hostVars == <<sent, dmaLeft, latest>>
vars     == <<fwVars, low, bufVars, mapVars, hwVars, hostVars>>

Lsas   == 0 .. MaxLsa
Blocks == 0 .. BlocksPerSlice - 1
Pages  == Dies \X VBlocks \X (0 .. MaxPages - 1)

\* The commands of a workload fit into one block of every die.
OpenBlock == CHOOSE b \in VBlocks : TRUE

\* The contents of an erased page, or of an entry never written.
Erased == [b \in Blocks |-> None]

NoScan == [phase |-> "off", left |-> << >>, rxDone |-> FALSE, txDone |-> FALSE]

\* InitDataBuf and InitCcmdDataBuf chain the entries of their buffer in order.
InitLru == [normal |-> SetToSeq(NormalBuf), rbuf |-> SetToSeq(RBuf)]

\* InitSliceMap: no slice has a page.
InitSliceMap == [l \in Lsas |-> None]

Init ==
    /\ pc = "main" /\ toSlice = << >> /\ sliceReqQ = << >> /\ cur = None /\ scan = NoScan
    /\ low = InitLow
    /\ dataBuf = [e \in Entries |-> [lsa |-> None, dirty |-> FALSE]]
    /\ hashed = {}
    /\ lru = InitLru
    /\ sliceMap = InitSliceMap
    /\ nextPage = [d \in Dies |-> 0] /\ targetDie = 0
    /\ die = [d \in Dies |-> "idle"]
    /\ content = [e \in Entries |-> Erased]
    /\ flash = [p \in Pages |-> Erased]
    /\ sent = [c \in Cmds |-> None] /\ dmaLeft = [c \in Cmds |-> [Rx |-> 0, Tx |-> 0]]
    /\ latest = [l \in Lsas |-> Erased]

(***************************************************************************)
(* The main loop fetches a command.                                        *)
(***************************************************************************)

\* The slice requests of one range, as PutToSliceReqQ will see them.
SliceReqs(c, code, custom, startLba, nlb) ==
    LET slices == Slices(startLba, nlb)
    IN  [i \in DOMAIN slices |->
            [BlankReq EXCEPT !.type = "slice", !.code = code, !.cmd = c,
                !.lsa = slices[i].lsa, !.custom = custom,
                !.blks = slices[i].offset .. slices[i].offset + slices[i].num - 1]]

\* handle_nvme_io_read, handle_nvme_io_write, handle_nvme_io_write_read.  A RW
\* command is split into its write slices and then its read slices.
Translation(c, k) ==
    CASE k.op = "write" -> SliceReqs(c, "WRITE", FALSE, k.lba, k.nlb)
      [] k.op = "read"  -> SliceReqs(c, "READ", FALSE, k.lba, k.nlb)
      [] k.op = "rw"    -> SliceReqs(c, "WRITE", TRUE, k.lba, k.nlb)
                           \o SliceReqs(c, "READ", TRUE, k.rlba, k.rnlb)
      [] k.op = "flush" -> << >>

SlicesOf(c, k, code) == Len(SelectSeq(Translation(c, k), LAMBDA r : r.code = code))

OutstandingRw == {c \in Cmds : sent[c] # None /\ sent[c].op = "rw" /\ low.cpl[c] = 0}

\* get_nvme_cmd and handle_nvme_io_cmd.  A flush is completed at once.
FetchCmd(c, k) ==
    /\ pc = "main" /\ scan = NoScan
    /\ sent[c] = None /\ \A b \in Cmds : b < c => sent[b] # None
    /\ k.op = "rw" => Cardinality(OutstandingRw) < MaxRw
    /\ sent' = [sent EXCEPT ![c] = k]
    /\ toSlice' = Translation(c, k)
    /\ dmaLeft' = [dmaLeft EXCEPT ![c] = [Rx |-> SlicesOf(c, k, "WRITE"),
                                          Tx |-> SlicesOf(c, k, "READ")]]
    /\ IF k.op = "flush"
       THEN pc' = "main" /\ low' = [low EXCEPT !.cpl[c] = @ + 1]
       ELSE pc' = "slice" /\ UNCHANGED low
    /\ UNCHANGED <<sliceReqQ, cur, scan, bufVars, mapVars, hwVars, latest>>

\* ReqTransNvmeToSlice for one slice: GetFromFreeReqQ, PutToSliceReqQ.
ReqTransNvmeToSlice ==
    /\ pc = "slice" /\ scan = NoScan /\ low.free # << >>
    /\ low' = GetFromFreeReqQ(low, Head(toSlice))
    /\ sliceReqQ' = Append(sliceReqQ, Head(low.free))
    /\ toSlice' = Tail(toSlice)
    /\ pc' = IF Tail(toSlice) = << >> THEN "translate" ELSE "slice"
    /\ UNCHANGED <<cur, scan, bufVars, mapVars, hwVars, hostVars>>

(***************************************************************************)
(* ReqTransSliceToLowLevel.                                                *)
(***************************************************************************)

BufOf(e) == IF e \in RBuf THEN "rbuf" ELSE "normal"

\* Moves entry e to the head of its LRU list.
Touched(e) == [lru EXCEPT ![BufOf(e)] = <<e>> \o Without(@, e)]

\* MUTANT of HitIn: only the normal buffer is looked up.
HitInNormal(buf, lsa) == {e \in hashed \cap buf \cap NormalBuf : dataBuf[e].lsa = lsa}

\* The hash lists of a buffer as the set of their members.
PutToDataBufHashList(e) == hashed \cup {e}

SelectiveGetFromDataBufHashList(e) == hashed \ {e}

\* The entries a hash lookup in a buffer can return.
HitIn(buf, lsa) == {e \in hashed \cap buf : dataBuf[e].lsa = lsa}

CheckDataBufHit(lsa) == HitIn(NormalBuf, lsa)

CheckCcmdDataBufHit(lsa) == HitIn(RBuf, lsa)

\* The normal buffer is looked up first.
Hits(lsa) ==
    IF CheckDataBufHit(lsa) # {} THEN CheckDataBufHit(lsa) ELSE CheckCcmdDataBufHit(lsa)

\* The least recently used entry of the buffer.
AllocateDataBuf == Last(lru.normal)

AllocateCcmdDataBuf == Last(lru.rbuf)

\* A miss of a read goes to the read buffer, a miss of a write to the normal one.
Victim(code) == IF code = "READ" THEN AllocateCcmdDataBuf ELSE AllocateDataBuf

\* A slice request leaves sliceReqQ and gets its buffer entry.
GetDataBufEntry ==
    /\ pc = "translate" /\ scan = NoScan
    /\ LET s == Head(sliceReqQ)
           r == low.req[s]
       IN  \E e \in IF Hits(r.lsa) # {} THEN Hits(r.lsa) ELSE {Victim(r.code)} :
              /\ cur' = s
              /\ low' = [low EXCEPT !.req[s].entry = e]
              /\ lru' = Touched(e)
              /\ hashed' = IF Hits(r.lsa) # {} THEN hashed ELSE SelectiveGetFromDataBufHashList(e)
              /\ pc' = IF Hits(r.lsa) # {} THEN "transform"
                       ELSE IF dataBuf[e].dirty THEN "evict" ELSE "fill"
    /\ sliceReqQ' = Tail(sliceReqQ)
    /\ UNCHANGED <<toSlice, scan, dataBuf, mapVars, hwVars, hostVars>>

\* The dies take turns: channel by channel, then way by way.
FindDieForFreeSliceAllocation(d) == (d + 1) % Cardinality(Dies)

\* AddrTransWrite and FindFreeVirtualSlice: the slice moves to the next page of
\* the target die, and the dies take turns.
AddrTransWrite(lsa) ==
    /\ nextPage[targetDie] < MaxPages
    /\ sliceMap' = [sliceMap EXCEPT ![lsa] = <<targetDie, OpenBlock, nextPage[targetDie]>>]
    /\ nextPage' = [nextPage EXCEPT ![targetDie] = @ + 1]
    /\ targetDie' = FindDieForFreeSliceAllocation(targetDie)

\* EvictDataBufEntry, EvictCcmdDataBufEntry: a NAND write of the old contents.
EvictDataBufEntry ==
    LET s   == Head(low.free)
        e   == low.req[cur].entry
        r   == [BlankReq EXCEPT !.type = "nand", !.code = "WRITE", !.cmd = low.req[cur].cmd,
                   !.lsa = dataBuf[e].lsa, !.custom = low.req[cur].custom, !.entry = e,
                   !.vsa = sliceMap'[dataBuf[e].lsa]]
    IN  /\ pc = "evict" /\ scan = NoScan /\ low.free # << >>
        /\ AddrTransWrite(dataBuf[e].lsa)
        /\ low' = SelectLowLevelReqQ(
                     UpdateBlockingReq(GetFromFreeReqQ(low, r), e, s), s)
        /\ dataBuf' = [dataBuf EXCEPT ![e].dirty = FALSE]
        /\ pc' = "fill"
        /\ UNCHANGED <<toSlice, sliceReqQ, cur, scan, hashed, lru, hwVars, hostVars>>

\* MUTANT of NeedsNandRead: a partial write does not fetch the rest of the slice.
NeedsNandReadNoModify(r) == r.code = "READ" /\ sliceMap[r.lsa] # None

\* A read, or a write of a part of the slice, of a slice that has a page.
NeedsNandRead(r) ==
    /\ r.code = "READ" \/ r.blks # Blocks
    /\ sliceMap[r.lsa] # None

\* The allocated entry gets its new address and enters the hash list.
Rehash(e, lsa) ==
    /\ dataBuf' = [dataBuf EXCEPT ![e].lsa = lsa]
    /\ hashed' = PutToDataBufHashList(e)

\* The new entry needs no data from NAND.
NoDataRead ==
    /\ pc = "fill" /\ scan = NoScan
    /\ ~NeedsNandRead(low.req[cur])
    /\ Rehash(low.req[cur].entry, low.req[cur].lsa)
    /\ pc' = "transform"
    /\ UNCHANGED <<toSlice, sliceReqQ, cur, scan, low, lru, mapVars, hwVars, hostVars>>

\* DataReadFromNand, CcmdDataReadFromNand.
DataReadFromNand ==
    LET s == Head(low.free)
        o == low.req[cur]
        r == [BlankReq EXCEPT !.type = "nand", !.code = "READ", !.cmd = o.cmd,
                 !.lsa = o.lsa, !.custom = o.custom, !.entry = o.entry,
                 !.vsa = sliceMap[o.lsa]]
    IN  /\ pc = "fill" /\ scan = NoScan /\ low.free # << >>
        /\ NeedsNandRead(o)
        /\ Rehash(o.entry, o.lsa)
        /\ low' = SelectLowLevelReqQ(
                     UpdateBlockingReq(GetFromFreeReqQ(low, r), o.entry, s), s)
        /\ pc' = "transform"
        /\ UNCHANGED <<toSlice, sliceReqQ, cur, scan, lru, mapVars, hwVars, hostVars>>

\* AllocateNotCompletedRxforCustomIoCmd, AllocateNotCompletedTxforCustomIoCmd.
CountForCustomIoCmd(l, r) ==
    IF ~r.custom THEN l
    ELSE IF r.code = "WRITE" THEN [l EXCEPT !.notRx[r.cmd] = @ + 1]
    ELSE [l EXCEPT !.notTx[r.cmd] = @ + 1]

\* The slice request becomes a DMA request behind the other users of its entry.
\* `expect' is history: what a read has to deliver.
TransformToDma ==
    LET r       == low.req[cur]
        written == [b \in Blocks |-> IF b \in r.blks THEN r.cmd ELSE latest[r.lsa][b]]
        dma     == [r EXCEPT !.type = "dma",
                       !.code = IF r.code = "WRITE" THEN "RxDMA" ELSE "TxDMA",
                       !.expect = IF r.code = "WRITE" THEN << >> ELSE latest[r.lsa]]
    IN  /\ pc = "transform" /\ scan = NoScan
        /\ dataBuf' = [dataBuf EXCEPT ![r.entry].dirty = @ \/ r.code = "WRITE"]
        /\ latest' = IF r.code = "WRITE" THEN [latest EXCEPT ![r.lsa] = written] ELSE latest
        /\ low' = SelectLowLevelReqQ(
                     UpdateBlockingReq(
                        CountForCustomIoCmd([low EXCEPT !.req[cur] = dma], r), r.entry, cur),
                     cur)
        /\ cur' = None
        /\ pc' = IF sliceReqQ = << >> THEN "main" ELSE "translate"
        /\ UNCHANGED <<toSlice, sliceReqQ, scan, hashed, lru, mapVars, hwVars, sent, dmaLeft>>

(***************************************************************************)
(* The poll: CheckDoneNvmeDmaReq, CheckDoneCustomCmdDmaReq,                *)
(* SchedulingNandReq.                                                      *)
(***************************************************************************)

ScanOf(phase, left) == [phase |-> phase, left |-> left, rxDone |-> FALSE, txDone |-> FALSE]

\* The scans walk the queue from its tail; a scan of nothing is skipped.
NandScan      == ScanOf("nand", [i \in 1 .. Cardinality(Dies) |-> i - 1])
CustomScan(l) == IF l.customCmd = << >> THEN NandScan ELSE ScanOf("customCmd", l.customCmd)
NvmeScan(l)   == IF l.nvmeDma = << >> THEN CustomScan(l) ELSE ScanOf("nvmeDma", l.nvmeDma)

\* SyncAvailFreeReq runs while GetFromFreeReqQ finds no slot.
AwaitsSlot ==
    /\ low.free = << >>
    /\ \/ pc \in {"slice", "evict"}
       \/ pc = "fill" /\ NeedsNandRead(low.req[cur])

\* The conditions of the main loop: some low-level request is left.
WorkLeft ==
    \/ low.nvmeDma # << >> \/ low.customCmd # << >> \/ low.bufDep # {}
    \/ \E d \in Dies : low.nand[d] # << >> \/ low.rowDep[d] # << >>

\* One turn of the main loop without a command, or one of SyncAvailFreeReq.
StartPoll ==
    /\ scan = NoScan
    /\ (pc = "main" /\ WorkLeft) \/ AwaitsSlot
    /\ scan' = NvmeScan(low)
    /\ UNCHANGED <<pc, toSlice, sliceReqQ, cur, low, bufVars, mapVars, hwVars, hostVars>>

\* rxDone and txDone: once a request is done the earlier ones of its direction
\* are taken to be done as well.
FoundDone(r) == (IF Dir(r) = "Rx" THEN scan.rxDone ELSE scan.txDone) \/ r.pos = 0

\* The scan with the flag of r's direction set and its last request removed.
Latched(r, done) ==
    [scan EXCEPT !.left = Front(@),
                 !.rxDone = @ \/ (Dir(r) = "Rx" /\ done),
                 !.txDone = @ \/ (Dir(r) = "Tx" /\ done)]

\* One turn of the loop of CheckDoneNvmeDmaReq.
CheckDoneNvmeDmaReq ==
    /\ scan.phase = "nvmeDma"
    /\ LET s == Last(scan.left)
           r == low.req[s]
       IN  /\ low' = IF FoundDone(r) THEN SelectiveGetFromNvmeDmaReqQ(low, s) ELSE low
           /\ scan' = IF Len(scan.left) = 1 THEN CustomScan(low')
                      ELSE Latched(r, FoundDone(r))
    /\ UNCHANGED <<pc, toSlice, sliceReqQ, cur, bufVars, mapVars, hwVars, hostVars>>

\* One turn of the loop of CheckDoneCustomCmdDmaReq.  A Tx is looked at only
\* when the Rx of its command are complete.  A request that is not issued yet
\* is issued now; were it blocked by its buffer entry, the entry's chain would
\* be released instead (ReleaseBlockedByBufDepReq).
CheckDoneCustomCmdDmaReq ==
    /\ scan.phase = "customCmd"
    /\ LET s       == Last(scan.left)
           r       == low.req[s]
           looked  == r.code = "RxDMA" \/ low.notRx[r.cmd] = 0
           done    == looked /\ r.issued /\ FoundDone(r)
           waiting == looked /\ ~r.issued
       IN  /\ low' = CASE done    -> SelectiveGetFromCustomCmdReqQ(low, s)
                       [] waiting -> IF low.prev[s] = None
                                     THEN IssueNvmeDmaReq(low, s)
                                     ELSE ReleaseBlockedByBufDepReq(low, s)
                       [] OTHER   -> low
           /\ scan' = IF Len(scan.left) = 1 THEN NandScan ELSE Latched(r, done)
    /\ UNCHANGED <<pc, toSlice, sliceReqQ, cur, bufVars, mapVars, hwVars, hostVars>>

\* SchedulingNandReq for one die: a finished request is completed, an idle die
\* gets the next one, after the row address dependency has been looked at when
\* its queue is empty.
SchedulingNandReq ==
    /\ scan.phase = "nand"
    /\ LET d         == Head(scan.left)
           completed == IF die[d] = "ready" THEN GetFromNandReqQ(low, d) ELSE low
       IN  IF die[d] = "busy"
           THEN UNCHANGED <<low, die>>
           ELSE /\ low' = IF completed.nand[d] = << >>
                          THEN ReleaseBlockedByRowAddrDepReq(completed, d)
                          ELSE completed
                /\ die' = [die EXCEPT ![d] = IF low'.nand[d] = << >> THEN "idle" ELSE "busy"]
    /\ scan' = IF Len(scan.left) = 1 THEN NoScan ELSE [scan EXCEPT !.left = Tail(@)]
    /\ UNCHANGED <<pc, toSlice, sliceReqQ, cur, bufVars, mapVars, content, flash, hostVars>>

(***************************************************************************)
(* The hardware (external).                                                *)
(***************************************************************************)

\* The engine executes the oldest DMA command of a direction.  A plain command
\* is completed by the engine with its last block (auto completion).
DmaExecute(dir) ==
    /\ low.fifo[dir] # << >>
    /\ LET u == Head(low.fifo[dir])
       IN  /\ content' = IF dir = "Tx" THEN content
                         ELSE [content EXCEPT ![u.entry] =
                                 [b \in Blocks |-> IF b \in u.blks THEN u.cmd ELSE @[b]]]
           /\ dmaLeft' = [dmaLeft EXCEPT ![u.cmd][dir] = @ - 1]
           /\ low' = [low EXCEPT
                !.fifo[dir] = Tail(@),
                !.req = [s \in Slots |-> IF @[s].pos > 0 /\ Dir(@[s]) = dir
                                         THEN [@[s] EXCEPT !.pos = @ - 1] ELSE @[s]],
                !.cpl[u.cmd] = IF ~u.custom /\ dmaLeft[u.cmd][dir] = 1 THEN @ + 1 ELSE @]
    /\ UNCHANGED <<fwVars, bufVars, mapVars, die, flash, sent, latest>>

\* A die executes the request at the head of its queue.
NandExecute(d) ==
    /\ die[d] = "busy"
    /\ LET r == low.req[Head(low.nand[d])]
       IN  IF r.code = "WRITE"
           THEN flash' = [flash EXCEPT ![r.vsa] = content[r.entry]] /\ UNCHANGED content
           ELSE content' = [content EXCEPT ![r.entry] = flash[r.vsa]] /\ UNCHANGED flash
    /\ die' = [die EXCEPT ![d] = "ready"]
    /\ UNCHANGED <<fwVars, low, bufVars, mapVars, hostVars>>

\* The host has sent all its commands and the main loop finds nothing to do.
Idle ==
    /\ pc = "main" /\ scan = NoScan /\ ~WorkLeft
    /\ \A c \in Cmds : sent[c] # None
    /\ \A dir \in Dirs : low.fifo[dir] = << >>
    /\ UNCHANGED vars

\* The firmware thread: the main loop in its running state.
Firmware ==
    \/ \E c \in Cmds : \E k \in Workload[c] : FetchCmd(c, k)
    \/ ReqTransNvmeToSlice
    \/ GetDataBufEntry
    \/ EvictDataBufEntry
    \/ NoDataRead
    \/ DataReadFromNand
    \/ TransformToDma
    \/ StartPoll
    \/ CheckDoneNvmeDmaReq
    \/ CheckDoneCustomCmdDmaReq
    \/ SchedulingNandReq

Next ==
    \/ Firmware
    \/ \E dir \in Dirs : DmaExecute(dir)
    \/ \E d \in Dies : NandExecute(d)
    \/ Idle

\* The firmware thread never stops, the engine executes what it has been
\* handed and a die finishes what it was given.
Fairness ==
    /\ WF_vars(Firmware)
    /\ \A dir \in Dirs : WF_vars(DmaExecute(dir))
    /\ \A d \in Dies : WF_vars(NandExecute(d))

Spec == Init /\ [][Next]_vars /\ Fairness

(***************************************************************************)
(* Properties.                                                             *)
(***************************************************************************)

Codes == {"none", "READ", "WRITE", "RxDMA", "TxDMA"}

TypeOK ==
    /\ pc \in {"main", "slice", "translate", "evict", "fill", "transform"}
    /\ cur \in Slots \cup {None}
    /\ sliceReqQ \in Seq(Slots)
    /\ scan.phase \in {"off", "nvmeDma", "customCmd", "nand"}
    /\ \A s \in Slots :
          /\ low.req[s].type \in {"none", "slice", "dma", "nand"}
          /\ low.req[s].code \in Codes
          /\ low.req[s].entry \in Entries \cup {None}
          /\ low.req[s].pos \in Nat
          /\ low.prev[s] \in Slots \cup {None} /\ low.next[s] \in Slots \cup {None}
    /\ low.free \in Seq(Slots) /\ low.bufDep \subseteq Slots
    /\ low.nvmeDma \in Seq(Slots) /\ low.customCmd \in Seq(Slots)
    /\ \A d \in Dies : low.nand[d] \in Seq(Slots) /\ low.rowDep[d] \in Seq(Slots)
    /\ low.tail \in [Entries -> Slots \cup {None}]
    /\ low.row \in [Dies \X VBlocks -> [permitted : 0 .. MaxPages,
                                         reads : 0 .. Cardinality(Slots), erase : {FALSE}]]
    /\ nextPage \in [Dies -> 0 .. MaxPages]
    /\ low.notRx \in [Cmds -> Nat] /\ low.notTx \in [Cmds -> Nat]
    /\ dmaLeft \in [Cmds -> [Dirs -> Nat]]
    /\ dataBuf \in [Entries -> [lsa : Lsas \cup {None}, dirty : BOOLEAN]]
    /\ hashed \subseteq Entries
    /\ sliceMap \in [Lsas -> Pages \cup {None}]
    /\ flash \in [Pages -> [Blocks -> Cmds \cup {None}]]
    /\ content \in [Entries -> [Blocks -> Cmds \cup {None}]]

Holds(queue, s) == Cardinality({i \in DOMAIN queue : queue[i] = s})

\* Every slot of the request pool is in exactly one place: one queue, once, or
\* in hand.  A slot in two queues would be completed twice, a slot in none is
\* lost to the pool for good.
PoolPartition ==
    \A s \in Slots :
        /\ Holds(low.free, s) + Cardinality(low.bufDep \cap {s})
           + Holds(sliceReqQ, s) + Holds(low.nvmeDma, s) + Holds(low.customCmd, s)
           + Cardinality({d \in Dies : Holds(low.nand[d], s) = 1})
           + Cardinality({d \in Dies : Holds(low.rowDep[d], s) = 1})
           + (IF cur = s THEN 1 ELSE 0) = 1
        /\ \A d \in Dies : Holds(low.nand[d], s) <= 1 /\ Holds(low.rowDep[d], s) <= 1

\* The requests that use a buffer entry form one chain, in which exactly the
\* first is not blocked: links agree in both directions, join requests of the
\* same entry, end at blockingReqTail, and a request waits in
\* blockedByBufDepReqQ exactly when it has a predecessor.  Free slots carry no
\* links into their next life, and a request in customCmdQ is never blocked (the
\* branch of CheckDoneCustomCmdDmaReq for a blocked request is dead code).
ChainsWellFormed ==
    /\ \A s, t \in Slots :
          low.next[s] = t <=> (low.prev[t] = s)
    /\ \A s \in Slots :
          /\ low.prev[s] # None <=> s \in low.bufDep
          /\ low.prev[s] # None => low.req[low.prev[s]].entry = low.req[s].entry
          /\ low.req[s].type \in {"dma", "nand"} /\ low.next[s] = None
                <=> \E e \in Entries : low.tail[e] = s
    /\ \A e \in Entries : low.tail[e] # None => low.req[low.tail[e]].entry = e

\* A request slot is in one place, and its links are those of its present life.
SlotsExact == TypeOK /\ PoolPartition /\ ChainsWellFormed

\* A slice is cached at most once, in one of the two buffers: a read after a
\* write never finds an older copy in the other buffer.
Coherent ==
    \A e, f \in hashed : dataBuf[e].lsa = dataBuf[f].lsa => e = f

\* The data handed to the host is the data written last.  As long as a Tx is in
\* the hands of the engine, its buffer entry holds, for every block that was
\* ever written, what the last write translated before it wrote: through hits,
\* evictions to NAND and reads back from NAND, and read-modify-write.
TxDataCurrent ==
    \A i \in DOMAIN low.fifo["Tx"] :
        LET u == low.fifo["Tx"][i]
        IN  \A b \in u.blks : u.expect[b] # None => content[u.entry][b] = u.expect[b]

\* NAND pages are programmed in order, whatever order the evicting requests
\* become unblocked in: the programmed pages of a die are always a prefix.
Programmed(p) == flash[p] # Erased

ProgramInOrder ==
    \A d \in Dies, p, q \in 0 .. MaxPages - 1 :
        Programmed(<<d, OpenBlock, p>>) /\ q < p => Programmed(<<d, OpenBlock, q>>)

\* The read half of a RW command reaches the host only when the device owns the
\* whole dirty page: while a Tx of the command is in the hands of the engine, all
\* of its write slices have been transferred, those not yet translated or
\* blocked behind other users of their buffer entry included.
TxAfterRx ==
    \A i \in DOMAIN low.fifo["Tx"] :
        low.fifo["Tx"][i].custom => dmaLeft[low.fifo["Tx"][i].cmd]["Rx"] = 0

\* The RW commands, as their caller sees them.
RwSent == {c \in Cmds : sent[c] # None /\ sent[c].op = "rw"}

Promise == INSTANCE RwCommand WITH
    sent   <- RwSent,
    rxLeft <- [c \in Cmds |-> IF c \in RwSent THEN dmaLeft[c]["Rx"] ELSE 0],
    txLeft <- [c \in Cmds |-> IF c \in RwSent THEN dmaLeft[c]["Tx"] ELSE 0],
    acks   <- [c \in Cmds |-> IF c \in RwSent THEN low.cpl[c] ELSE 0]

\* The firmware keeps the promise of the RW command (RwCommand): the write pages
\* are transferred before the first read page, and the command is acknowledged
\* exactly once, after the last read page has left the device.
KeepsPromise == Promise!Spec

\* A command is acknowledged only after all its data has been transferred: for
\* the RW command, after its last read page has left the device.
AckAfterTransfer == \A c \in Cmds : low.cpl[c] > 0 => dmaLeft[c] = [Rx |-> 0, Tx |-> 0]

\* No command is acknowledged twice.
AckedOnce == \A c \in Cmds : low.cpl[c] <= 1

\* Every command the host sends is eventually acknowledged, also when the
\* request pool runs empty in the middle of its translation.  An acknowledgement
\* stays, and the commands are finitely many, so it is enough that again and
\* again none is owed.
EveryCommandAcked ==
    []<>(\A c \in Cmds : sent[c] # None => low.cpl[c] > 0)

\* A RW command processes its read first: while a read page of it has not been
\* transferred, neither has a write page.
ReadFirst ==
    \A c \in Cmds :
        sent[c] # None /\ sent[c].op = "rw" /\ dmaLeft[c]["Tx"] > 0
            => dmaLeft[c]["Rx"] = SlicesOf(c, sent[c], "WRITE")
=============================================================================
