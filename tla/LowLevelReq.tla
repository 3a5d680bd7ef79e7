---------------------------- MODULE LowLevelReq ----------------------------
(***************************************************************************)
(* The low-level request layer of the firmware: the request pool, the      *)
(* request queues, the blocking chains of the buffer entries, the row      *)
(* address dependency, the completion table of the RW command              *)
(* (request_allocation.c, request_transform.c, custom_io_cmd_completion.c).*)
(*                                                                         *)
(* The layer is one record `low' and every C function of it an operator    *)
(* from such a record to the next, so that a handler composes them in the  *)
(* order of its calls.  RequestPath makes `low' a variable.                *)
(*                                                                         *)
(*   req      the request pool; prev and next are prevBlockingReq and      *)
(*            nextBlockingReq, which survive the release of a slot         *)
(*   tail     blockingReqTail of every buffer entry                        *)
(*   free, nvmeDma, customCmd, nand, rowDep   the queues, head first       *)
(*   bufDep   blockedByBufDepReqQ: a set, for requests leave it by name    *)
(*            and nothing depends on its order                             *)
(*   row      rowAddrDependencyTable: permittedProgPage, blockedReadReqCnt *)
(*            and blockedEraseReqFlag of every block of every die          *)
(*   fifo     the DMA commands handed to the engine and not yet executed,  *)
(*            one per request: that check_auto_*_dma_partial_done answers  *)
(*            exactly whether a request is still among them is proved in   *)
(*            HostInterfaceProofs                                          *)
(*   notRx, notTx   notCompletedRxCount and notCompletedTxCount            *)
(*   cpl      completions posted with set_auto_nvme_cpl or by the engine   *)
(*                                                                         *)
(* SyncReleaseEraseReq polls in the middle of SelectLowLevelReqQ: a caller *)
(* waits while NeedsSync, and then uses SelectLowLevelReqQ.                *)
(*                                                                         *)
(* Left out: NAND requests with a physical address (reset, bad block scan) *)
(* and the counters nothing reads (notIssued*Count,                        *)
(* notCompletedNANDCount, the host request timers).                        *)
(***************************************************************************)
EXTENDS Integers, Sequences, FiniteSets, SequencesExt

CONSTANTS Slots,     \* the request pool
          Entries,   \* entries of both data buffers
          Dies,      \* NAND dies
          VBlocks,   \* virtual blocks of a die
          Cmds,      \* NVMe command slot tags
          None       \* REQ_SLOT_TAG_NONE, VSA_NONE, LSA_NONE

ASSUME NoneAssumption == None \notin Slots \cup Entries \cup Dies \cup Cmds

Dirs == {"Rx", "Tx"}

\* A slot nobody has filled in.  A released slot keeps its old contents in the
\* firmware; all of these fields are written before they are read again.
BlankReq ==
    [type |-> "none", code |-> "none", cmd |-> None, lsa |-> None, blks |-> {},
     custom |-> FALSE, entry |-> None, issued |-> FALSE, pos |-> 0, vsa |-> None,
     cnt |-> 0, expect |-> << >>]

InitLow ==
    [req |-> [s \in Slots |-> BlankReq],
     prev |-> [s \in Slots |-> None], next |-> [s \in Slots |-> None],
     tail |-> [e \in Entries |-> None],
     free |-> FoldSet(LAMBDA s, q : Append(q, s), << >>, Slots), bufDep |-> {},
     nvmeDma |-> << >>, customCmd |-> << >>,
     nand |-> [d \in Dies |-> << >>], rowDep |-> [d \in Dies |-> << >>],
     row |-> [b \in Dies \X VBlocks |-> [permitted |-> 0, reads |-> 0, erase |-> FALSE]],
     fifo |-> [dir \in Dirs |-> << >>],
     notRx |-> [c \in Cmds |-> 0], notTx |-> [c \in Cmds |-> 0],
     cpl |-> [c \in Cmds |-> 0]]

Without(queue, s) == SelectSeq(queue, LAMBDA t : t # s)

Dir(r) == IF r.code = "RxDMA" THEN "Rx" ELSE "Tx"

(***************************************************************************)
(* Request queues.                                                         *)
(***************************************************************************)

\* GetFromFreeReqQ: the caller takes the oldest free slot and fills it with r.
GetFromFreeReqQ(low, r) ==
    [low EXCEPT !.free = Tail(@), !.req[Head(low.free)] = r]

PutToNvmeDmaReqQ(low, s) == [low EXCEPT !.nvmeDma = Append(@, s)]

PutToCustomCmdReqQ(low, s) == [low EXCEPT !.customCmd = Append(@, s)]

PutToNandReqQ(low, s, d) == [low EXCEPT !.nand[d] = Append(@, s)]

PutToBlockedByRowAddrDepReqQ(low, s, d) == [low EXCEPT !.rowDep[d] = Append(@, s)]

SelectiveGetFromBlockedByRowAddrDepReqQ(low, s, d) ==
    [low EXCEPT !.rowDep[d] = Without(@, s)]

PutToBlockedByBufDepReqQ(low, s) == [low EXCEPT !.bufDep = @ \cup {s}]

SelectiveGetFromBlockedByBufDepReqQ(low, s) == [low EXCEPT !.bufDep = @ \ {s}]

(***************************************************************************)
(* Issuing DMA requests.                                                   *)
(***************************************************************************)

\* MUTANT of MayIssue: the read of a RW command does not wait for its write.
MayIssueAtOnce(low, r) == TRUE

\* IssueNvmeDmaReq gives up on a Tx of a RW command while Rx are outstanding.
MayIssue(low, r) == ~(r.code = "TxDMA" /\ r.custom /\ low.notRx[r.cmd] # 0)

\* IssueNvmeDmaReq.  `pos' counts the commands of the FIFO up to the last one of
\* this request: what reqTail and overFlowCnt stand for.
IssueNvmeDmaReq(low, s) ==
    LET r    == low.req[s]
        unit == [cmd |-> r.cmd, custom |-> r.custom, entry |-> r.entry,
                 blks |-> r.blks, expect |-> r.expect]
        fifo == Append(low.fifo[Dir(r)], unit)
    IN  IF MayIssue(low, r)
        THEN [low EXCEPT !.fifo[Dir(r)] = fifo,
                         !.req[s].issued = TRUE,
                         !.req[s].pos = Len(fifo)]
        ELSE low

\* A DMA request that nothing blocks is issued and queued.
ToDmaQueue(low, s) ==
    IF low.req[s].custom
    THEN PutToCustomCmdReqQ(IssueNvmeDmaReq(low, s), s)
    ELSE PutToNvmeDmaReqQ(IssueNvmeDmaReq(low, s), s)

(***************************************************************************)
(* The row address dependency.  A vsa is a triple <<die, block, page>>.    *)
(***************************************************************************)

BlockOf(r) == <<r.vsa[1], r.vsa[2]>>

\* MUTANT of RowAddrPass: the dependency is not checked.
RowAddrPassAlways(low, r) == TRUE

\* CheckRowAddrDep: a read may follow the program of its page, programs go to
\* the die in page order, and an erase follows all programs of its block and
\* the reads that wait for them.
RowAddrPass(low, r) ==
    LET row == low.row[BlockOf(r)]
    IN  CASE r.code = "WRITE" -> r.vsa[3] = row.permitted
          [] r.code = "READ"  -> r.vsa[3] < row.permitted
          [] r.code = "ERASE" -> row.permitted = r.cnt /\ row.reads = 0

\* MUTANT of Permit: the flag of the blocked erase is not taken back.
PermitKeepFlag(low, s) ==
    LET r == low.req[s]
    IN  [PutToNandReqQ(low, s, r.vsa[1]) EXCEPT
          !.row[BlockOf(r)].permitted = CASE r.code = "WRITE" -> @ + 1
                                          [] r.code = "READ"  -> @
                                          [] r.code = "ERASE" -> 0]

\* The request enters the queue of its die, and the table tells the others.
Permit(low, s) ==
    LET r == low.req[s]
    IN  [PutToNandReqQ(low, s, r.vsa[1]) EXCEPT
          !.row[BlockOf(r)] =
            CASE r.code = "WRITE" -> [@ EXCEPT !.permitted = @ + 1]
              [] r.code = "READ"  -> @
              [] r.code = "ERASE" -> [@ EXCEPT !.permitted = 0, !.erase = FALSE]]

\* A read or an erase that has to wait is entered in the table.
Register(low, s) ==
    LET r == low.req[s]
    IN  [low EXCEPT !.row[BlockOf(r)] =
            CASE r.code = "WRITE" -> @
              [] r.code = "READ"  -> [@ EXCEPT !.reads = @ + 1]
              [] r.code = "ERASE" -> [@ EXCEPT !.erase = TRUE]]

\* MUTANT of Unregister: the count of blocked reads is not taken back.
UnregisterNothing(low, s) == low

\* A blocked read that may go is taken out of the table.
Unregister(low, s) ==
    LET r == low.req[s]
    IN  IF r.code = "READ" THEN [low EXCEPT !.row[BlockOf(r)].reads = @ - 1] ELSE low

\* CheckRowAddrDep for a new request, and the queue it decides on.
SelectNandQueue(low, s) ==
    IF RowAddrPass(low, low.req[s])
    THEN Permit(low, s)
    ELSE PutToBlockedByRowAddrDepReqQ(Register(low, s), s, low.req[s].vsa[1])

\* CheckRowAddrDep for a request that no buffer entry blocks any more.
ReleaseNandQueue(low, s) ==
    IF RowAddrPass(low, low.req[s])
    THEN Permit(Unregister(low, s), s)
    ELSE PutToBlockedByRowAddrDepReqQ(low, s, low.req[s].vsa[1])

\* ReleaseBlockedByRowAddrDepReq: one pass over the blocked requests of a die.
ReleaseBlockedByRowAddrDepReq(low, d) ==
    LET Step(l, s) ==
            IF RowAddrPass(l, l.req[s])
            THEN Permit(Unregister(SelectiveGetFromBlockedByRowAddrDepReqQ(l, s, d), s), s)
            ELSE l
    IN  FoldLeft(Step, low, low.rowDep[d])

(***************************************************************************)
(* The buffer dependency.                                                  *)
(***************************************************************************)

\* MUTANT of UpdateBlockingReq: the last user does not wait for the one before.
UpdateBlockingUnlinked(low, e, s) == [low EXCEPT !.tail[e] = s]

\* UpdateDataBufEntryInfoBlockingReq and its twin for the read buffer: s becomes
\* the last user of entry e.
UpdateBlockingReq(low, e, s) ==
    LET last == low.tail[e]
    IN  IF last = None
        THEN [low EXCEPT !.tail[e] = s]
        ELSE [low EXCEPT !.tail[e] = s, !.prev[s] = last, !.next[last] = s]

\* MUTANT of NeedsSync: a read does not wait for the erase of its block.
NeedsSyncNever(low, s) == FALSE

\* A read of a block with a blocked erase is for the block after the erase: the
\* firmware polls in SyncReleaseEraseReq until the erase is queued.
NeedsSync(low, s) ==
    /\ low.req[s].type = "nand" /\ low.req[s].code = "READ"
    /\ low.row[BlockOf(low.req[s])].erase

\* SelectLowLevelReqQ, once ~NeedsSync.  The predecessor in the chain may have
\* gone in the meantime: CheckBufDep is asked again
\* (UpdateRowAddrDepTableForBufBlockedReq).
SelectLowLevelReqQ(low, s) ==
    CASE low.prev[s] = None /\ low.req[s].type = "dma"  -> ToDmaQueue(low, s)
      [] low.prev[s] = None /\ low.req[s].type = "nand" -> SelectNandQueue(low, s)
      [] low.prev[s] # None /\ low.req[s].type = "dma"  -> PutToBlockedByBufDepReqQ(low, s)
      [] low.prev[s] # None /\ low.req[s].type = "nand" ->
            PutToBlockedByBufDepReqQ(Register(low, s), s)

\* MUTANT of Unlink: the released slot keeps its link to the next user.
UnlinkKeepNext(low, s) ==
    LET t == low.next[s]
    IN  [low EXCEPT !.prev = IF t = None THEN @ ELSE [@ EXCEPT ![t] = None],
                    !.tail = [e \in Entries |-> IF @[e] = s THEN None ELSE @[e]]]

\* The first half of ReleaseBlockedByBufDepReq: s leaves the chain of its entry.
Unlink(low, s) ==
    LET t == low.next[s]
    IN  [low EXCEPT !.prev = IF t = None THEN @ ELSE [@ EXCEPT ![t] = None],
                    !.next[s] = None,
                    !.tail = [e \in Entries |-> IF @[e] = s THEN None ELSE @[e]]]

\* ReleaseBlockedByBufDepReq.
ReleaseBlockedByBufDepReq(low, s) ==
    LET t        == low.next[s]
        unlinked == Unlink(low, s)
        released == SelectiveGetFromBlockedByBufDepReqQ(unlinked, t)
    IN  CASE t = None \/ t \notin low.bufDep -> unlinked
          [] t \in low.bufDep /\ low.req[t].type = "dma"  -> ToDmaQueue(released, t)
          [] t \in low.bufDep /\ low.req[t].type = "nand" -> ReleaseNandQueue(released, t)

\* MUTANT of FreeAndRelease: the slot goes back without waking the next user.
FreeOnly(low, s) ==
    [Unlink(low, s) EXCEPT !.free = Append(@, s), !.req[s] = BlankReq]

\* PutToFreeReqQ followed by ReleaseBlockedByBufDepReq, which still reads the
\* slot; nothing allocates in between.
FreeAndRelease(low, s) ==
    [ReleaseBlockedByBufDepReq(low, s) EXCEPT !.free = Append(@, s), !.req[s] = BlankReq]

(***************************************************************************)
(* Completing requests.                                                    *)
(***************************************************************************)

SelectiveGetFromNvmeDmaReqQ(low, s) ==
    FreeAndRelease([low EXCEPT !.nvmeDma = Without(@, s)], s)

\* MUTANT of CompleteForCustomIoCmd: the command is acknowledged with its write.
CompleteOnRx(low, r) ==
    IF r.code = "RxDMA"
    THEN [low EXCEPT !.notRx[r.cmd] = @ - 1,
                     !.cpl[r.cmd] = IF low.notRx[r.cmd] = 1 THEN @ + 1 ELSE @]
    ELSE [low EXCEPT !.notTx[r.cmd] = @ - 1]

\* CompleteRxforCustomIoCmd and CompleteTxforCustomIoCmd.
CompleteForCustomIoCmd(low, r) ==
    IF r.code = "RxDMA"
    THEN [low EXCEPT !.notRx[r.cmd] = @ - 1]
    ELSE [low EXCEPT !.notTx[r.cmd] = @ - 1,
                     !.cpl[r.cmd] = IF low.notTx[r.cmd] = 1 /\ low.notRx[r.cmd] = 0
                                    THEN @ + 1 ELSE @]

SelectiveGetFromCustomCmdReqQ(low, s) ==
    LET dequeued == [low EXCEPT !.customCmd = Without(@, s)]
    IN  FreeAndRelease(CompleteForCustomIoCmd(dequeued, low.req[s]), s)

GetFromNandReqQ(low, d) ==
    FreeAndRelease([low EXCEPT !.nand[d] = Tail(@)], Head(low.nand[d]))
=============================================================================
