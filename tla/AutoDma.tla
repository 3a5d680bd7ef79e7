------------------------------ MODULE AutoDma ------------------------------
(***************************************************************************)
(* The host auto-DMA driver of nvme/host_lld.c as IssueNvmeDmaReq          *)
(* (request_transform.c) uses it.                                          *)
(*                                                                         *)
(* The DMA engine has one in-order command FIFO per direction.  The        *)
(* firmware keeps an 8-bit tail index per FIFO and counts the tail's       *)
(* wrap-arounds; the engine exposes an 8-bit head index.  A request is a   *)
(* run of DMA commands and remembers the tail index and the wrap count     *)
(* right after its last command.  From these bounded indices               *)
(* check_auto_{tx,rx}_dma_partial_done decides whether all commands of the *)
(* request have been executed.                                             *)
(*                                                                         *)
(* The wrap counters have 32 bits in the code: they would wrap only after  *)
(* 2^40 commands, and are natural numbers here.                            *)
(*                                                                         *)
(* `issued', `done' and `headWrap' are history variables: the true number  *)
(* of commands issued and executed, and the wrap-arounds of the head,      *)
(* which no register shows.  They never guard an action, except that       *)
(* `issued' carries the bound MaxIssued.                                   *)
(***************************************************************************)
EXTENDS Integers

CONSTANTS Dirs,          \* the directions: Rx (host to device) and Tx
          FifoSize,      \* number of values of a FIFO index (256: 8 bits)
          BlocksPerReq,  \* NVMe blocks in the largest request
          MaxIssued      \* bound: DMA commands issued per direction

ASSUME FifoSizeAssumption == FifoSize \in Nat /\ FifoSize > 1
ASSUME BlocksAssumption   == BlocksPerReq \in Nat \ {0}
ASSUME BoundAssumption    == MaxIssued \in Nat

VARIABLES fifoTail,     \* g_hostDmaStatus.fifoTail.autoDma{Rx,Tx}
          overFlowCnt,  \* g_hostDmaAssistStatus.autoDma{Rx,Tx}OverFlowCnt
          fifoHead,     \* HOST_DMA_FIFO_CNT_REG as the engine shows it
          left,         \* blocks the running IssueNvmeDmaReq still has to issue
          reqs,         \* requests issued and not yet found done
          issued, done, headWrap

vars == <<fifoTail, overFlowCnt, fifoHead, left, reqs, issued, done, headWrap>>

Index == 0 .. FifoSize - 1

\* What IssueNvmeDmaReq stores in nvmeDmaInfo (reqTail, overFlowCnt).  `end' is
\* the history of the request: the number of its last DMA command.
Request == [dir : Dirs, reqTail : Index, overFlowCnt : Nat, end : Nat]

\* MUTANT of Succ: an index wider than the register.
SuccNoWrap(i) == i + 1

\* ++ on an index register of FifoSize values.
Succ(i) == IF i = FifoSize - 1 THEN 0 ELSE i + 1

TypeOK ==
    /\ fifoTail    \in [Dirs -> Index]
    /\ overFlowCnt \in [Dirs -> Nat]
    /\ fifoHead    \in [Dirs -> Index]
    /\ left        \in [Dirs -> Nat]
    /\ reqs        \in SUBSET Request
    /\ issued      \in [Dirs -> Nat]
    /\ done        \in [Dirs -> Nat]
    /\ headWrap    \in [Dirs -> Nat]

Init ==
    /\ fifoTail    = [d \in Dirs |-> 0]
    /\ overFlowCnt = [d \in Dirs |-> 0]
    /\ fifoHead    = [d \in Dirs |-> 0]
    /\ left        = [d \in Dirs |-> 0]
    /\ reqs        = {}
    /\ issued      = [d \in Dirs |-> 0]
    /\ done        = [d \in Dirs |-> 0]
    /\ headWrap    = [d \in Dirs |-> 0]

(***************************************************************************)
(* Operations.                                                             *)
(***************************************************************************)

\* MUTANT of FifoFull: the wait loop is dropped.
FifoFullUnchecked(d) == FALSE

\* The loop that refuses to fill the FIFO: an issue waits while the FIFO holds
\* FifoSize - 1 commands.  The head is read from the register on every turn.
FifoFull(d) == Succ(fifoTail[d]) = fifoHead[d]

\* IssueNvmeDmaReq is entered with a request of n blocks.  The firmware is
\* single-threaded: no other request is being issued.
BeginIssue(d, n) ==
    /\ \A e \in Dirs : left[e] = 0
    /\ issued[d] + n <= MaxIssued
    /\ left' = [left EXCEPT ![d] = n]
    /\ UNCHANGED <<fifoTail, overFlowCnt, fifoHead, reqs, issued, done, headWrap>>

\* The request remembers the indices once its last block has been issued.
Remember(d) ==
    reqs' = IF left[d] = 1
            THEN reqs \cup {[dir |-> d, reqTail |-> fifoTail'[d],
                             overFlowCnt |-> overFlowCnt'[d], end |-> issued'[d]]}
            ELSE reqs

\* set_auto_rx_dma / set_auto_tx_dma for one block.
SetAutoDma(d) ==
    /\ left[d] > 0
    /\ ~FifoFull(d)
    /\ fifoTail' = [fifoTail EXCEPT ![d] = Succ(@)]
    /\ overFlowCnt' = [overFlowCnt EXCEPT
                         ![d] = IF fifoTail[d] > Succ(fifoTail[d]) THEN @ + 1 ELSE @]
    /\ issued' = [issued EXCEPT ![d] = @ + 1]
    /\ left' = [left EXCEPT ![d] = @ - 1]
    /\ Remember(d)
    /\ UNCHANGED <<fifoHead, done, headWrap>>

\* The engine executes the oldest command of a FIFO and advances the head.
EngineStep(d) ==
    /\ fifoHead[d] # fifoTail[d]
    /\ fifoHead' = [fifoHead EXCEPT ![d] = Succ(@)]
    /\ headWrap' = [headWrap EXCEPT ![d] = IF Succ(fifoHead[d]) = 0 THEN @ + 1 ELSE @]
    /\ done' = [done EXCEPT ![d] = @ + 1]
    /\ UNCHANGED <<fifoTail, overFlowCnt, left, reqs, issued>>

\* MUTANT of PartialDone: the wrapped tail is compared with the saved count itself.
PartialDoneNoCarry(d, reqTail, reqOverFlow) ==
    LET head == fifoHead[d]
        tail == fifoTail[d]
    IN  \/ head = tail
        \/ head = reqTail
        \/ head < reqTail /\ (overFlowCnt[d] # reqOverFlow \/ (tail < reqTail /\ tail > head))
        \/ head > reqTail /\ (tail < reqTail \/ tail > head \/ overFlowCnt[d] # reqOverFlow)

\* MUTANT of PartialDone: the empty FIFO is not recognised.
PartialDoneNoEmptyTest(d, reqTail, reqOverFlow) ==
    LET head == fifoHead[d]
        tail == fifoTail[d]
    IN  \/ head = reqTail
        \/ head < reqTail /\ IF tail < reqTail
                             THEN tail > head \/ overFlowCnt[d] # reqOverFlow + 1
                             ELSE overFlowCnt[d] # reqOverFlow
        \/ head > reqTail /\ (tail < reqTail \/ tail > head \/ overFlowCnt[d] # reqOverFlow)

\* check_auto_rx_dma_partial_done / check_auto_tx_dma_partial_done.
PartialDone(d, reqTail, reqOverFlow) ==
    LET head == fifoHead[d]
        tail == fifoTail[d]
    IN  \/ head = tail
        \/ head = reqTail
        \/ /\ head < reqTail
           /\ IF tail < reqTail
              THEN tail > head \/ overFlowCnt[d] # reqOverFlow + 1
              ELSE overFlowCnt[d] # reqOverFlow
        \/ /\ head > reqTail
           /\ \/ tail < reqTail
              \/ tail > head
              \/ overFlowCnt[d] # reqOverFlow

\* A poll of CheckDoneNvmeDmaReq finds request r done and takes it off its queue.
CheckDone(r) ==
    /\ \A e \in Dirs : left[e] = 0
    /\ PartialDone(r.dir, r.reqTail, r.overFlowCnt)
    /\ reqs' = reqs \ {r}
    /\ UNCHANGED <<fifoTail, overFlowCnt, fifoHead, left, issued, done, headWrap>>

Next ==
    \/ \E d \in Dirs, n \in 1 .. BlocksPerReq : BeginIssue(d, n)
    \/ \E d \in Dirs : SetAutoDma(d)
    \/ \E d \in Dirs : EngineStep(d)
    \/ \E r \in reqs : CheckDone(r)

\* The engine keeps executing, the firmware keeps issuing and polling.
Fairness ==
    /\ \A d \in Dirs : WF_vars(SetAutoDma(d)) /\ WF_vars(EngineStep(d))
    /\ WF_vars(\E r \in reqs : CheckDone(r))

Spec == Init /\ [][Next]_vars /\ Fairness

(***************************************************************************)
(* Properties.                                                             *)
(***************************************************************************)

\* The 8-bit comparison answers the real question for every outstanding
\* request, whatever wrapped in between: check_auto_*_dma_partial_done returns
\* 1 exactly when the last DMA command of the request has been executed.
PartialDoneExact ==
    \A r \in reqs : PartialDone(r.dir, r.reqTail, r.overFlowCnt) <=> done[r.dir] >= r.end

\* The engine is never handed a full FIFO, whose head and tail would look like
\* an empty one: set_auto_*_dma keeps at most FifoSize - 1 commands in flight
\* and the tail is never overtaken.
FifoNeverFull ==
    \A d \in Dirs : done[d] <= issued[d] /\ issued[d] - done[d] < FifoSize

\* Every issued request is eventually found done by the polling loop.
EveryRequestFoundDone ==
    \A d \in Dirs, k \in 1 .. MaxIssued :
        (\E r \in reqs : r.dir = d /\ r.end = k) ~> ~(\E r \in reqs : r.dir = d /\ r.end = k)
=============================================================================
