# rw-rbuf: a TLA+ verification project

rw-rbuf couples a modified MySQL/InnoDB with the firmware of a Cosmos+ OpenSSD
board. InnoDB evicts a dirty page and reads another one with a single NVMe
command, the *RW command*; the firmware takes over the dirty page (Rx DMA),
then hands out the requested page (Tx DMA) and acknowledges both at once. Reads
are cached in a separate read buffer (RBuf), so that reads never wait for the
eviction of dirty data of the normal write buffer.

The repository's own logic is the firmware, `src/cosmos-firmware/` (6700 lines
of C), and some hundreds of lines spread over the buffer pool of InnoDB,
`src/mysql/storage/innobase/`. This project models both. The rest of
`src/mysql/` is upstream MySQL. Paths below are relative to
`src/cosmos-firmware/`, or to `src/mysql/storage/innobase/` for `.cc` files.

## 1. Inventory

| Component | State it keeps | Operations | Talks to |
|---|---|---|---|
| NVMe main loop, `nvme/nvme_main.c`, `nvme/nvme_io_cmd.c` | `g_nvmeTask.status` | fetch a command, split and translate it; otherwise poll; enable, disable, reset, shut down the controller | everything below; the interrupt handler writes `g_nvmeTask.status` too |
| Auto-DMA driver, interrupt handler, `nvme/host_lld.c` | 8-bit FIFO tails, wrap counters | `set_auto_{tx,rx}_dma`, `check_auto_{tx,rx}_dma_partial_done`, `dev_irq_handler` | the DMA engine, which advances the FIFO heads; host and link |
| Admin commands, `nvme/nvme_admin_cmd.c` | I/O queues, cache setting | create and delete queues, features | main loop |
| Slice split, `request_transform.c:78` | none | `ReqTransNvmeToSlice` | fills `sliceReqQ` |
| Request pool and queues, `request_allocation.c` | request pool, seven kinds of queue | `PutTo...`, `GetFrom...`, `SelectiveGetFrom...` | `GetFromFreeReqQ` polls when the pool is empty |
| Request transformation, `request_transform.c` | blocking chains, row address dependency table | `ReqTransSliceToLowLevel`, evict, fill, `SelectLowLevelReqQ`, release, issue, check done | data buffers, address translation, queues, DMA |
| Data buffers, `data_buffer.c`, `data_buffer_ccmd.c` | two buffers: LRU list, hash lists, dirty flag, tail of the blocking chain of every entry; a temporary entry per die | lookup, allocate | request transformation, garbage collector |
| RW completion table, `custom_io_cmd_completion.c` | outstanding Rx and Tx per command | count, complete, acknowledge | host |
| NAND scheduler, `request_schedule.c` | die states, way priority lists, retry limits | `SchedulingNandReqPerCh`, `SyncAvailFreeReq`, `SyncReleaseEraseReq`, `SyncAllLowLevelReqDone` | flash controller (`nsc_driver.c`) |
| Address translation, `address_translation.c` | both slice maps, block map, die map | `AddrTransRead/Write`, allocation of pages, erasure | garbage collector |
| Garbage collector, `garbage_collection.c` | victim lists per number of invalid slices | `GarbageCollection` | address translation, request layer |
| Bad blocks, `address_translation.c` | table in flash, physical and virtual block map | recover, scan, remap, save | start-up, shutdown, scheduler |
| InnoDB side, `buf/buf0{buf,flu,lru,rea}.cc` | control blocks, page hash, LRU and free list, two flags per block for the RW command | get a page, find a block, send a RW command, take the victim's block over, flush, evict | the firmware; page cleaner and I/O threads |

What is hard about it:

* **One firmware thread, concurrent hardware.** The DMA engine executes two
  FIFOs and every die its request at any time; the firmware learns of it by
  polling. The poll also runs *inside* a translation, when the request pool is
  empty or a read meets a waiting erase, so completions interleave with
  half-translated commands.
* **Order.** Requests for one buffer entry form a chain and must run in that
  order; pages must be programmed in order and not be read before they are
  programmed; an erase must not overtake a read nor be overtaken by a program of
  the block's next life; the Tx of a RW command must follow all its Rx.
* **Two caches** for the same slices.
* **An interrupt handler** that stores into the variable the main loop tests and
  sets.
* **Failing hardware**: status reports that come late, failing operations, ECC
  errors, retries, blocks that go bad, power cuts while the table of bad blocks is
  rewritten.
* **Bounded resources**: indices that wrap, a bounded request pool, a die that runs
  out of free blocks, a LUN that runs out of reserved ones.
* **Intrusive lists**: a block has a single pair of links for the free list and
  all victim lists; a way one for seven lists; request slots keep their chain links
  when they are freed.
* **InnoDB**: a block changes from one page to another without passing the free
  list, in sections under different mutexes, beside threads that want either page.

`hazards` in `PROJECT.json` lists these at their lines, each with the property
that would catch it.

What makes each component correct: the DMA driver answers "done" exactly when
the engine is done; the split covers a range exactly; a request slot is in one
place; chains are well formed and always move on; a slice is cached once; a
read delivers what was written last; every NAND request meets its page in the state
it was made for; the RW command keeps its promise; the garbage collector loses no
data, keeps its reserve and its lists intact; the scheduler completes every request
once, in order, for what the die did; no bad block is in use; the controller is
enabled, disabled and shut down when the host asks for it; InnoDB loses no
change, and no block; every command is acknowledged.

## 2. Modules

| Module | Models | Used by |
|---|---|---|
| `AutoDma` | auto-DMA driver and (external) the DMA engine | `MCAutoDma`, `HostInterfaceProofs` |
| `SliceSplit` | `ReqTransNvmeToSlice`, operators only | `RequestPath`, `HostInterfaceProofs` |
| `HostInterfaceProofs` | theorems about `AutoDma`; the split is exact for every range and slice size | |
| `LowLevelReq` | request pool, queues, chains, row address dependency, completion table: operators on one record | `RequestPath`, `GcPath` |
| `RequestPath` | the life of a command: main loop, both buffers, eviction, fill, DMA and NAND queues, poll; (external) engine and dies | `MCRequestPath` |
| `RwCommand` | abstract: what the RW command promises its caller | refined by `RequestPath` |
| `FtlMap` | slice maps, block lists, allocation, garbage collector | `MCFtlMap`, `GcPath`, `FtlMapProofs` |
| `FtlMapProofs` | the lists, counts and maps are exact, no write is lost, only erased pages are programmed, the collector aborts only on a full die | |
| `GcPath` | composition: garbage collection (`FtlMap`) through the request layer (`LowLevelReq`) | `MCGcPath` |
| `NandSchedule` | the scheduler of a channel; (external) controller and dies | `MCNandSchedule`, `NandScheduleProofs` |
| `NandScheduleProofs` | safety of `NandSchedule` and its refinement of `NandQueue` | |
| `NandQueue` | abstract: one queue per way | refined by `NandSchedule` |
| `LinkedLists` | walks along the links of the firmware's lists, operators only | `NandSchedule`, `DataBufList`, `FtlMap` |
| `LinkedListProofs` | induction over numbers; what such a walk visits, for lists of any length | `NandScheduleProofs`, `DataBufListProofs`, `BadBlocksProofs`, `FtlMapProofs` |
| `DataBufList` | linked LRU and hash lists of a data buffer | `MCDataBufList`, `DataBufListProofs` |
| `DataBufListProofs` | the lists are exact and implement `LruBuffer` | |
| `LruBuffer` | abstract: a least-recently-used buffer | refined by `DataBufList` |
| `BadBlocks` | bad block table, remapping, grown bad blocks, power cuts | `MCBadBlocks`, `BadBlocksProofs` |
| `BadBlocksProofs` | no bad block is in use, the capacity is exact, nothing good is given up and nothing saved is forgotten | |
| `NvmeTask` | controller states, interrupt handler, queue set-up; (external) host and link | `MCNvmeTask`, `NvmeTaskProofs` |
| `NvmeTaskProofs` | safety of `NvmeTask` | |
| `InnodbRw` | InnoDB's buffer pool around the RW command; (external) the device | `MCInnodbRw`, `InnodbRwProofs` |
| `InnodbRwProofs` | the pool's structure, the write-ahead rule, and pages written under their own address only, for any number of threads | |
| `MC...` | workloads, scripts and symmetry for TLC | |

How they compose. `RequestPath` extends `LowLevelReq` and `SliceSplit`; it uses
the DMA driver through what `HostInterfaceProofs` proves of it, as a FIFO whose completion
test is exact (`pos` of a request is its place in that FIFO), the scheduler as
`NandQueue`, the buffers as `LruBuffer` and address translation without garbage
collection. `GcPath` adds the latter, with erases and the temporary buffer. The device
of `InnodbRw` is `RwCommand`, in the order `TxAfterRx` of `RequestPath` shows: it
writes first.

### How state and actions correspond to the code

**AutoDma.** `fifoTail`, `overFlowCnt` and `fifoHead` are the registers and
counters of `host_lld.c`; a request remembers `reqTail` and `overFlowCnt`.
`BeginIssue`/`SetAutoDma` are the loop of `IssueNvmeDmaReq` with one block per
step, so that the engine runs between the blocks of a request; `FifoFull` is the
wait loop. `issued`, `done`, `headWrap` are history. The 32-bit wrap counters
are natural numbers: they would wrap after 2^40 commands.

**LowLevelReq.** Each C function is an operator from the record `low` to the
next record and keeps the function's name; a handler composes them in the order of its
calls. Queues are sequences; `blockedByBufDepReqQ` is a set since requests leave
it by name only. The links `prev`, `next` and the `tail` of every entry are kept
as the code keeps them: that freed slots leave no links behind is a property, not
an assumption. `row` is the row address dependency table with its three fields.
Counters that are written and never read are left out.

**RequestPath.** `pc` is the place in the firmware thread:

| `pc` | code |
|---|---|
| `main` | main loop, `nvme_main.c` |
| `slice` | `ReqTransNvmeToSlice`, one slice per step |
| `translate` | `ReqTransSliceToLowLevel`: next slice, lookup in both buffers, allocation |
| `evict` | the entry was dirty: NAND write to a new page |
| `fill` | the new entry gets its address and, if needed, a NAND read |
| `transform` | the slice request becomes a DMA request |

The steps are cut at the calls of `GetFromFreeReqQ`, where the poll may run. The
address of the new entry is set together with the fill request although the code
sets it just before it waits for a slot; nothing reads it in between. `scan` is
the running poll (`CheckDoneNvmeDmaReq`, `CheckDoneCustomCmdDmaReq`,
`SchedulingNandReq`), one request or die per step, so that the hardware moves
between two tests of one poll. `rxDone`/`txDone` are latched as in the code.
`DmaExecute` and `NandExecute` are the hardware: they move data
(`content`, `flash`), where the data of a block is the command that wrote it.
`latest` and `expect` are history: who wrote a block last in translation order,
and what a read has to deliver.

**FtlMap.** One action, the eviction of a dirty slice: `AddrTransWrite`
with all it calls, garbage collection included. Every C function is an operator on
the record `m`. Lists are kept with their heads, tails and links. Pages hold the
last version of a slice (its address), an older one (`"stale"`) or nothing, in
the order NAND requests are issued.

**GcPath.** A host command (`HostCmd`) looks its slice up, allocates an entry and
evicts its old slice: `FtlMap` decides on pages, copies and erase at once, as
the code does, and leaves the list of NAND requests in `todo`. `Submit` hands
them to `LowLevelReq` one by one (`GetFromFreeReqQ`, blocking chain,
`SelectLowLevelReqQ`); a read that meets a blocked erase stays in `hand` while
`SyncReleaseEraseReq` polls. Polls run only where the code polls (`Polling`). A
request is executed and found completed in one step, as `NandQueue` allows. Data is
tracked twice: `flash` is the die, `m.flash` what it would hold if every request took
effect when it was made.

**NandSchedule.** One poll of `SchedulingNandReqPerCh` is a sequence of steps, a
way per step: `IdleWay`, `ReportWay`/`BusyWay`, `CheckWay` walk the first three lists,
`StartWay` starts at most one way of each of the other four, because
`nextWay` is read after the way has been put into another list. `EndList` moves
to the next list and reads `readyBusy` anew where the code does. `sched.die` holds
the state, the request status options, links and retry limits; `hw` the controller and
the dies, which write status words and completion flags into memory at any time, may
answer late, fail, or report ECC warnings and errors (`faults` counts them).

**DataBufList.** `CheckDataBufHit`, `AllocateDataBuf`,
`PutToDataBufHashList`, `SelectiveGetFromDataBufHashList` with all links;
`data_buffer_ccmd.c` repeats the same functions for the read buffer. `cur` is the
entry between its allocation and its new hash list.

**BadBlocks.** `phase` is the place in `InitAddressMap`/`RecoverBadBlockTable`
and in the shutdown; requests queued by one phase are executed die by die before the
next (`SyncAllLowLevelReqDone`). `PowerCut` may come at any step. `nand` holds table,
marks and the blocks whose data looks like a mark; `ram` the maps. `RemapLun` goes
through the blocks of a LUN and looks for a reserve for each bad one. Host writes and erases may fail
and book a grown bad block, which the shutdown saves. They may also fail while it does
(`InService`): requests still queued are executed with those of the table
(`address_translation.c:472`), after the table has been built; such a failure stays
booked for the next shutdown. `savedSinceRemake` is history: the grown bad blocks of the
saves that were completed since the user last had the table made anew ('X' at the start,
`address_translation.c:620`).

**NvmeTask.** `rest` is what is left of the main loop's branch, one
store per element; `dev_irq_handler` may run between any two. `Enable`,
`Shutdown`, `Disable`, `Reset` begin a branch; `Commands` are the admin and I/O
commands that matter for the state; `work` abstracts outstanding requests to what
decides whether `SyncAllLowLevelReqDone` ends. `host` and the link write the
registers and raise interrupts.

**InnodbRw.** A thread's `pc` names the section it runs next: `lookup`, `fix`,
`latch`, `latched` are `buf_page_get_gen`; `try` `buf_page_optimistic_get`; `free`
`buf_LRU_get_free_block`; `select` the choice of a victim in
`buf_flush_single_page_with_rw_cmd`; `rw`, `written`, `remove` the RW I/O, its
completion and `buf_LRU_block_remove_hashed_for_rw_cmd`; `init`, `read`, `complete`
`buf_page_init_for_read` and the end of the read; `flush`, `single`, `reuse` the
single-page flush. `IoThreads` and `PageCleaner` are the other actors. Every
action is a section under one mutex or hash lock, or one I/O call under none. Every
write is three steps: its start, which sets `io_fix`; `log_write_up_to` (`RwLog`,
`SingleLog`, `FlushLog`), which sets the block's `logged`; and the write of the page
(`RwIo`, `SingleEnd`, `FlushEnd`). Two simplifications: `buf_LRU_free_page` is one step,
although the code lets the pool's mutex go between taking the block out of hash and LRU list
and putting it on the free list, when nobody else can find the block; and `FlushStart`
asks for a page that nobody has latched exclusively, where a flush of the flush list sets
`io_fix` first and then waits for the latch.

## 3. Runs

| Run | Instance | Shows |
|---|---|---|
| `autodma` | FIFO of 4 indices, requests of 1-2 blocks, 10 commands: the indices wrap two and a half times | `PartialDoneExact`, `FifoNeverFull`, `EveryRequestFoundDone`, `TypeOK` |
| `mixed` | 3 of five writes and RW commands, of one or two slices or parts, then a read, a RW command or a flush; two entries in the normal buffer, one in the read buffer, 5 request slots | `SlotsExact` (types, pool partition, chains), `Coherent`, `TxDataCurrent`, `TxAfterRx`, `ProgramInOrder` though programs become unblocked out of order, refinement of `RwCommand` (`KeepsPromise`), `EveryCommandAcked` though the pool runs empty while entries are evicted and filled; `SplitExact` for all alignments and up to 16 blocks |
| `ftl` | one die, 4 blocks of 2 pages, 6 slices | `BlockMapExact` (types, lists, invalid counts, reserve), `NoDataLost`, `NoAssertFails` |
| `nand` | 3 ways, 2 requests of all kinds, 2 faults, 1 retry | `WaysListed`, `CommandsWellTimed`, `CompletedForReal`, `RetriesExact`, refinement of `NandQueue` with its liveness (`ImplementsQueues`) |
| `gc_path` | one die, 3 blocks of 2 pages, 8 slots, three lists of host commands | `RequestsMeetTheirPage`, `ReadsLastVersion`, `FlashMatchesMaps`, `RowTableExact`, `NothingStuck` |
| `bad_blocks` | one die, 2 LUNs of 2 user and 2 reserved blocks, up to 2 marked blocks and 2 that go bad in use | `InUseSound`, `CapacityExact`, `OnlyBadGivenUp`, `GrownStaysOut` |
| `nvme_task` | 6 events of host and link | `SessionsSound` (types, readiness, nothing outlives a reset), `ReadyIsServed`, `HostRequestsSucceed` (enable, disable, shutdown) |
| `innodb_rw` | 1 user thread beside page cleaner, I/O completion and read-ahead; 2 blocks, 3 pages, 2 changes | `PoolExact` (types, hash, lists, states, flags), `WriteAhead`, `PagesInPlace`, `LatchedPageCurrent`, `NoChangeLost`, `BlockFound` |
| `buffer_lists` | 4 entries, 5 slices on two hash lists | `LinksExact`, refinement of `LruBuffer` |
| `two_rw` | two outstanding RW commands | violated: `AckAfterTransfer` |
| `innodb_stale` | two user threads | violated: `PoolCurrent` |
| `innodb_assert` | two user threads | violated: `NoAssertFails` |

**Bounds.** One entry in the read buffer makes every miss there an eviction, and two
commands for the same entry block each other; two normal entries and two-slice commands are
the smallest instance in which two programs of one die become unblocked in the wrong
order. Five slots are fewer than three commands need with their evictions. `MaxPages`
exceeds the evictions the commands can cause, so it never blocks. In `ftl`, six slices
fill the three blocks outside the reserve to the last page, the tightest load a die
with four blocks can carry, so garbage collection runs with one spare block and
with victims of every kind; larger dies have only more slack. `nand` has a third way
so that a way leaves a list from its middle, and as many faults as use up the retries of
a request. The lists of `gc_path` are there because the case of interest is far from
the initial state: a block must be filled, collected, opened and filled again while its
erase waits for a read or a program, about ten commands. Two lists lead there on two
ways; the third collects a block with a valid page and then goes on with any two
commands. The last commands of every list are sent at any time, those before
when the die has nothing to do. In `bad_blocks` two marks and two failures are more than the
reserves of a LUN, and two failures are one before and one while the table is saved. Six events of `nvme_task` are two sessions, or resets past the
limit that leads to `pcie_async_reset`. Two blocks and three pages are the
smallest pool in which a miss needs a victim while another page stays; the third
page is not eligible for RW commands.

**Assumptions about the environment**, and what fails without them:

* `MaxRw = 1`: with two outstanding RW commands the acknowledgement is wrong
  (`two_rw`). RW commands of the runs read one slice or part of one, as InnoDB's do
  (finding 4).
* `WholeBlockRewrites = FALSE` in `ftl` and `gc_path` excludes exactly the step of
  finding 6. One die in `ftl`: finding 7.
* `host.lags` (chosen in `Init`; `SessionsSound` does not need it): the driver reacts
  to a register only after the branch of the main loop that wrote it has ended, and
  shuts down with no command outstanding. Without it an enable between the stores of
  RDY and IDLE (`nvme_main.c:155-156`, `:181-182`) is lost, a disable or shutdown
  before `status = RUNNING` (`:97-98`) is lost, and a custom DMA keeps
  `SyncAllLowLevelReqDone` in its loop (`request_schedule.c:111`). `host.steady`, for
  `DisableSucceeds`: a link failure within the enabling branch is overwritten too.
* `torn`: a die whose power fails between the erasure and the programming of its
  table. `InUseSound` and `CapacityExact` hold for it as well; `OnlyBadGivenUp` and
  `GrownStaysOut` exempt it, because the next start takes user data for marks.
* `savedSinceRemake`: `GrownStaysOut` is about failures that came before the shutdown
  built the table, and until a start at which the user answers 'X'. That answer erases the
  tables, and the scan that makes new ones knows marks only: the grown bad blocks are in
  use again (`address_translation.c:620-624`).
* One user thread in `innodb_rw`, beside the page cleaner and the I/O threads:
  `LatchedPageCurrent` and `NoChangeLost` are false with two (see finding 2), and the
  runs `innodb_stale` and `innodb_assert` have two. `PoolExact`, `WriteAhead` and
  `PagesInPlace` do not depend on it: they are proved for any number of threads.

**Fairness.** `RequestPath`: weak fairness of the firmware thread (a `while(1)`
without blocking waits), of the DMA engine per direction, and of every die:
hardware finishes what it has been handed. No fairness is assumed of any
single firmware step: the thread has one next step at a time, apart from the
choice of the host's next command. `AutoDma`: weak fairness of the engine, of the issue
of a block (the wait loop re-reads the head register) and of the poll. `GcPath`,
`NandSchedule`, `NvmeTask`: the firmware's loop goes on, the hardware ends what it was
told to do, the processor takes its interrupts; neither host nor link owes a
step. `InnodbRw`: threads go on and I/O ends; nobody owes the pool a flush or an
eviction. Hosts that send for ever are not excluded, the bounds end them in the
model; that new requests starve read transfers, which come last in the scheduler's
order, is therefore not excluded by `ImplementsQueues`.

**Deadlock** is checked where the system never stops: `mixed`, `ftl`,
`two_rw`, `bad_blocks`, `buffer_lists`. The others stop at the bound of their
requests, scripts or events, or where an assertion stops the server.

**Mutants.** Every property of a passing run is broken by a mutant in
`PROJECT.json`: a definition with a plausible mistake, marked as a mutant in
the modules.

## 4. Findings

With a run:

1. `two_rw`: `CheckDoneCustomCmdDmaReq` walks `customCmdQ` from its tail and latches
   `txDone`; with two outstanding RW commands the queue order is not the issue order,
   and a RW command is acknowledged before its page has been transferred.
2. `innodb_stale`: a page read by a RW command is put into the page hash although another
   thread has meanwhile read, changed, written and evicted it
   (`buf0lru.cc:1395`; the comment at `:2608` excludes this).
3. `innodb_assert`: `target_rw_cmd` is set under the block's mutex without the page hash
   lock (`buf0flu.cc:2248`); a thread that has tested it under the hash lock
   (`buf0buf.cc:2677`) fixes the block afterwards, and the assertion at `buf0lru.cc:2462`,
   `ut_a(bpage->buf_fix_count == 0)`, fails.

Without a run of their own; each is reproduced by the change given:

4. A RW command that reads two slices is acknowledged twice when the pool is empty
   between them (`custom_io_cmd_completion.c:121`): `AckedOnce` in
   `MCRequestPath.cfg` with `UnalignedRwWorkload`, five commands, one entry per buffer
   and three slots.
5. A comment (`buf0flu.cc:2218`) says that the read of a RW command is processed first;
   the firmware transfers the write pages first, as the repository's README describes:
   `ReadFirst` in `MCRequestPath.cfg`.
6. A victim that is the open block and has no valid slice is erased and stays open while
   it is in the free list (`garbage_collection.c:136`): `CurrentPageInBlock` in
   `MCFtlMap.cfg` with `WholeBlockRewrites = TRUE`.
7. Dies take turns whatever they hold; a die may be full of valid slices, and the
   collector aborts (`garbage_collection.c:185`) although the device is not full:
   `GcFindsVictim` in `MCFtlMap.cfg` with two dies of three blocks. The theorem
   `AbortsOnlyOnFullDie` says that nothing else makes it abort.
8. Saving the bad block table erases the mark of its block, which
   `address_translation.h:87` means to preserve: `BbtMarkPreserved` in
   `MCBadBlocks.cfg` with `MarksErasable = TRUE`.
9. The block of a RW command whose page a read-ahead has brought into the pool is in no
   list afterwards (`buf0buf.cc:3753`): `NoBlockLost` in `MCInnodbRw.cfg`.

Seen on the way, outside the models: `buf0buf.cc:2691` reads the flags of a block
that may be NULL; the RW command writes past the doublewrite buffer
(`buf0flu.cc:1176`); `grownBadUpdate` is never cleared; shutdown is reported complete
(`shst = 2`) before the bad block table is saved (`nvme_main.c:138`); an abrupt
shutdown (`SHN = 2`) is ignored by the interrupt handler, though the main loop
tests for any value but 0.

One hazard is decided by counting and not by a run: a program of page 0 passes the
dependency check while an older erase of its block waits, if all programs of the
block's last life are waiting too (`request_transform.c:552`). That takes about 2N+5
outstanding requests of one die with N pages per block; one die's share of the pool is
128 and N is 128, but with several dies counting alone does not exclude it.

## 5. Proofs

Each theorem holds for every value of the constants that the named assumptions of its
model allow. The runs of section 3 check the same formulas (`ProgramsErasedPages` was
checked with the `ftl` run's instance, `AbortsOnlyWhenFull` with two dies of three blocks
of two pages and five slices: 408 000 states, among them aborts), and checked the invariants
below, on their instances before they were proved.

| Theorem | States | For every |
|---|---|---|
| `HostInterfaceProofs!TypeIsOK`, `FifoIsNeverFull`, `PartialDoneIsExact` | `TypeOK`, `FifoNeverFull`, `PartialDoneExact` | FIFO size above one, request size |
| `HostInterfaceProofs!SplitIsAlwaysExact` | `SplitIsExact(startLba, nlb)` | start, length, blocks per slice |
| `NvmeTaskProofs!SessionsAreSound`, `ReadyIsAlwaysServed` | `SessionsSound`, `ReadyIsServed` | set of I/O queues, reset limit, number of events |
| `NandScheduleProofs!WaysAreListed`, `CommandsAreWellTimed`, `RequestsCompletedForReal`, `RetriesAreExact` | `WaysListed`, `CommandsWellTimed`, `CompletedForReal`, `RetriesExact` | number of ways, requests, retries and faults |
| `NandScheduleProofs!SchedulerImplementsQueues` | the steps of `NandQueue`: safety part of `ImplementsQueues` | the same |
| `DataBufListProofs!LinksAreExact`, `BufferIsImplemented` | `LinksExact`, `ImplementsLruBuffer` | number of entries, set of slices |
| `InnodbRwProofs!PoolIsExact`, `LogIsAhead`, `PagesStayInPlace` | `PoolExact`, `WriteAhead`, `PagesInPlace` | finite sets of threads and blocks, pages |
| `BadBlocksProofs!InUseSoundHolds`, `CapacityExactHolds`, `OnlyBadGivenUpHolds`, `GrownStaysOutHolds` | `InUseSound`, `CapacityExact`, `OnlyBadGivenUp`, `GrownStaysOut` | dies, user and reserved blocks of a LUN, failures and restarts, erasable marks or not |
| `FtlMapProofs!BlockMapIsExact`, `NoDataIsLost`, `ErasedPagesProgrammed` | `BlockMapExact`, `NoDataLost`, `ProgramsErasedPages` | dies, blocks and pages, set of slices; hosts that never rewrite a whole open block |
| `FtlMapProofs!AbortsOnlyOnFullDie` | `AbortsOnlyWhenFull` | the same, finitely many slices |

None of these is inductive alone; the invariants are the following.

**AutoDma.** `IInv == TypeOK /\ CountersExact /\ FifoNeverFull /\ RequestsExact`.
`CountersExact` says that the pair (wrap count, index) of the tail represents
the number of commands issued, and that of the head the number executed;
`RequestsExact` says the same of the pair a request remembers. The completion test then
compares three numbers written in base `FifoSize`: `PairOrder` says that such pairs are
ordered lexicographically, `SuccExact` that advancing the index advances the number by
one, and `FifoNeverFull` bounds the distance between head and tail below one turn, which
is why the index alone and the wrap count of the tail decide (`PartialDoneFromInvariant`).

**SliceSplit.** Not a state machine: the theorem is arithmetic. A block's slice is its
address divided by the slice size, so the request that carries it is named and shown
to be the only one; the first and the last slice may be partial, and may be the same.

**NvmeTask.** Interrupts fall between any two stores of a branch of the main loop, so
the invariant is about the stores still to come: they are the rest of one branch
(`Shape`), and whatever the branch has to undo is undone or still pending (`IInv`).
`ReadyInv` adds what the registers tell a driver who lags. The `host.lags` condition is
part of the property `ReadyIsServed` and explained in section 3; `SessionsSound` needs
none.

**NandSchedule.** `IInv` says that there is an assignment `L` of every way to a list and
positions that grow along its links (`LinksOK`); that request numbers are unique and
the hardware has heard of no request behind the head of a queue (`IdsOK`, `QueueOK`);
and, for the list a way is in, how far the head of its queue has come: in the
scheduler's tables, in the controller, in the die and in the words the hardware has
written (`WayOK`). `PollOK` says where a poll may be: it holds the way it read before the
lists changed (`nextWay`), and the controller is free whenever a command may be sent.
The retry count is part of it: retries left and failures of the head add up to
`RetryLimit` before an operation, and to one more after a failed one (`Before`,
`After`). `PutToFields` and `GetFromFields` say what the list operations change; every
action of the poll and of the hardware has a lemma of its own. `WaysAreListed` turns
positions into walks with `LinkedListProofs`. The refinement maps each step to the queue it shortens
or lengthens; in all other steps the queues stutter.

**LinkedLists.** A list is exact when every node but the first has a predecessor that links
to it and some number grows along the links (`LinkedIn`). `ChainEnumerates` then says that
the walk from the head visits every node once and ends: what it leaves out would have no
node with a least position (`LeastNat`), and a walk longer than the number of nodes would
visit one twice (pigeonhole). These are the inductions the proofs need, made once, by
least counterexample.

**DataBufList.** `IInv` says that such positions exist for the LRU list with all entries
(`LruOK`) and for the hash lists with the entries that hold a slice (`HashOK`), the one
between allocation and refill excepted. `MoveFields`, `GetFields`, `PutFields` state the
four cases of each list operation as one value per link; `MoveOK`, `GetOK`, `PutOK` show
that positions exist afterwards: the moved entry gets 0, the others one more; the appended
entry gets more than the last. For the refinement, `MovedChain` shows that the walk
after a move is the walk before it with one element at the front, `HashedAre` that the
entries on the hash lists are those that hold a slice, and each action maps to its
counterpart in `LruBuffer`.

**InnodbRw.** `IInv` ties a block to the thread that has it: what each place of a
thread says of its block (`ThreadOK`), that a block in hand for I/O is in one hand
only (`OwnersApart`), and that a fix count counts the threads inside (`FixExact`); the
last is why "unfixed" means that nobody is inside a page that is evicted or taken by a
RW command. `DInv` is about contents: a page on the disk is at its own address and its
changes are in the log (`DiskOK`); a block whose log has been forced has a write under way
and no change beyond the log, and a frame is the page its block stands for, except while it
is read or a RW command has just overwritten it (`FrameOK`); a thread that latched a page
exclusively has it without I/O, so no change comes between the log and the page it is to
protect (`LatchOK`). Both hold for any number of user threads. `LatchedPageCurrent` and
`NoChangeLost` do not (finding 2): they are checked with one thread, and no theorem
assumes that.

**BadBlocks.** `RemapLun` and `EraseAll` are recursive functions over the blocks of a
LUN: `StepsExist` shows that the function their equations define exists, and `UpTo`, of
`LinkedListProofs`, is induction over a set of numbers, again by least counterexample. `LunOK` says what the first
`i` steps of the remapping have done: every reserved block was handed out once at most
and in order, bad ones were skipped, and the pointer is at the end of the LUN if some
bad block got none. `RemapIs` and `RemapOK` say it of the whole map, `PhyIs` that a row
address leads back to the block the map names, `BadCount` that the capacity counts the
blocks left without a replacement. The invariant `Inv` has four parts per die and one about
the map: `QueueOK` (which requests are pending in each phase and what the page of the table
holds), `MarksOK` (a table, once there, has every mark), `BookedOK` (on a die that is not
booked for saving the table knows every bad block), on dies whose table was not torn by a
power cut `GivenUpOK` and `SavedOK`, and `MapOK` (the bad blocks the map was built from
are still bad, and the marked ones are among them).

**FtlMap.** One eviction runs through a dozen C functions, each of which leaves the maps in
a state that the next one repairs: a block is in no list while it is copied, a page is
programmed before its slice is in the map. `Good(s, out)` is the invariant of these states;
`out` holds the blocks that are in no list at the moment. `DieOK` says that positions
exist for the free list and every victim list (`Listing`), that a free block is erased,
that all others but the open one are full, and that a victim list holds the blocks with its
number of invalid pages; `PagesOK` and `MapOK` that the two slice maps are each other's
inverse on valid pages; `CountOK` that a block's count counts its invalid pages. `IInv` adds
to it that no block is out and every die has its reserved free block. Every C function has
a lemma that says what it changes (`...Is`) and one that it keeps `Good`
(`...Good`), and the theorem's steps call them in the order of the code. The copy loop of
the collector is a recursive function, shown to exist by `CopyingExists`; its loop invariant
`Copied` says that the pages passed hold nothing valid any more, and that either nothing was
copied, or the reserved block was opened and uses at most one page for each page passed, one
fewer as soon as an invalid page was passed. This is why the copies of a victim fit into one
block, and why the collector frees a page. `AbortsOnlyOnFullDie` is about the state in which
an assertion stops the firmware: the free list is down to the reserve and there is no victim,
so no block outside the reserve has an invalid page, and by pigeonhole (`DieIsFull`) there are
as many slices on the die as pages in these blocks; the abort leaves the slice map as
it was then (`AbortLeavesMap`).

The hypothesis `~WholeBlockRewrites` is not a convenience, it is finding 6: without it TLC
finds `BlockMapExact` violated. No theorem bounds the number of slices. That a die may be
full while the device is not is finding 7. `NoAssertFails` of the `ftl` run says
that it does not happen on a single die that holds as many slices as it is meant to.

**Assumptions.** `AutoDma`: the FIFO has more than one entry, a request at least one
block. `SliceSplit`: a slice has at least one block. `NandSchedule`: at least one way,
and `NoneAssumption`: the mark for "no way" and "no command" is neither. `DataBufList`: at
least one entry, slice addresses are natural numbers, and the mark for "none" is not a
number, as `DATA_BUF_NONE` is no index and `LSA_NONE` no address. `InnodbRw`:
threads and blocks are finite sets, and `NamesAssumption`: the marks for no block and no
page differ from the blocks, threads and pages. `BadBlocks`: a LUN has at least one user
block, and no fewer blocks than user blocks. `FtlMap`: at least one die, two blocks and one
page, the mark of an old version is no slice, and `NoneAssumption`: the marks for "none" are no block,
address, slice or name of an assertion.

**Only model-checked.** All liveness (`EveryRequestFoundDone`, `EveryCommandAcked`,
`NothingStuck`, `HostRequestsSucceed`, `BlockFound`, the liveness half of
`ImplementsQueues`): fairness and ENABLED are outside the prover's reach. `LowLevelReq`,
whose functions fold over sequences or select from them: what a fold
computes needs an induction over data that the prover cannot instantiate; they would
have to be recursive functions, as those of `BadBlocks` and `FtlMap` are. `RequestPath`
with its refinement of `RwCommand`, and `GcPath`, which are built on it.

## 6. Not modelled, and why

* Direct DMA, register layouts, hardware set-up, timers, identify and log pages: data
  and I/O, no state the data path reads.
* Raw reads with ECC off and SET_FEATURE in the scheduler: only the scan for marks and
  the start use them, when nothing else runs.
* Failures of the bad block table's own block, tables of more than one page (the table
  of a die fits in one).
* In `GcPath`: commands of several slices, parts of slices and RW commands, which are
  in `RequestPath`; several dies.
* InnoDB: compressed pages, dropped tablespaces, corrupt pages, the adaptive hash
  index, the doublewrite buffer, the order within the LRU list (any block may be
  the next victim), page (0,0). That a whole get ends is not claimed: others
  may take the page away each time.
* The rest of MySQL: upstream code.

## 7. Plan

Done: `AutoDma`; `SliceSplit`; `LowLevelReq`, `RequestPath`, `RwCommand`; `FtlMap`;
`NandSchedule`, `NandQueue`; erases in `LowLevelReq` and `GcPath`; `BadBlocks`;
`NvmeTask`; `InnodbRw`; `DataBufList`, `LruBuffer`. Proofs about `AutoDma`, `SliceSplit`,
`NvmeTask`, `NandSchedule` with the steps of `NandQueue`, `DataBufList` with its refinement
of `LruBuffer`, `InnodbRw` with any number of threads, `BadBlocks` and `FtlMap` with any
number of dies.

Theorems worth proving next, in this order: `TxAfterRx` and the acknowledgement of
`RequestPath`, once `LowLevelReq` is written with recursive functions; then that the flash
matches the maps in `GcPath`, from the theorems about `FtlMap`.
