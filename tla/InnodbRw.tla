------------------------------- MODULE InnodbRw -------------------------------
(***************************************************************************)
(* The host's side of the RW command: the buffer pool of InnoDB as built   *)
(* with RW_CMD (buf0buf.cc, buf0rea.cc, buf0lru.cc, buf0flu.cc, and the    *)
(* calls down to the ioctl in fil0fil.cc and os0file.cc).  A thread that   *)
(* misses a page and finds no free block picks a dirty victim and sends    *)
(* one RW command: the victim's frame is written out and the missing page  *)
(* is read into that same frame, which then becomes the page's block       *)
(* without going through the free list.                                    *)
(*                                                                         *)
(* Each action is a section that the code runs under buf_pool->mutex, the  *)
(* block's mutex or a lock of the page hash, or one I/O call made under    *)
(* none of them.  The page hash's locks are one per page: a thread between *)
(* the lookup and the buffer-fix holds the page's lock in S mode, and the  *)
(* sections that take it in X mode wait (HashLockFree).  Of the latch on a *)
(* frame, the S held by a write and the X held by a read are told by       *)
(* io_fix, the others by the threads.  A write is two calls, one that      *)
(* forces the redo log and one that sends the page; blk[b].logged says     *)
(* that the write under way has made the first.  Only uncompressed pages;  *)
(* no tablespace is dropped; a page is never corrupt on the device.        *)
(***************************************************************************)
EXTENDS Naturals, FiniteSets

CONSTANTS Threads,      \* user threads
          Blocks,       \* control blocks of the pool, each with its frame
          Pages,        \* pages of the tablespaces
          RwPages,      \* those whose space id is at least log_fd
          MaxMods,      \* bound on the number of modifications
          MaxRetries,   \* BUF_PAGE_READ_MAX_RETRIES
          ReadAhead,    \* may a thread read ahead asynchronously?
          Restores      \* may a thread come back to a block it used before?

NoPage == "no page"       \* a frame wiped when its block was freed
ZeroPage == "page 0:0"    \* what a caller without a page of its own asks for
NoBlock == "no block"

ASSUME ConstantsAssumption ==
    /\ IsFiniteSet(Threads) /\ IsFiniteSet(Blocks)
    /\ RwPages \subseteq Pages
    /\ MaxMods \in Nat /\ MaxRetries \in Nat
    /\ ReadAhead \in BOOLEAN /\ Restores \in BOOLEAN
ASSUME NamesAssumption ==
    /\ NoBlock \notin Blocks \cup Threads
    /\ NoPage \notin Pages /\ ZeroPage \notin Pages

VARIABLES blk,    \* the control blocks and their frames
          hash,   \* page -> its block in buf_pool->page_hash, or NoBlock
          free,   \* buf_pool->free
          lru,    \* buf_pool->LRU: the recent accesses may give it any order
          disk,   \* page -> the frame last written to it
          log,    \* the lsn up to which the redo log is on disk
          last,   \* page -> lsn of its last modification
          th,     \* the threads
          fail    \* the assertion that ended the server, or "no"

vars == <<blk, hash, free, lru, disk, log, last, th, fail>>

Frames == [page : Pages \cup {ZeroPage, NoPage}, lsn : 0..MaxMods]

\* Where a thread is; each is followed by the section it runs next.
Places == {"idle", "lookup", "fix", "latch", "latched", "try",
           "free", "select", "rw", "written", "remove", "init", "read",
           "complete", "flush", "single", "reuse"}

Min0(S) == CHOOSE m \in S : \A n \in S : m <= n
Max0(S) == CHOOSE m \in S : \A n \in S : m >= n

lsn == Max0({last[p] : p \in Pages})

-----------------------------------------------------------------------------
Flagged(b) == blk[b].target \/ blk[b].use

LatchedX(b) == \E t \in Threads :
    th[t].pc = "latched" /\ th[t].blk = b /\ th[t].latch = "X"
Latched(b) == \E t \in Threads : th[t].pc = "latched" /\ th[t].blk = b

HashLockFree(p) == \A t \in Threads : ~(th[t].pc = "fix" /\ th[t].page = p)

\* The thread that runs I/O of its own on block b, if there is one.
InHand(b) == \E t \in Threads :
    th[t].blk = b /\ th[t].pc \in {"rw", "written", "remove", "read",
                                   "complete", "single"}

Goto(t, pc) == th' = [th EXCEPT ![t].pc = pc]

Init ==
    /\ blk = [b \in Blocks |->
                [state |-> "NOT_USED", page |-> NoPage,
                 frame |-> [page |-> NoPage, lsn |-> 0], io |-> "NONE",
                 fix |-> 0, dirty |-> FALSE, logged |-> FALSE,
                 target |-> FALSE, use |-> FALSE]]
    /\ hash = [p \in Pages |-> NoBlock]
    /\ free = Blocks
    /\ lru = {}
    /\ disk = [p \in Pages |-> [page |-> p, lsn |-> 0]]
    /\ log = 0
    /\ last = [p \in Pages |-> 0]
    /\ th = [t \in Threads |->
               [pc |-> "idle", page |-> NoPage, sync |-> TRUE, blk |-> NoBlock,
                latch |-> "S", scan |-> FALSE, retries |-> 0,
                saved |-> NoBlock, same |-> FALSE]]
    /\ fail = "no"

-----------------------------------------------------------------------------
(* buf_page_get_gen.                                                       *)

\* A thread asks for page p; synchronously, or ahead of its need.
Ask(t) == \E p \in Pages, s \in {TRUE} \cup IF ReadAhead THEN {FALSE} ELSE {} :
    /\ th[t].pc = "idle"
    /\ th' = [th EXCEPT ![t].pc = IF s THEN "lookup" ELSE "free",
                        ![t].page = p, ![t].sync = s,
                        ![t].scan = FALSE, ![t].retries = 0]
    /\ UNCHANGED <<blk, hash, free, lru, disk, log, last, fail>>

\* The lookup under the hash lock.  A block that an RW command uses is
\* treated as absent: the thread sleeps and goes to read the page.
Lookup(t) ==
    LET b == hash[th[t].page] IN
    /\ th[t].pc = "lookup"
    /\ th' = IF b # NoBlock /\ ~Flagged(b)
             THEN [th EXCEPT ![t].pc = "fix", ![t].blk = b]
             ELSE [th EXCEPT ![t].pc = "free", ![t].scan = FALSE]
    /\ UNCHANGED <<blk, hash, free, lru, disk, log, last, fail>>

buf_block_fix(t) ==
    /\ th[t].pc = "fix"
    /\ blk' = [blk EXCEPT ![th[t].blk].fix = @ + 1]
    /\ Goto(t, "latch")
    /\ UNCHANGED <<hash, free, lru, disk, log, last, fail>>

MayLatch(b, latch) ==
    IF latch = "S" THEN blk[b].io # "READ" /\ ~LatchedX(b)
                   ELSE blk[b].io = "NONE" /\ ~Latched(b)

Latch(t) == \E latch \in {"S", "X"} :
    /\ th[t].pc = "latch"
    /\ MayLatch(th[t].blk, latch)
    /\ th' = [th EXCEPT ![t].pc = "latched", ![t].latch = latch]
    /\ UNCHANGED <<blk, hash, free, lru, disk, log, last, fail>>

\* The mini-transaction ends: an X latch may have served to modify the page.
\* The thread remembers the block and its modify_clock.
Release(t) == \E mod \in BOOLEAN :
    LET b == th[t].blk  n == lsn + 1 IN
    /\ th[t].pc = "latched"
    /\ mod => th[t].latch = "X" /\ n <= MaxMods
    /\ blk' = IF mod THEN [blk EXCEPT ![b].fix = @ - 1, ![b].dirty = TRUE,
                                      ![b].frame.lsn = n]
                     ELSE [blk EXCEPT ![b].fix = @ - 1]
    /\ last' = IF mod THEN [last EXCEPT ![th[t].page] = n] ELSE last
    /\ th' = [th EXCEPT ![t].pc = "idle", ![t].blk = NoBlock,
                        ![t].saved = IF Restores THEN b ELSE NoBlock,
                        ![t].same = Restores]
    /\ UNCHANGED <<hash, free, lru, disk, log, fail>>

\* buf_page_optimistic_get: back to the block of the last use, by pointer.
OptimisticFix(t) ==
    LET b == th[t].saved IN
    /\ th[t].pc = "idle" /\ b # NoBlock
    /\ blk[b].state = "FILE_PAGE"
    /\ blk' = [blk EXCEPT ![b].fix = @ + 1]
    /\ th' = [th EXCEPT ![t].pc = "try", ![t].blk = b]
    /\ UNCHANGED <<hash, free, lru, disk, log, last, fail>>

OptimisticLatch(t) == \E latch \in {"S", "X"} :
    LET b == th[t].blk IN
    /\ th[t].pc = "try"
    /\ IF MayLatch(b, latch) /\ th[t].same
       THEN /\ th' = [th EXCEPT ![t].pc = "latched", ![t].latch = latch,
                                ![t].page = blk[b].page]
            /\ UNCHANGED blk
       ELSE /\ th' = [th EXCEPT ![t].pc = "idle", ![t].blk = NoBlock,
                                ![t].saved = NoBlock, ![t].same = FALSE]
            /\ blk' = [blk EXCEPT ![b].fix = @ - 1]
    /\ UNCHANGED <<hash, free, lru, disk, log, last, fail>>

-----------------------------------------------------------------------------
(* buf_LRU_get_free_block.                                                 *)

\* Mutant: a page with changes may be replaced.
ReadyForReplaceDirty(b) ==
    b \in lru /\ blk[b].fix = 0 /\ ~Flagged(b) /\ blk[b].io = "NONE"

buf_flush_ready_for_replace(b) ==
    /\ b \in lru /\ ~blk[b].dirty /\ blk[b].fix = 0
    /\ ~Flagged(b) /\ blk[b].io = "NONE"

buf_flush_ready_for_flush(b) ==
    /\ b \in lru /\ ~Flagged(b)
    /\ blk[b].dirty /\ blk[b].io = "NONE"

\* modify_clock of b moves: a saved pointer to it is recognised as stale.
Forget(b, t, pc) ==
    th' = [u \in Threads |->
             [th[u] EXCEPT !.pc = IF u = t THEN pc ELSE @,
                           !.scan = @ \/ (u = t /\ th[u].pc = "reuse"),
                           !.same = @ /\ th[u].saved # b]]

\* A block back on the free list: its page number and space id are wiped.
\* use_rw_cmd keeps its value.
Freed(b) == [blk[b] EXCEPT !.state = "NOT_USED", !.page = NoPage,
                           !.frame = [page |-> NoPage, lsn |-> 0]]

\* Mutant: the block does not reach the free list.
FreePageLost(b, t, pc) ==
    /\ buf_flush_ready_for_replace(b)
    /\ HashLockFree(blk[b].page)
    /\ blk' = [blk EXCEPT ![b] = Freed(b)]
    /\ hash' = [hash EXCEPT ![blk[b].page] = NoBlock]
    /\ lru' = lru \ {b}
    /\ Forget(b, t, pc)
    /\ UNCHANGED <<free, disk, log, last, fail>>

\* buf_LRU_free_page of b, by the page cleaner (t = NoBlock) or by thread t.
\* The code lets buf_pool->mutex go between the hash and the free list; the
\* block is in neither meanwhile, and nobody but this thread can use it.
buf_LRU_free_page(b, t, pc) ==
    /\ buf_flush_ready_for_replace(b)
    /\ HashLockFree(blk[b].page)
    /\ blk' = [blk EXCEPT ![b] = Freed(b)]
    /\ hash' = [hash EXCEPT ![blk[b].page] = NoBlock]
    /\ free' = free \cup {b}
    /\ lru' = lru \ {b}
    /\ Forget(b, t, pc)
    /\ UNCHANGED <<disk, log, last, fail>>

buf_LRU_get_free_only(t) == \E b \in free :
    /\ th[t].pc = "free"
    /\ free' = free \ {b}
    /\ blk' = [blk EXCEPT ![b].state = "READY_FOR_USE"]
    /\ th' = [th EXCEPT ![t].pc = "init", ![t].blk = b]
    /\ UNCHANGED <<hash, lru, disk, log, last, fail>>

\* The first pass skips the scan when try_LRU_scan is off.
buf_LRU_scan_and_free_block(t) ==
    /\ th[t].pc = "free" /\ free = {}
    /\ \E b \in Blocks : buf_LRU_free_page(b, t, "free")

NoFreeBlock(t) ==
    /\ th[t].pc = "free" /\ free = {}
    /\ th[t].scan => ~\E b \in Blocks : buf_flush_ready_for_replace(b)
    /\ Goto(t, "select")
    /\ UNCHANGED <<blk, hash, free, lru, disk, log, last, fail>>

Victims == {b \in Blocks : buf_flush_ready_for_flush(b) /\ blk[b].fix = 0
                           /\ blk[b].page \in RwPages}

\* buf_flush_single_page_with_rw_cmd, up to where it lets the mutexes go.
SelectVictim(t) ==
    /\ th[t].pc = "select"
    /\ IF Victims = {}
       THEN Goto(t, "flush") /\ UNCHANGED blk
       ELSE \E b \in Victims :
              /\ blk' = [blk EXCEPT ![b].target = TRUE, ![b].io = "WRITE"]
              /\ th' = [th EXCEPT ![t].pc = "rw", ![t].blk = b]
    /\ UNCHANGED <<hash, free, lru, disk, log, last, fail>>

Written(b) == [disk EXCEPT ![blk[b].page] = blk[b].frame]

LogWritten(b) == Max0({log, blk[b].frame.lsn})

\* log_write_up_to(newest_modification) of the write that is under way on b.
LogForced(b) ==
    /\ blk[b].io = "WRITE" /\ ~blk[b].logged
    /\ log' = LogWritten(b)
    /\ blk' = [blk EXCEPT ![b].logged = TRUE]
    /\ UNCHANGED <<hash, free, lru, disk, last, th, fail>>

RwLog(t) == th[t].pc = "rw" /\ LogForced(th[t].blk)

\* What the RW command brings: the page asked for, or page 0 of space 0.
PageRead(t, d) == IF th[t].sync THEN d[th[t].page]
                                ELSE [page |-> ZeroPage, lsn |-> 0]

\* Mutant: the command is sent before the log is forced.
RwIoBeforeLog(t) ==
    LET b == th[t].blk IN
    /\ th[t].pc = "rw"
    /\ disk' = Written(b)
    /\ blk' = [blk EXCEPT ![b].frame = PageRead(t, disk')]
    /\ Goto(t, "written")
    /\ UNCHANGED <<hash, free, lru, log, last, fail>>

\* Mutant: only the read half of the command takes effect.
RwIoReadOnly(t) ==
    LET b == th[t].blk IN
    /\ th[t].pc = "rw" /\ blk[b].logged
    /\ blk' = [blk EXCEPT ![b].frame = PageRead(t, disk)]
    /\ Goto(t, "written")
    /\ UNCHANGED <<hash, free, lru, disk, log, last, fail>>

\* Mutant: the page asked for arrives before the victim is sent.
RwIoReadFirst(t) ==
    LET b == th[t].blk IN
    /\ th[t].pc = "rw" /\ blk[b].logged
    /\ disk' = [disk EXCEPT ![blk[b].page] = PageRead(t, disk)]
    /\ blk' = [blk EXCEPT ![b].frame = PageRead(t, disk)]
    /\ Goto(t, "written")
    /\ UNCHANGED <<hash, free, lru, log, last, fail>>

\* The RW command: the frame is written to the victim's page and then takes
\* the page asked for.
RwIo(t) ==
    LET b == th[t].blk IN
    /\ th[t].pc = "rw" /\ blk[b].logged
    /\ disk' = Written(b)
    /\ blk' = [blk EXCEPT ![b].frame = PageRead(t, disk')]
    /\ Goto(t, "written")
    /\ UNCHANGED <<hash, free, lru, log, last, fail>>

\* buf_page_io_complete of the write.
WriteCompleted(b) == [blk EXCEPT ![b].io = "NONE", ![b].dirty = FALSE,
                                 ![b].logged = FALSE]

RwComplete(t) ==
    /\ th[t].pc = "written"
    /\ blk' = WriteCompleted(th[t].blk)
    /\ Goto(t, "remove")
    /\ UNCHANGED <<hash, free, lru, disk, log, last, fail>>

\* The assertions of buf_LRU_block_remove_hashed_for_rw_cmd, in its order.
RemoveAsserts(b) ==
    IF blk[b].io # "NONE" THEN "io_fix"
    ELSE IF blk[b].fix # 0 THEN "buf_fix_count"
    ELSE IF blk[b].dirty THEN "oldest_modification"
    ELSE "no"

\* Mutant: the block keeps the state of a file page.
TakenKeepState(b) == [blk[b] EXCEPT !.target = FALSE, !.use = TRUE,
                                    !.page = NoPage]

Taken(b) == [blk[b] EXCEPT !.target = FALSE, !.use = TRUE,
                           !.state = "READY_FOR_USE", !.page = NoPage]

buf_LRU_block_remove_hashed_for_rw_cmd(t) ==
    LET b == th[t].blk IN
    /\ th[t].pc = "remove"
    /\ HashLockFree(blk[b].page)
    /\ fail' = RemoveAsserts(b)
    /\ IF RemoveAsserts(b) # "no"
       THEN UNCHANGED <<blk, hash, lru, th>>
       ELSE /\ blk' = [blk EXCEPT ![b] = Taken(b)]
            /\ hash' = [hash EXCEPT ![blk[b].page] = NoBlock]
            /\ lru' = lru \ {b}
            /\ Forget(b, t, "init")
    /\ UNCHANGED <<free, disk, log, last>>

\* buf_flush_single_page_from_LRU: with no victim for RW, write one page,
\* and when it is written free one that can be replaced.
SingleTargets == {b \in Blocks : buf_flush_ready_for_flush(b) /\ blk[b].fix = 0}

SingleStart(t) == \E b \in SingleTargets :
    /\ th[t].pc = "flush"
    /\ blk' = [blk EXCEPT ![b].io = "WRITE"]
    /\ th' = [th EXCEPT ![t].pc = "single", ![t].blk = b]
    /\ UNCHANGED <<hash, free, lru, disk, log, last, fail>>

ScanAgain(t) == th' = [th EXCEPT ![t].pc = "free", ![t].scan = TRUE]

SingleNone(t) ==
    /\ th[t].pc = "flush" /\ SingleTargets = {}
    /\ ScanAgain(t)
    /\ UNCHANGED <<blk, hash, free, lru, disk, log, last, fail>>

SingleLog(t) == th[t].pc = "single" /\ LogForced(th[t].blk)

SingleEnd(t) ==
    LET b == th[t].blk IN
    /\ th[t].pc = "single" /\ blk[b].logged
    /\ disk' = Written(b)
    /\ blk' = WriteCompleted(b)
    /\ th' = [th EXCEPT ![t].pc = "reuse", ![t].blk = NoBlock]
    /\ UNCHANGED <<hash, free, lru, log, last, fail>>

SingleFree(t) ==
    /\ th[t].pc = "reuse"
    /\ IF \E b \in Blocks : buf_flush_ready_for_replace(b)
       THEN \E b \in Blocks : buf_LRU_free_page(b, t, "free")
       ELSE /\ ScanAgain(t)
            /\ UNCHANGED <<blk, hash, free, lru, disk, log, last, fail>>

-----------------------------------------------------------------------------
(* The rest of buf_page_init_for_read, and buf_read_page_low.              *)

\* buf_page_init, or buf_page_init_with_rw_cmd when the frame already holds
\* the page: only the second leaves use_rw_cmd on.
Inited(b, p) ==
    [blk[b] EXCEPT !.state = "FILE_PAGE", !.page = p, !.io = "READ",
                   !.fix = 0, !.dirty = FALSE, !.target = FALSE,
                   !.use = @ /\ blk[b].frame.page = p]

\* Is the block given back when the page turns out to be in the pool?
GivenBack(b) == ~blk[b].use /\ ~blk[b].target

InitForRead(t) ==
    LET b == th[t].blk  p == th[t].page IN
    /\ th[t].pc = "init"
    /\ hash[p] = NoBlock
    /\ blk' = [blk EXCEPT ![b] = Inited(b, p)]
    /\ hash' = [hash EXCEPT ![p] = b]
    /\ lru' = lru \cup {b}
    /\ th' = IF th[t].sync THEN [th EXCEPT ![t].pc = "read"]
             ELSE [th EXCEPT ![t].pc = "idle", ![t].blk = NoBlock]
    /\ UNCHANGED <<free, disk, log, last, fail>>

AlreadyInPool(t) ==
    LET b == th[t].blk  p == th[t].page IN
    /\ th[t].pc = "init"
    /\ hash[p] # NoBlock
    /\ HashLockFree(p)
    /\ IF GivenBack(b)
       THEN free' = free \cup {b} /\ blk' = [blk EXCEPT ![b] = Freed(b)]
       ELSE UNCHANGED <<free, blk>>
    /\ fail' = IF th[t].sync /\ th[t].retries = MaxRetries THEN "retries"
               ELSE "no"
    /\ th' = [th EXCEPT ![t].blk = NoBlock,
                        ![t].pc = IF th[t].sync THEN "lookup" ELSE "idle",
                        ![t].retries = Min0({@ + 1, MaxRetries})]
    /\ UNCHANGED <<hash, lru, disk, log, last>>

\* fil_io, unless the RW command has brought the page already.
ReadIn(t) ==
    LET b == th[t].blk IN
    /\ th[t].pc = "read"
    /\ blk' = [blk EXCEPT ![b].use = FALSE,
                 ![b].frame = IF blk[b].use THEN @ ELSE disk[th[t].page]]
    /\ Goto(t, "complete")
    /\ UNCHANGED <<hash, free, lru, disk, log, last, fail>>

ReadComplete(t) ==
    /\ th[t].pc = "complete"
    /\ blk' = [blk EXCEPT ![th[t].blk].io = "NONE"]
    /\ th' = [th EXCEPT ![t].pc = "lookup", ![t].blk = NoBlock,
                        ![t].retries = 0]
    /\ UNCHANGED <<hash, free, lru, disk, log, last, fail>>

-----------------------------------------------------------------------------
(* The I/O threads and the page cleaner.                                   *)

AsyncReadDone(b) ==
    /\ blk[b].io = "READ" /\ ~InHand(b) /\ ~blk[b].use
    /\ blk' = [blk EXCEPT ![b].io = "NONE", ![b].frame = disk[blk[b].page]]
    /\ UNCHANGED <<hash, free, lru, disk, log, last, th, fail>>

\* buf_flush_page from a batch: fixed pages too, when the latch is free.  A
\* checkpoint batch sets io_fix already while it waits for the latch; the
\* page that is latched is fixed, so it is neither a victim nor replaceable
\* in either order.
FlushStart(b) ==
    /\ buf_flush_ready_for_flush(b)
    /\ ~LatchedX(b)
    /\ blk' = [blk EXCEPT ![b].io = "WRITE"]
    /\ UNCHANGED <<hash, free, lru, disk, log, last, th, fail>>

FlushLog(b) == ~InHand(b) /\ LogForced(b)

FlushEnd(b) ==
    /\ blk[b].io = "WRITE" /\ ~InHand(b) /\ blk[b].logged
    /\ disk' = Written(b)
    /\ blk' = WriteCompleted(b)
    /\ UNCHANGED <<hash, free, lru, log, last, th, fail>>

Evict(b) == buf_LRU_free_page(b, NoBlock, "idle")

-----------------------------------------------------------------------------
Acquire(t) ==
    \/ Ask(t) \/ Lookup(t) \/ buf_block_fix(t) \/ Latch(t)
    \/ OptimisticFix(t) \/ OptimisticLatch(t)

GetFreeBlock(t) ==
    \/ buf_LRU_get_free_only(t) \/ buf_LRU_scan_and_free_block(t)
    \/ NoFreeBlock(t) \/ SelectVictim(t) \/ RwLog(t) \/ RwIo(t) \/ RwComplete(t)
    \/ buf_LRU_block_remove_hashed_for_rw_cmd(t)
    \/ SingleStart(t) \/ SingleNone(t) \/ SingleLog(t) \/ SingleEnd(t)
    \/ SingleFree(t)

ReadPage(t) ==
    InitForRead(t) \/ AlreadyInPool(t) \/ ReadIn(t) \/ ReadComplete(t)

IoThreads(b) == AsyncReadDone(b) \/ FlushLog(b) \/ FlushEnd(b)
PageCleaner(b) == FlushStart(b) \/ Evict(b)

\* An assertion that fails ends the server.
Next ==
    /\ fail = "no"
    /\ \/ \E t \in Threads :
            Acquire(t) \/ Release(t) \/ GetFreeBlock(t) \/ ReadPage(t)
       \/ \E b \in Blocks : IoThreads(b) \/ PageCleaner(b)

Spec == Init /\ [][Next]_vars

Thread(t) == GetFreeBlock(t) \/ ReadPage(t) \/ Release(t)

\* Threads and I/O go on; nobody owes the pool a flush, an eviction or a
\* request.
FairSpec ==
    /\ Spec
    /\ \A t \in Threads : WF_vars(fail = "no" /\ Thread(t))
    /\ \A b \in Blocks : WF_vars(fail = "no" /\ IoThreads(b))

-----------------------------------------------------------------------------
(* The state of the pool is well formed.                                   *)
TypeOK ==
    /\ blk \in [Blocks ->
         [state : {"NOT_USED", "READY_FOR_USE", "FILE_PAGE"},
          page : Pages \cup {NoPage}, frame : Frames,
          io : {"NONE", "READ", "WRITE"}, fix : 0..Cardinality(Threads),
          dirty : BOOLEAN, logged : BOOLEAN,
          target : BOOLEAN, use : BOOLEAN]]
    /\ hash \in [Pages -> Blocks \cup {NoBlock}]
    /\ free \subseteq Blocks /\ lru \subseteq Blocks
    /\ disk \in [Pages -> Frames]
    /\ log \in 0..MaxMods
    /\ last \in [Pages -> 0..MaxMods]
    /\ th \in [Threads ->
         [pc : Places, page : Pages \cup {NoPage}, sync : BOOLEAN,
          blk : Blocks \cup {NoBlock}, latch : {"S", "X"}, scan : BOOLEAN,
          retries : 0..MaxRetries, saved : Blocks \cup {NoBlock},
          same : BOOLEAN]]
    /\ fail \in {"no", "io_fix", "buf_fix_count", "oldest_modification",
                 "retries"}

(* Taking a block out of the hash and the LRU list by hand, beside the     *)
(* ordinary eviction, leaves the two and the states of the blocks in       *)
(* agreement, and a block taken for one page is never free, hashed or      *)
(* taken by another thread at the same time.                               *)
HashExact ==
    /\ \A b \in Blocks : /\ b \in free => blk[b].state = "NOT_USED"
                         /\ b \in lru <=> blk[b].state = "FILE_PAGE"
    /\ \A b \in Blocks, p \in Pages :
         hash[p] = b <=> blk[b].state = "FILE_PAGE" /\ blk[b].page = p
    /\ \A t, u \in Threads : t # u /\ th[t].blk # NoBlock
            /\ th[t].pc \in {"rw", "written", "remove", "init"}
         => th[t].blk # th[u].blk \/ th[u].pc \notin {"rw", "written",
               "remove", "init", "read", "complete", "single"}

(* A page in the pool that is flagged for an RW command, which every other *)
(* thread treats as absent and which no flush or eviction touches, is in   *)
(* the hands of the thread that will clear the flag.                       *)
FlagsEnd == \A b \in lru :
    /\ blk[b].target => \E t \in Threads :
         th[t].blk = b /\ th[t].pc \in {"rw", "written", "remove"}
    /\ blk[b].use => \E t \in Threads : th[t].blk = b /\ th[t].pc = "read"

(* The buffer pool's own structures stay in agreement around a RW command: *)
(* page hash, LRU list, states and the flags of the command.               *)
PoolExact == TypeOK /\ HashExact /\ FlagsEnd

(* No page reaches the disk before the redo log of its changes.  The RW    *)
(* path forces the log itself, the others do it in                         *)
(* buf_flush_write_block_low, under no mutex: besides the order of the two *)
(* calls it takes that nobody modifies the page between them, so that the  *)
(* latch keeps writers out of a victim that a thread fixes too late to be  *)
(* seen by the choice of the victim.                                       *)
WriteAhead == \A p \in Pages : disk[p].lsn <= log

(* The place of a page on the disk never takes the contents of another     *)
(* page.  From the RW command until the block leaves the page hash the     *)
(* frame of the victim holds the page asked for, and after that the block  *)
(* keeps the frame through buf_page_init_with_rw_cmd: no write may start   *)
(* from it under the old page, no read may be skipped under the new one    *)
(* unless the frame is its, although threads that had the victim fixed     *)
(* may even modify the frame meanwhile.                                    *)
PagesInPlace == \A p \in Pages : disk[p].page = p

(* A thread that holds a latch on a page looks at that page, as it was     *)
(* last modified.                                                          *)
LatchedPageCurrent == \A t \in Threads :
    th[t].pc = "latched" =>
        blk[th[t].blk].frame = [page |-> th[t].page, lsn |-> last[th[t].page]]

(* The last change of every page is on the disk or in a dirty frame of the *)
(* pool: a victim is not reused before it is written.                      *)
NoChangeLost == \A p \in Pages :
    LET b == hash[p]  f == [page |-> p, lsn |-> last[p]] IN
    disk[p] = f \/ (b # NoBlock /\ blk[b].dirty /\ blk[b].frame = f)

(* The comment in buf_LRU_block_remove_hashed_for_rw_cmd: "Not possible"   *)
(* that another thread, "not finding it in buffer pool", reads the page    *)
(* from the disk before it is written.  A page of the pool that no RW      *)
(* command is using is as it was last modified.                            *)
PoolCurrent == \A p \in Pages :
    LET b == hash[p] IN
    b # NoBlock /\ blk[b].io # "READ" /\ ~Flagged(b)
        => blk[b].frame = [page |-> p, lsn |-> last[p]]

(* The comment on buf_page_init_for_read: when the page is already in the  *)
(* pool "this function does nothing".  Every block is free, in the LRU     *)
(* list or in the hands of a thread that will use it.                      *)
NoBlockLost == \A b \in Blocks :
    b \in free \cup lru \/ \E t \in Threads : th[t].pc = "init" /\ th[t].blk = b

(* The assertions on the way of an RW command hold:                        *)
(* buf_LRU_block_remove_hashed_for_rw_cmd finds the victim unfixed,        *)
(* unmodified and without I/O, and reads do not run out of retries.        *)
NoAssertFails == fail = "no"

(* A thread that needs a block gets one, from the free list, by a scan, by *)
(* an RW command or after a single page flush.                             *)
BlockFound == \A t \in Threads : th[t].pc = "free" ~> th[t].pc = "init"
=============================================================================
