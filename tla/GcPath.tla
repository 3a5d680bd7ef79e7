------------------------------- MODULE GcPath -------------------------------
(***************************************************************************)
(* The garbage collector at work while requests are outstanding: the maps  *)
(* of FtlMap, which change at once, and the requests of LowLevelReq, which *)
(* reach the die later and in another order.  One die.                     *)
(*                                                                         *)
(* A host command allocates a buffer entry and evicts its old slice.  The  *)
(* address translation, with the garbage collection it may need, decides   *)
(* on a list of NAND requests (FtlMap), and the firmware hands them to the *)
(* request queues one by one.  It polls the hardware only when the request *)
(* pool is empty (SyncAvailFreeReq), when a read meets a blocked erase     *)
(* (SyncReleaseEraseReq), or in the main loop.  That nothing a poll does   *)
(* touches the maps is why the list can be computed in one step.           *)
(*                                                                         *)
(* Data.  The last version of a slice is written as its address, an older  *)
(* one as "stale"; `flash' is the die, `m.flash' what the die would hold   *)
(* if every request took effect when it was made.                          *)
(*                                                                         *)
(* A request is executed and found completed in one step: that is what     *)
(* NandSchedule implements (NandQueue).  Which entry is the least recently *)
(* used one is left open, for hits reorder the entries.  Commands are one  *)
(* slice long; RequestPath has the longer ones, the parts of slices, and   *)
(* the RW command.                                                         *)
(***************************************************************************)
EXTENDS LowLevelReq

CONSTANTS NumBlocks, PagesPerBlock, Lsas,
          NormalBuf,  \* the data buffer of host writes
          RBuf,       \* the read buffer of data_buffer_ccmd.c
          Temp        \* the temporary entry of the die (AllocateTempDataBuf)

DataBuf == NormalBuf \cup RBuf

ASSUME GcAssumption ==
    /\ Dies = {0} /\ VBlocks = 0 .. NumBlocks - 1
    /\ Entries = DataBuf \cup {Temp} /\ Temp \notin DataBuf /\ NormalBuf \cap RBuf = {}

VARIABLES low,      \* see LowLevelReq
          m,        \* see FtlMap
          buf,      \* logicalSliceAddr and dirty of the entries
          todo,     \* the requests of the running command not yet queued
          hand,     \* the request in hand while SyncReleaseEraseReq polls
          content,  \* (external) the data in the entries
          flash,    \* (external) the data on the die
          written   \* history: the slices the host has written

vars == <<low, m, buf, todo, hand, content, flash, written>>

Ftl == INSTANCE FtlMap WITH NumDies <- 1, WholeBlockRewrites <- FALSE, targetDie <- 0

Init ==
    /\ low = InitLow
    /\ m = Ftl!OpenBlock(Ftl!EmptyMaps, 0, "normal")
    /\ buf = [e \in DataBuf |-> [lsa |-> None, dirty |-> FALSE]]
    /\ todo = << >>
    /\ hand = None
    /\ content = [e \in Entries |-> None]
    /\ flash = m.flash
    /\ written = {}

(***************************************************************************)
(* Host commands.                                                          *)
(***************************************************************************)

\* History: slice l gets a new version.
Old(data, l) == IF data = l THEN "stale" ELSE data

\* The requests of a translation, with the buffer entry they use.  The copies of
\* the garbage collector go through the temporary entry; the program of the
\* evicted slice comes last, with the slot EvictDataBufEntry took before.
WithEntries(reqs, e, slot) ==
    [i \in DOMAIN reqs |->
        [slot |-> IF i = Len(reqs) THEN slot ELSE None,
         req |-> [BlankReq EXCEPT
             !.type = "nand", !.code = reqs[i].code, !.vsa = reqs[i].vsa,
             !.cnt = reqs[i].cnt, !.expect = reqs[i].data,
             !.entry = IF i = Len(reqs) THEN e
                       ELSE IF reqs[i].code = "ERASE" THEN None ELSE Temp]]]

Hits(l) == {e \in DataBuf : buf[e].lsa = l}

\* A hit, or the entry a miss allocates: reads and writes have their own buffer.
EntriesFor(l, missBuf) == IF Hits(l) # {} THEN Hits(l) ELSE missBuf

\* The request for the transfer with the host.
DmaReq(code, l, e) ==
    [BlankReq EXCEPT !.type = "dma", !.entry = e,
                     !.code = IF code = "READ" THEN "TxDMA" ELSE "RxDMA",
                     !.expect = IF code = "WRITE" \/ l \in written THEN l ELSE None]

\* DataReadFromNand, CcmdDataReadFromNand: the page is looked up after the
\* eviction.
Fill(s, e, l) ==
    IF s.map[l] = None THEN << >>
    ELSE <<[slot |-> None,
            req |-> [BlankReq EXCEPT !.type = "nand", !.code = "READ", !.vsa = s.map[l],
                                     !.entry = e, !.expect = s.flash[s.map[l]]]]>>

\* A command takes a slot for its slice request and one for the eviction.
SlotsFor(evicts) == IF evicts THEN 2 ELSE 1

Taken(evicts) ==
    [low EXCEPT !.free = SubSeq(@, SlotsFor(evicts) + 1, Len(@))]

EvictSlot(evicts) == IF evicts THEN low.free[2] ELSE None

\* The maps after the eviction of entry e: EvictDataBufEntry and
\* EvictCcmdDataBufEntry save a dirty entry on a new page (see FtlMap for what
\* the host is not to do).
Evicted(e, evicts) ==
    IF evicts THEN Ftl!AddrTransWrite(m, 0, buf[e].lsa, buf[e].lsa) ELSE m

\* A command reads or writes slice l with entry e (ReqTransSliceToLowLevel).
HostCmd(code, l, e) ==
    /\ todo = << >> /\ hand = None
    /\ e \in EntriesFor(l, IF code = "READ" THEN RBuf ELSE NormalBuf)
    /\ LET miss   == Hits(l) = {}
           evicts == miss /\ buf[e].dirty
           Seen(r) == IF code = "READ" THEN r ELSE [r EXCEPT !.expect = Old(@, l)]
       IN  /\ evicts => ~Ftl!RewritesOpenBlock(buf[e].lsa)
           /\ Len(low.free) >= SlotsFor(evicts)
           /\ \E s \in {Evicted(e, evicts)} :
                LET nand == WithEntries(s.reqs, e, EvictSlot(evicts))
                            \o (IF miss /\ code = "READ" THEN Fill(s, e, l) ELSE << >>)
                IN  /\ s.failed = None
                    /\ m' = IF code = "READ" THEN [s EXCEPT !.reqs = << >>]
                            ELSE [Ftl!Outdated(s, l) EXCEPT !.reqs = << >>]
                    /\ todo' = [i \in DOMAIN nand |-> [nand[i] EXCEPT !.req = Seen(@)]]
                               \o <<[slot |-> low.free[1], req |-> DmaReq(code, l, e)]>>
           /\ low' = [Taken(evicts) EXCEPT !.req = [t \in Slots |-> Seen(@[t])]]
           /\ buf' = [buf EXCEPT ![e] = [lsa |-> l, dirty |-> code = "WRITE" \/ (~miss /\ @.dirty)]]
    /\ IF code = "READ"
       THEN UNCHANGED <<content, flash, written>>
       ELSE /\ content' = [d \in Entries |-> Old(content[d], l)]
            /\ flash' = [v \in DOMAIN flash |-> Old(flash[v], l)]
            /\ written' = written \cup {l}
    /\ UNCHANGED hand

(***************************************************************************)
(* The requests reach their queues.                                        *)
(***************************************************************************)

\* UpdateDataBufEntryInfoBlockingReq, UpdateTempDataBufEntryInfoBlockingReq.
Linked(l, s) ==
    IF l.req[s].entry = None THEN l ELSE UpdateBlockingReq(l, l.req[s].entry, s)

NeedsSlot == todo # << >> /\ Head(todo).slot = None

\* GetFromFreeReqQ where the slot is not taken yet, and SelectLowLevelReqQ as far
\* as it gets without SyncReleaseEraseReq.
Submit ==
    /\ todo # << >> /\ hand = None
    /\ NeedsSlot => low.free # << >>
    /\ LET t      == Head(todo)
           s      == IF t.slot = None THEN Head(low.free) ELSE t.slot
           filled == IF t.slot = None THEN GetFromFreeReqQ(low, t.req)
                                      ELSE [low EXCEPT !.req[s] = t.req]
           linked == Linked(filled, s)
       IN  IF NeedsSync(linked, s)
           THEN low' = linked /\ hand' = s
           ELSE low' = SelectLowLevelReqQ(linked, s) /\ hand' = None
    /\ todo' = Tail(todo)
    /\ UNCHANGED <<m, buf, content, flash, written>>

\* SyncReleaseEraseReq ends, and SelectLowLevelReqQ goes on.
SyncReleaseEraseReq ==
    /\ hand # None /\ ~NeedsSync(low, hand)
    /\ low' = SelectLowLevelReqQ(low, hand)
    /\ hand' = None
    /\ UNCHANGED <<m, buf, todo, content, flash, written>>

(***************************************************************************)
(* The polls, and what they find the hardware to have done.                *)
(***************************************************************************)

Polling ==
    \/ todo = << >>
    \/ hand # None
    \/ NeedsSlot /\ low.free = << >>

\* The engine has executed the oldest command of a direction.
Transferred(dir) ==
    [low EXCEPT !.fifo[dir] = Tail(@),
                !.req = [s \in Slots |-> IF @[s].pos > 0 /\ Dir(@[s]) = dir
                                         THEN [@[s] EXCEPT !.pos = @ - 1] ELSE @[s]]]

\* CheckDoneNvmeDmaReq finds the oldest transfer of a direction done.
CheckDoneNvmeDmaReq(dir) ==
    /\ Polling
    /\ \E s \in ToSet(low.nvmeDma) :
          /\ Dir(low.req[s]) = dir /\ low.req[s].pos = 1
          /\ content' = IF dir = "Rx"
                        THEN [content EXCEPT ![low.req[s].entry] = low.req[s].expect]
                        ELSE content
          /\ low' = SelectiveGetFromNvmeDmaReqQ(Transferred(dir), s)
    /\ UNCHANGED <<m, buf, todo, hand, flash, written>>

Execute(r) ==
    CASE r.code = "READ" ->
            content' = [content EXCEPT ![r.entry] = flash[r.vsa]] /\ UNCHANGED flash
      [] r.code = "WRITE" ->
            flash' = [flash EXCEPT ![r.vsa] = content[r.entry]] /\ UNCHANGED content
      [] r.code = "ERASE" ->
            /\ flash' = [v \in DOMAIN flash |->
                            IF v[2] = r.vsa[2] THEN None ELSE flash[v]]
            /\ UNCHANGED content

\* SchedulingNandReq: the oldest request of the die is done.  When its queue runs
\* empty, and while it is empty, the blocked requests are looked at.
SchedulingNandReq ==
    /\ Polling
    /\ IF low.nand[0] # << >>
       THEN /\ Execute(low.req[Head(low.nand[0])])
            /\ LET done == GetFromNandReqQ(low, 0)
               IN  low' = IF done.nand[0] = << >> THEN ReleaseBlockedByRowAddrDepReq(done, 0)
                                                  ELSE done
       ELSE /\ low.rowDep[0] # << >>
            /\ low' = ReleaseBlockedByRowAddrDepReq(low, 0)
            /\ UNCHANGED <<content, flash>>
    /\ UNCHANGED <<m, buf, todo, hand, written>>

Host == \E code \in {"READ", "WRITE"}, l \in Lsas, e \in DataBuf : HostCmd(code, l, e)

Next ==
    \/ Host
    \/ Submit \/ SyncReleaseEraseReq
    \/ \E dir \in Dirs : CheckDoneNvmeDmaReq(dir)
    \/ SchedulingNandReq

Spec == Init /\ [][Next]_vars

\* The firmware goes on with the command it has and polls the hardware, which
\* finishes what it was given.
Fairness ==
    /\ WF_vars(Submit) /\ WF_vars(SyncReleaseEraseReq) /\ WF_vars(SchedulingNandReq)
    /\ \A dir \in Dirs : WF_vars(CheckDoneNvmeDmaReq(dir))

(***************************************************************************)
(* Properties.                                                             *)
(***************************************************************************)

Outstanding == Slots \ ToSet(low.free)

\* Every request of the die finds the page it was made for, whatever the order
\* in which the buffer entries and the row address dependency let the requests
\* through.  A program meets an erased page, all lower pages of its block being
\* programmed, and puts there what the eviction or the copy was to save.  A read
\* gets the data that were at its address when it was made: neither the program
\* of its page is still to come, nor has the block been erased since.
RequestsMeetTheirPage ==
    low.nand[0] # << >> =>
        LET r == low.req[Head(low.nand[0])]
        IN  CASE r.code = "WRITE" ->
                    /\ content[r.entry] = r.expect
                    /\ \A v \in DOMAIN flash :
                          v[2] = r.vsa[2] => (flash[v] # None <=> v[3] < r.vsa[3])
              [] r.code = "READ"  -> flash[r.vsa] = r.expect
              [] r.code = "ERASE" -> TRUE

\* A read command delivers the last version of its slice at the time the command
\* was fetched, also when the slice was evicted, collected and copied meanwhile.
\* (A slice the host never wrote reads as whatever its buffer entry holds.)
ReadsLastVersion ==
    \A s \in ToSet(low.nvmeDma) :
        low.req[s].code = "TxDMA" /\ low.req[s].expect # None =>
            content[low.req[s].entry] = low.req[s].expect

\* When no request is left the die holds what the maps say.
FlashMatchesMaps == todo = << >> /\ Outstanding = {} => flash = m.flash

Blocked(b, code) ==
    {s \in low.bufDep \cup ToSet(low.rowDep[0]) :
        low.req[s].code = code /\ BlockOf(low.req[s]) = <<0, b>>}

\* The row address table is exact: a count of blocked reads that is too low lets
\* an erase overtake a read, one that is too high blocks the erase, and with it
\* the firmware in SyncReleaseEraseReq, for good.
RowTableExact ==
    \A b \in VBlocks :
        /\ low.row[<<0, b>>].reads = Cardinality(Blocked(b, "READ"))
        /\ low.row[<<0, b>>].erase <=> Blocked(b, "ERASE") # {}

\* The firmware gets through every command: neither SyncReleaseEraseReq, which
\* waits for an erase while it holds the request in hand, nor SyncAvailFreeReq,
\* which waits for a slot in the middle of a garbage collection, waits for ever.
CommandsGetThrough == todo # << >> \/ hand # None ~> todo = << >> /\ hand = None

\* When the host sends no more, all requests are completed and all slots return
\* to the pool: no request is left behind in a blocked queue.
RequestsDrain == <>[](todo = << >> /\ hand = None) => []<>(Outstanding = {})

\* Neither the firmware nor a request waits for ever.
NothingStuck == CommandsGetThrough /\ RequestsDrain
=====================
