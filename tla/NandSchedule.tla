---------------------------- MODULE NandSchedule ----------------------------
(***************************************************************************)
(* The NAND scheduler (request_schedule.c) on one channel, with the        *)
(* controller and the dies that run beside it.                             *)
(*                                                                         *)
(* SchedulingNandReqPerCh reads the hardware in the middle of its work:    *)
(* one poll is a sequence of steps that walk the way lists, and the        *)
(* hardware may move between any two of them.                              *)
(*                                                                         *)
(*   sched   queue   nandReqQ of every way                                 *)
(*           die     dieStateTable and retryLimitTable; prev and next link *)
(*                   the way into the list it is in                        *)
(*           list    wayPriorityTable                                      *)
(*           marked  blocks booked with UpdatePhyBlockMapForGrownBadBlock: *)
(*                   every request has a block of its own here, and the    *)
(*                   request stands for it                                 *)
(*   poll    the local variables of SchedulingNandReqPerCh: the list it    *)
(*           walks, wayNo, readyBusy, waitWayCnt; test: a command was sent *)
(*           and V2FIsControllerBusy is to be asked                        *)
(*   hw      (external) the command the controller works on, the busy      *)
(*           dies, the words they write: statusReport, completeFlag with   *)
(*           the ECC error info; last: what a die last did, and fails how  *)
(*           often it failed at the same request                           *)
(*   sent    number of requests so far                                     *)
(*   faults  number of failures, warnings and unready answers so far       *)
(***************************************************************************)
EXTENDS Integers, Sequences, FiniteSets, LinkedLists

CONSTANTS NumWays,      \* USER_WAYS
          RetryLimit,   \* RETRY_LIMIT
          None,         \* WAY_NONE
          Kinds,        \* what each request may be: code and nandEccWarning
          MaxReqs,      \* bound on the requests
          MaxFaults     \* bound on the bad answers of the hardware

ASSUME WaysAssumption == NumWays \in Nat \ {0} /\ RetryLimit \in Nat
ASSUME KindsAssumption ==
    /\ MaxReqs \in Nat /\ MaxFaults \in Nat
    /\ Kinds \in [1 .. MaxReqs ->
                   SUBSET [code : {"READ", "WRITE", "ERASE", "RESET"}, warning : BOOLEAN]]

VARIABLES sched, poll, hw, sent, faults

vars == <<sched, poll, hw, sent, faults>>

Ways  == 0 .. NumWays - 1
Lists == {"idle", "statusReport", "statusCheck", "readTrigger", "erase", "write",
          "readTransfer"}

\* What the controller can be told to do.
Commands == [way : Ways, id : Nat,
             op : {"trigger", "transfer", "program", "erase", "status"}]

ASSUME NoneAssumption == None \notin Nat /\ None \notin Commands

Reqs  == UNION {[id : {i}, kind : Kinds[i]] : i \in 1 .. MaxReqs}

\* A request as it is queued.  A read becomes a READ_TRANSFER on its way.
NewReq(id, kind) == [id |-> id, kind |-> kind, code |-> kind.code]

(***************************************************************************)
(* The way lists: one pair of functions per list in the firmware.          *)
(***************************************************************************)

PutTo(s, l, w) ==
    LET tail == s.list[l].tail
    IN  [s EXCEPT
          !.die = [v \in Ways |->
              IF v = w THEN [@[v] EXCEPT !.prev = tail, !.next = None]
              ELSE IF v = tail THEN [@[v] EXCEPT !.next = w]
              ELSE @[v]],
          !.list[l] = [head |-> IF tail = None THEN w ELSE @.head, tail |-> w]]

\* MUTANT of GetFrom: the tail of the list is not moved.
GetFromKeepTail(s, l, w) ==
    LET p == s.die[w].prev
        n == s.die[w].next
    IN  [s EXCEPT
          !.die = [v \in Ways |->
              IF v = p THEN [@[v] EXCEPT !.next = n]
              ELSE IF v = n THEN [@[v] EXCEPT !.prev = p]
              ELSE @[v]],
          !.list[l].head = IF p = None THEN n ELSE @]

\* The links of w itself are left as they are.
GetFrom(s, l, w) ==
    LET p == s.die[w].prev
        n == s.die[w].next
    IN  [s EXCEPT
          !.die = [v \in Ways |->
              IF v = p THEN [@[v] EXCEPT !.next = n]
              ELSE IF v = n THEN [@[v] EXCEPT !.prev = p]
              ELSE @[v]],
          !.list[l] = [head |-> IF p = None THEN n ELSE @.head,
                       tail |-> IF n = None THEN p ELSE @.tail]]

PutToNandIdleList(s, w)         == PutTo(s, "idle", w)
PutToNandStatusReportList(s, w) == PutTo(s, "statusReport", w)
PutToNandReadTriggerList(s, w)  == PutTo(s, "readTrigger", w)
PutToNandWriteList(s, w)        == PutTo(s, "write", w)
PutToNandReadTransferList(s, w) == PutTo(s, "readTransfer", w)
PutToNandEraseList(s, w)        == PutTo(s, "erase", w)
PutToNandStatusCheckList(s, w)  == PutTo(s, "statusCheck", w)

SelectivGetFromNandIdleList(s, w)          == GetFrom(s, "idle", w)
SelectivGetFromNandStatusReportList(s, w)  == GetFrom(s, "statusReport", w)
SelectiveGetFromNandReadTriggerList(s, w)  == GetFrom(s, "readTrigger", w)
SelectiveGetFromNandWriteList(s, w)        == GetFrom(s, "write", w)
SelectiveGetFromNandReadTransferList(s, w) == GetFrom(s, "readTransfer", w)
SelectiveGetFromNandEraseList(s, w)        == GetFrom(s, "erase", w)
SelectiveGetFromNandStatusCheckList(s, w)  == GetFrom(s, "statusCheck", w)

\* The list of the request the way is to start next.
PutToNandWayPriorityTable(s, w) ==
    CASE Head(s.queue[w]).code = "READ"          -> PutToNandReadTriggerList(s, w)
      [] Head(s.queue[w]).code = "READ_TRANSFER" -> PutToNandReadTransferList(s, w)
      [] Head(s.queue[w]).code = "ERASE"         -> PutToNandEraseList(s, w)
      [] OTHER                                   -> PutToNandWriteList(s, w)

(***************************************************************************)
(* The controller's driver (nsc_driver.c) and the status of a request.     *)
(***************************************************************************)

\* A command for way w on behalf of request r.
Command(h, w, op, r) == [h EXCEPT !.chan = [way |-> w, op |-> op, id |-> r.id]]

V2FReadPageTransferAsync(h, w, r) == Command([h EXCEPT !.flag[w] = "0"], w, "transfer", r)

V2FStatusCheckAsync(h, w, r) == Command([h EXCEPT !.report[w] = "0"], w, "status", r)

\* V2FResetSync waits for the controller; the die goes on resetting.
V2FResetSync(h, w, r) ==
    [h EXCEPT !.busy = @ \cup {w}, !.array[w] = [op |-> "reset", id |-> r.id]]

\* IssueNandReq: the command of the head of the queue and how to wait for it.
IssueNandReq(s, h, w) ==
    LET r == Head(s.queue[w])
    IN  CASE r.code = "READ" ->
                [s |-> [s EXCEPT !.die[w].opt = "CHECK"],
                 h |-> Command(h, w, "trigger", r)]
          [] r.code = "READ_TRANSFER" ->
                [s |-> [s EXCEPT !.die[w].opt = "COMPLETION_FLAG"],
                 h |-> V2FReadPageTransferAsync(h, w, r)]
          [] r.code = "WRITE" ->
                [s |-> [s EXCEPT !.die[w].opt = "CHECK"],
                 h |-> Command(h, w, "program", r)]
          [] r.code = "ERASE" ->
                [s |-> [s EXCEPT !.die[w].opt = "CHECK"],
                 h |-> Command(h, w, "erase", r)]
          [] r.code = "RESET" ->
                [s |-> [s EXCEPT !.die[w].opt = "NONE"],
                 h |-> V2FResetSync(h, w, r)]

\* CheckEccErrorInfo on the words of a finished transfer.
CheckEccErrorInfo(flag, r) ==
    CASE flag = "fail"                        -> "FAIL"
      [] flag = "warning" /\ r.kind.warning   -> "WARNING"
      [] OTHER                                -> "DONE"

\* CheckReqStatus: the status, and what asking for it changes.
CheckReqStatus(s, h, w) ==
    LET r      == Head(s.queue[w])
        Is(st) == [status |-> st, s |-> s, h |-> h]
    IN  CASE s.die[w].opt = "COMPLETION_FLAG" ->
                IF h.flag[w] = "0" THEN Is("RUNNING") ELSE Is(CheckEccErrorInfo(h.flag[w], r))
          [] s.die[w].opt = "CHECK" ->
                [status |-> "RUNNING", s |-> [s EXCEPT !.die[w].opt = "REPORT"],
                 h |-> V2FStatusCheckAsync(h, w, r)]
          [] s.die[w].opt = "REPORT" ->
                (CASE h.report[w] = "0"    -> Is("RUNNING")
                   [] h.report[w] = "fail" -> Is("FAIL")
                   [] h.report[w] = "pass" ->
                        [Is("DONE") EXCEPT !.s.die[w].opt = "NONE"]
                   [] h.report[w] = "busy" ->
                        [Is("RUNNING") EXCEPT !.s.die[w].opt = "CHECK"])
          [] s.die[w].opt = "NONE" ->
                IF w \notin h.busy THEN Is("DONE") ELSE Is("RUNNING")

(***************************************************************************)
(* ExecuteNandReq.                                                         *)
(***************************************************************************)

\* MUTANT of Finish: the retries of this request are taken from the next one.
FinishKeepRetry(s, w) ==
    [s EXCEPT !.queue[w] = Tail(@), !.die[w].state = "IDLE"]

\* A request leaves its queue, whatever came of it.
Finish(s, w) ==
    [s EXCEPT !.queue[w] = Tail(@), !.die[w].retry = RetryLimit, !.die[w].state = "IDLE"]

\* MUTANT of Mark: the failure is only reported on the console.
MarkNothing(s, w) == s

\* UpdatePhyBlockMapForGrownBadBlock.
Mark(s, w) ==
    LET r == Head(s.queue[w]) IN [s EXCEPT !.marked = @ \cup {[id |-> r.id, kind |-> r.kind]}]

IsRead(r) == r.code \in {"READ", "READ_TRANSFER"}

\* ExecuteNandReq on a die in state EXE.
Conclude(s, w, status) ==
    LET r == Head(s.queue[w])
    IN  CASE status = "DONE" /\ r.code = "READ" ->
                [s EXCEPT !.queue[w][1].code = "READ_TRANSFER", !.die[w].state = "IDLE"]
          [] status = "DONE" /\ r.code # "READ" ->
                Finish(s, w)
          [] status = "FAIL" /\ IsRead(r) /\ s.die[w].retry > 0 ->
                [s EXCEPT !.queue[w][1].code = "READ", !.die[w].retry = @ - 1,
                          !.die[w].state = "IDLE"]
          [] status = "FAIL" /\ ~(IsRead(r) /\ s.die[w].retry > 0) ->
                Finish(Mark(s, w), w)
          [] status = "WARNING" ->
                Finish(Mark(s, w), w)
          [] status = "RUNNING" -> s

ExecuteNandReq(s, h, w, status) ==
    IF s.die[w].state = "IDLE"
    THEN LET issued == IssueNandReq(s, h, w)
         IN  [issued EXCEPT !.s.die[w].state = "EXE"]
    ELSE [s |-> Conclude(s, w, status), h |-> h]

(***************************************************************************)
(* One poll of the channel: SchedulingNandReqPerCh.                        *)
(***************************************************************************)

NoOp == [op |-> "none", id |-> 0]

Out == [stage |-> "out", cur |-> None, ready |-> {}, wait |-> 0, test |-> FALSE]

Init ==
    /\ sched = [queue |-> [w \in Ways |-> << >>],
                die |-> [w \in Ways |->
                    [state |-> "IDLE", opt |-> "NONE", retry |-> RetryLimit,
                     prev |-> IF w = 0 THEN None ELSE w - 1,
                     next |-> IF w = NumWays - 1 THEN None ELSE w + 1]],
                list |-> [l \in Lists |->
                    IF l = "idle" THEN [head |-> 0, tail |-> NumWays - 1]
                                  ELSE [head |-> None, tail |-> None]],
                marked |-> {}]
    /\ poll = Out
    /\ hw = [chan |-> None, busy |-> {},
             array |-> [w \in Ways |-> NoOp],
             report |-> [w \in Ways |-> "0"], flag |-> [w \in Ways |-> "0"],
             last |-> [w \in Ways |-> [op |-> "none", id |-> 0, res |-> "pass"]],
             fails |-> [w \in Ways |-> 0]]
    /\ sent = 0
    /\ faults = 0

\* The requests the layers above may add to a queue, one at a time.
Arrivals == IF sent < MaxReqs THEN {<<NewReq(sent + 1, k)>> : k \in Kinds[sent + 1]} ELSE {}

\* PutToNandReqQ, between two polls or for a request that a completion released.
PutToNandReqQ(w) ==
    /\ poll.stage \in {"out", "statusReport"}
    /\ \E more \in Arrivals : sched' = [sched EXCEPT !.queue[w] = @ \o more]
    /\ sent' = sent + 1
    /\ UNCHANGED <<poll, hw, faults>>

\* ReleaseBlockedByRowAddrDepReq, called when the queue of the way is empty: it
\* may find a request, or not (what it finds is in LowLevelReq).
ReleaseBlockedByRowAddrDepReq(s, w, more) == [s EXCEPT !.queue[w] = @ \o more]

Released(s, w) == IF s.queue[w] = << >> THEN {<< >>} \cup Arrivals ELSE {<< >>}

\* The main loop polls while requests are not completed.
StartPoll ==
    /\ poll.stage = "out"
    /\ \E w \in Ways : sched.queue[w] # << >>
    /\ poll' = [Out EXCEPT !.stage = "idle", !.cur = sched.list["idle"].head]
    /\ UNCHANGED <<sched, hw, sent, faults>>

\* An idle way, with or without something to do.
IdleWay ==
    LET w == poll.cur
    IN  /\ poll.stage = "idle" /\ w # None
        /\ \E more \in Released(sched, w) :
             LET s == ReleaseBlockedByRowAddrDepReq(sched, w, more)
             IN  /\ sent' = sent + Len(more)
                 /\ IF s.queue[w] # << >>
                    THEN /\ sched' = PutToNandWayPriorityTable(
                                         SelectivGetFromNandIdleList(s, w), w)
                         /\ poll' = [poll EXCEPT !.cur = s.die[w].next]
                    ELSE /\ sched' = s
                         /\ poll' = [poll EXCEPT !.cur = s.die[w].next, !.wait = @ + 1]
        /\ UNCHANGED <<hw, faults>>

\* A way without an answer yet stays; one whose status was not ready is checked
\* again.
ReportUnready(s, w) ==
    IF s.die[w].opt = "CHECK"
    THEN /\ sched' = PutToNandStatusCheckList(SelectivGetFromNandStatusReportList(s, w), w)
         /\ poll' = [poll EXCEPT !.cur = s.die[w].next]
    ELSE /\ sched' = s
         /\ poll' = [poll EXCEPT !.cur = s.die[w].next, !.wait = @ + 1]

\* A way of the status report list.
ReportWay ==
    LET w       == poll.cur
        checked == CheckReqStatus(sched, hw, w)
    IN  /\ poll.stage = "statusReport" /\ w # None /\ w \in poll.ready
        /\ hw' = checked.h
        /\ IF checked.status = "RUNNING"
           THEN ReportUnready(checked.s, w) /\ sent' = sent
           ELSE LET s == SelectivGetFromNandStatusReportList(
                             ExecuteNandReq(checked.s, checked.h, w, checked.status).s, w)
                IN  \E more \in Released(s, w) :
                      LET r == ReleaseBlockedByRowAddrDepReq(s, w, more)
                      IN  /\ sent' = sent + Len(more)
                          /\ IF r.queue[w] # << >>
                             THEN /\ sched' = PutToNandWayPriorityTable(r, w)
                                  /\ poll' = [poll EXCEPT !.cur = s.die[w].next]
                             ELSE /\ sched' = PutToNandIdleList(r, w)
                                  /\ poll' = [poll EXCEPT !.cur = s.die[w].next,
                                                          !.wait = @ + 1]
        /\ UNCHANGED faults

\* A way of either status list whose die is busy.
BusyWay ==
    /\ poll.stage \in {"statusReport", "statusCheck"} /\ ~poll.test
    /\ poll.cur # None /\ poll.cur \notin poll.ready
    /\ poll' = [poll EXCEPT !.cur = sched.die[poll.cur].next,
                            !.wait = IF poll.stage = "statusReport" THEN @ + 1 ELSE @]
    /\ UNCHANGED <<sched, hw, sent, faults>>

\* A way of the status check list: the answer is looked for in a later poll.
CheckWay ==
    LET w       == poll.cur
        checked == CheckReqStatus(sched, hw, w)
    IN  /\ poll.stage = "statusCheck" /\ ~poll.test /\ w # None /\ w \in poll.ready
        /\ hw' = checked.h
        /\ sched' = PutToNandStatusReportList(
                        SelectiveGetFromNandStatusCheckList(checked.s, w), w)
        /\ poll' = [poll EXCEPT !.test = TRUE]
        /\ UNCHANGED <<sent, faults>>

\* The lists after the status check hand the head of the queue to the die.
StartWay ==
    LET w    == poll.cur
        exec == ExecuteNandReq(sched, hw, w, "RUNNING")
        s    == exec.s
    IN  /\ poll.stage \in {"readTrigger", "erase", "write", "readTransfer"}
        /\ ~poll.test /\ w # None
        /\ hw' = exec.h
        /\ sched' =
             CASE poll.stage = "readTrigger" ->
                    PutToNandStatusCheckList(SelectiveGetFromNandReadTriggerList(s, w), w)
               [] poll.stage = "erase" ->
                    PutToNandStatusCheckList(SelectiveGetFromNandEraseList(s, w), w)
               [] poll.stage = "write" ->
                    PutToNandStatusCheckList(SelectiveGetFromNandWriteList(s, w), w)
               [] poll.stage = "readTransfer" ->
                    PutToNandStatusReportList(SelectiveGetFromNandReadTransferList(s, w), w)
        /\ poll' = [poll EXCEPT !.test = TRUE]
        /\ UNCHANGED <<sent, faults>>

\* The poll ends when the controller is busy.  The way has been moved: the next
\* one is that of its new list.
TestBusy ==
    /\ poll.test
    /\ poll' = IF hw.chan # None THEN Out
               ELSE [poll EXCEPT !.test = FALSE, !.cur = sched.die[poll.cur].next]
    /\ UNCHANGED <<sched, hw, sent, faults>>

\* MUTANT of MayStart: the commands are sent whether the controller is busy or not.
MayStartAlways == poll.wait # NumWays

\* MUTANT of MayStart: one waiting way keeps the others from starting.
MayStartNoneWaits == poll.wait = 0 /\ hw.chan = None

\* What is behind the status report list is only for a channel with something
\* to start and a controller that is free.
MayStart == poll.wait # NumWays /\ hw.chan = None

NextList(l) ==
    CASE l = "idle" -> "statusReport"       [] l = "statusReport" -> "statusCheck"
      [] l = "statusCheck" -> "readTrigger" [] l = "readTrigger" -> "erase"
      [] l = "erase" -> "write"             [] l = "write" -> "readTransfer"

\* The end of a list; readyBusy is read anew for each of the status lists.
EndList ==
    /\ poll.stage # "out" /\ poll.cur = None /\ ~poll.test
    /\ poll' = IF poll.stage = "readTransfer" \/ (poll.stage = "statusReport" /\ ~MayStart)
               THEN Out
               ELSE [poll EXCEPT !.stage = NextList(@),
                                 !.cur = sched.list[NextList(poll.stage)].head,
                                 !.ready = Ways \ hw.busy]
    /\ UNCHANGED <<sched, hw, sent, faults>>

Poll ==
    StartPoll \/ IdleWay \/ ReportWay \/ BusyWay \/ CheckWay \/ StartWay \/ TestBusy \/ EndList

(***************************************************************************)
(* The controller and the dies (external).                                 *)
(***************************************************************************)

\* A result, and a bad one only as long as the bound allows.
Answers(good, bad) ==
    \/ good /\ faults' = faults
    \/ faults < MaxFaults /\ bad /\ faults' = faults + 1

\* The hardware with the outcome of an operation of way w on request id.
Outcome(h, w, op, id, res) ==
    [h EXCEPT !.last[w] = [op |-> op, id |-> id, res |-> res],
              !.fails[w] = (IF h.last[w].id = id THEN @ ELSE 0)
                           + (IF res = "fail" THEN 1 ELSE 0)]

\* The controller has sent an operation to a die, which goes on by itself.
CommandSent ==
    /\ hw.chan # None /\ hw.chan.op \in {"trigger", "program", "erase"}
    /\ hw' = [hw EXCEPT !.chan = None, !.busy = @ \cup {hw.chan.way},
                        !.array[hw.chan.way] = [op |-> hw.chan.op, id |-> hw.chan.id]]
    /\ UNCHANGED <<sched, poll, sent, faults>>

\* The die has done the operation.  A reset reports nothing.
DieDone(w) ==
    /\ w \in hw.busy
    /\ LET Done(res) ==
               hw' = [Outcome(hw, w, hw.array[w].op, hw.array[w].id, res) EXCEPT
                        !.busy = @ \ {w}, !.array[w] = NoOp]
       IN  Answers(Done("pass"), hw.array[w].op # "reset" /\ Done("fail"))
    /\ UNCHANGED <<sched, poll, sent>>

\* The status word of a die, which may say that the die is not ready yet.
StatusWritten ==
    /\ hw.chan # None /\ hw.chan.op = "status"
    /\ LET w == hw.chan.way
           Written(st) == hw' = [hw EXCEPT !.chan = None, !.report[w] = st]
       IN  Answers(Written(hw.last[w].res), Written("busy"))
    /\ UNCHANGED <<sched, poll, sent>>

\* A page has been transferred; the decoder may find errors.
TransferDone ==
    /\ hw.chan # None /\ hw.chan.op = "transfer"
    /\ LET w == hw.chan.way
           Done(res) == hw' = [Outcome(hw, w, "transfer", hw.chan.id, res) EXCEPT
                                 !.chan = None, !.flag[w] = res]
       IN  Answers(Done("pass"), Done("fail") \/ Done("warning"))
    /\ UNCHANGED <<sched, poll, sent>>

Controller == CommandSent \/ StatusWritten \/ TransferDone

Next ==
    \/ \E w \in Ways : PutToNandReqQ(w) \/ DieDone(w)
    \/ Poll
    \/ Controller

\* The main loop keeps polling, and the hardware ends what it was told to do.
Fairness ==
    /\ WF_vars(Poll)
    /\ WF_vars(Controller)
    /\ \A w \in Ways : WF_vars(DieDone(w))

Spec == Init /\ [][Next]_vars

FairSpec == Spec /\ Fairness

-----------------------------------------------------------------------------
\* A list from its head on, or from its tail back.
Forward(l)  == Chain([w \in Ways |-> sched.die[w].next], sched.list[l].head, NumWays, None)
Backward(l) == Chain([w \in Ways |-> sched.die[w].prev], sched.list[l].tail, NumWays, None)

\* What a list says of the way: the state of its die, what it waits for and
\* what the head of its queue is.
Fits(l, w) ==
    LET d    == sched.die[w]
        code == IF sched.queue[w] = << >> THEN "none" ELSE Head(sched.queue[w]).code
    IN  CASE l = "idle"         -> d.state = "IDLE"
          [] l = "readTrigger"  -> d.state = "IDLE" /\ code = "READ"
          [] l = "readTransfer" -> d.state = "IDLE" /\ code = "READ_TRANSFER"
          [] l = "erase"        -> d.state = "IDLE" /\ code = "ERASE"
          [] l = "write"        -> d.state = "IDLE" /\ code \in {"WRITE", "RESET"}
          [] l = "statusCheck"  -> /\ d.state = "EXE" /\ code \in {"READ", "WRITE", "ERASE", "RESET"}
                                   /\ d.opt = IF code = "RESET" THEN "NONE" ELSE "CHECK"
          [] l = "statusReport" -> /\ d.state = "EXE" /\ code # "none"
                                   /\ d.opt = CASE code = "RESET" -> "NONE"
                                                [] code = "READ_TRANSFER" -> "COMPLETION_FLAG"
                                                [] OTHER -> "REPORT"

\* Every way is in exactly one list, both directions of the list's links agree,
\* and the list is the one its die state, its status check option and the head
\* of its queue ask for: a way that is in none, or in the wrong one, is never
\* served again (wayPriorityTable with one pair of links per way).
WaysListed ==
    /\ \A l \in Lists :
         /\ Len(Forward(l)) <= NumWays
         /\ Nodes(Forward(l)) = Nodes(Backward(l))
         /\ \A w \in Nodes(Forward(l)) : Fits(l, w)
         /\ \A k \in Lists \ {l} : Nodes(Forward(l)) \cap Nodes(Forward(k)) = {}
    /\ UNION {Nodes(Forward(l)) : l \in Lists} = Ways

\* No command is sent to a controller that still works on one, nor to a die
\* that is busy: the driver does not wait, a command would be lost.
CommandsWellTimed ==
    [][hw'.chan # hw.chan /\ hw'.chan # None =>
          hw.chan = None /\ hw'.chan.way \notin hw.busy]_vars

\* What a die does last for a request.
FinalOp(r) == CASE IsRead(r) -> "transfer" [] r.code = "WRITE" -> "program"
                [] r.code = "ERASE" -> "erase" [] r.code = "RESET" -> "reset"

\* The head of the queue of w leaves it.
Leaves(w) ==
    sched.queue[w] # << >> /\ (sched'.queue[w] = << >> \/
        Head(sched'.queue[w]).id # Head(sched.queue[w]).id)

ForReal(w) ==
    LET r    == Head(sched.queue[w])
        last == hw.last[w]
        bad  == last.res = "fail" \/ (last.res = "warning" /\ r.kind.warning)
    IN  /\ last.id = r.id
        /\ last.res # "fail" => last.op = FinalOp(r)
        /\ (\E b \in sched'.marked : b.id = r.id) <=> bad

\* A request leaves its queue only for what the die did with this very request:
\* the words the hardware writes are never those of an earlier command.  It was
\* carried out to its end, or its block is booked as grown bad; nothing else is.
CompletedForReal == [][\A w \in Ways : Leaves(w) => ForReal(w)]_vars

TriedEnough(w) ==
    LET r     == Head(sched.queue[w])
        tries == IF IsRead(r) THEN RetryLimit + 1 ELSE 1
    IN  IF hw.last[w].res = "fail" THEN hw.fails[w] = tries ELSE hw.fails[w] < tries

\* A read is given up after RetryLimit repetitions and not earlier, whatever
\* failures the requests before it met; a program or an erase is not repeated.
RetriesExact == [][\A w \in Ways : Leaves(w) => TriedEnough(w)]_vars

\* The scheduler implements queues that are worked off in order, each request
\* once, and every request that is queued is completed in the end.
Queues == INSTANCE NandQueue WITH
    queue <- [w \in Ways |-> [i \in DOMAIN sched.queue[w] |->
                [id |-> sched.queue[w][i].id, kind |-> sched.queue[w][i].kind]]],
    marked <- sched.marked

ImplementsQueues == Queues!Spec
=============================================================================
