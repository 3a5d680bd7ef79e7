------------------------------ MODULE NvmeTask ------------------------------
(***************************************************************************)
(* The life of the NVMe controller: the main loop (nvme/nvme_main.c), the  *)
(* interrupt handler that shares g_nvmeTask.status with it                 *)
(* (nvme/host_lld.c), the admin commands that set up queues                *)
(* (nvme/nvme_admin_cmd.c), and the host and the PCIe link around them.    *)
(*                                                                         *)
(*   task   status, cacheEn of g_nvmeTask; rstCnt of nvme_main             *)
(*   reg    (external) NVME_STATUS_REG: ccEn and ccShn are written by the  *)
(*          host, rdy and shst by the firmware; adm, sq, cq: the admin     *)
(*          queue and the I/O queues the hardware serves                   *)
(*   rest   what is left of the branch the main loop is in, one store per  *)
(*          element: an interrupt may come between any two                 *)
(*   irq    (external) causes in DEV_IRQ_STATUS_REG                        *)
(*   work   outstanding requests: of I/O commands (io), a custom DMA not   *)
(*          seen as done (custom: none, busy or done), and whether a       *)
(*          request waits behind it (behind)                               *)
(*   host   (external) link: the PCIe link is up; fresh: the driver has    *)
(*          not written CC since the link came up; events: number so far;  *)
(*          lags: this host is slower than one iteration of the main loop; *)
(*          steady: this link does not fall in the branch that enables the *)
(*          controller, and stays down for an iteration                    *)
(*                                                                         *)
(* The main loop reads the status, then the register its branch depends    *)
(* on.  The two reads are one step: an interrupt between them either makes *)
(* the branch a no-op, which is an iteration that does nothing, or changes *)
(* the status as it would just after the branch has begun.                 *)
(***************************************************************************)
EXTENDS Integers, Sequences, FiniteSets

CONSTANTS Queues,       \* the I/O queues
          RstLimit,     \* resets before pcie_async_reset (5)
          MaxEvents,    \* bound on what the host and the link do
          MaxWork       \* bound on the requests outstanding

ASSUME NvmeAssumption == {RstLimit, MaxEvents, MaxWork} \subseteq Nat

VARIABLES task, reg, rest, irq, work, host

vars == <<task, reg, rest, irq, work, host>>

Status == {"IDLE", "WAIT_CC_EN", "RUNNING", "SHUTDOWN", "WAIT_RESET", "RESET"}

(***************************************************************************)
(* The interrupt handler: every cause is looked at, and the last one that  *)
(* sets the status decides.                                                *)
(***************************************************************************)

\* MUTANT of StatusAfterIrq: any change of CC.SHN is taken for a shutdown.
ShutdownUnchecked(causes) ==
    IF "nvmeCcShn" \in causes THEN "SHUTDOWN"
    ELSE IF "nvmeCcEn" \in causes THEN IF reg.ccEn = 1 THEN "WAIT_CC_EN" ELSE "RESET"
    ELSE IF "pcieLink" \in causes /\ ~host.link THEN "RESET"
    ELSE task.status

StatusAfterIrq(causes) ==
    IF "nvmeCcShn" \in causes /\ reg.ccShn = 1 THEN "SHUTDOWN"
    ELSE IF "nvmeCcEn" \in causes THEN IF reg.ccEn = 1 THEN "WAIT_CC_EN" ELSE "RESET"
    ELSE IF "pcieLink" \in causes /\ ~host.link THEN "RESET"
    ELSE task.status

dev_irq_handler ==
    /\ irq # {}
    /\ task' = [task EXCEPT !.status = StatusAfterIrq(irq)]
    /\ irq' = {}
    /\ UNCHANGED <<reg, rest, work, host>>

(***************************************************************************)
(* The branches of the main loop, as lists of stores                       *)
(***************************************************************************)

\* MUTANT of EnableBranch: the status is set before the controller is ready.
EnableEarly == <<"toRunning", "adminOn", "rdy1">>

EnableBranch == <<"adminOn", "rdy1", "toRunning">>

ShutdownBranch == <<"shst1", "ioOff", "adminOff", "cacheOff", "shst2", "toWaitReset", "saveBbt">>

DisableBranch == <<"cacheOff", "shst0", "rdy0", "toIdle">>

\* MUTANT of ResetBranch: pcie_async_reset is called last.
ResetAsyncLast ==
    <<"ioOff", "cacheOff", "adminOff", "shst0", "rdy0", "toIdle">>
      \o (IF task.rstCnt >= RstLimit THEN <<"asyncReset">> ELSE <<>>)

ResetBranch ==
    <<"ioOff">> \o (IF task.rstCnt >= RstLimit THEN <<"asyncReset">> ELSE <<>>)
      \o <<"cacheOff", "adminOff", "shst0", "rdy0", "toIdle">>

\* pcie_async_reset writes a status word of which it has set rstCnt only.
Written(w) ==
    CASE w = "rdy0"     -> {[reg EXCEPT !.rdy = 0]}
      [] w = "rdy1"     -> {[reg EXCEPT !.rdy = 1]}
      [] w = "shst0"    -> {[reg EXCEPT !.shst = 0]}
      [] w = "shst1"    -> {[reg EXCEPT !.shst = 1]}
      [] w = "shst2"    -> {[reg EXCEPT !.shst = 2]}
      [] w = "adminOn"  -> {[reg EXCEPT !.adm = TRUE]}
      [] w = "adminOff" -> {[reg EXCEPT !.adm = FALSE]}
      [] w = "ioOff"    -> {[reg EXCEPT !.sq = {}, !.cq = {}]}
      [] w = "asyncReset" -> {[reg EXCEPT !.rdy = r, !.shst = s] : r \in 0 .. 1, s \in 0 .. 2}
      [] OTHER -> {reg}

TaskAfter(w) ==
    CASE w = "toRunning"   -> [task EXCEPT !.status = "RUNNING"]
      [] w = "toWaitReset" -> [task EXCEPT !.status = "WAIT_RESET"]
      [] w = "toIdle"      -> [task EXCEPT !.status = "IDLE"]
      [] w = "cacheOff"    -> [task EXCEPT !.cacheEn = 0]
      [] OTHER -> task

\* SyncAllLowLevelReqDone: the table is written once no request is outstanding
\* but for the custom DMA, which this loop does not look at.
Synced == work.io = 0 /\ ~work.behind

Store ==
    /\ rest # <<>>
    /\ Head(rest) = "saveBbt" => Synced
    /\ reg' \in Written(Head(rest))
    /\ task' = TaskAfter(Head(rest))
    /\ rest' = Tail(rest)
    /\ UNCHANGED <<irq, work, host>>

Begin(status, cond, branch) ==
    /\ rest = <<>> /\ task.status = status /\ cond
    /\ rest' = branch
    /\ UNCHANGED <<reg, irq, work, host>>

Enable   == Begin("WAIT_CC_EN", reg.ccEn = 1, EnableBranch) /\ UNCHANGED task
Shutdown == Begin("SHUTDOWN", reg.ccShn # 0, ShutdownBranch) /\ UNCHANGED task
Disable  == Begin("WAIT_RESET", reg.ccEn = 0, DisableBranch) /\ UNCHANGED task

Reset ==
    /\ Begin("RESET", TRUE, ResetBranch)
    /\ task' = [task EXCEPT !.rstCnt = IF @ >= RstLimit THEN 0 ELSE @ + 1]

(***************************************************************************)
(* Commands, in the branch of NVME_TASK_RUNNING                            *)
(***************************************************************************)

Command(r, t, w) ==
    /\ rest = <<>> /\ task.status = "RUNNING" /\ reg.adm
    /\ reg' = r
    /\ task' = [t EXCEPT !.rstCnt = 0]
    /\ work' = w
    /\ UNCHANGED <<rest, irq, host>>

handle_create_io_sq(q) == Command([reg EXCEPT !.sq = @ \cup {q}], task, work)
handle_delete_io_sq(q) == Command([reg EXCEPT !.sq = @ \ {q}], task, work)
handle_create_io_cq(q) == Command([reg EXCEPT !.cq = @ \cup {q}], task, work)
handle_delete_io_cq(q) == Command([reg EXCEPT !.cq = @ \ {q}], task, work)
handle_set_features(b) == Command(reg, [task EXCEPT !.cacheEn = b], work)

\* The host has no command left when it asks for a shutdown.
handle_nvme_io_cmd ==
    /\ reg.sq # {} /\ reg.ccShn = 0 /\ work.io < MaxWork
    /\ \/ Command(reg, task, [work EXCEPT !.io = @ + 1])
       \/ /\ work.custom = "none"
          /\ \E b \in BOOLEAN :
                Command(reg, task, [work EXCEPT !.custom = "busy", !.behind = b])

(***************************************************************************)
(* Polling: at the end of an iteration, or in SyncAllLowLevelReqDone,      *)
(* which leaves CheckDoneCustomCmdDmaReq out.                              *)
(***************************************************************************)

AtSync == rest # <<>> /\ Head(rest) = "saveBbt"

Poll ==
    /\ rest = <<>> \/ AtSync
    /\ work.io > 0
    /\ work' = [work EXCEPT !.io = @ - 1]
    /\ UNCHANGED <<task, reg, rest, irq, host>>

\* The request behind becomes an ordinary one.
CheckDoneCustomCmdDmaReq ==
    /\ rest = <<>> /\ work.custom = "done"
    /\ work' = [io |-> work.io + (IF work.behind THEN 1 ELSE 0),
                custom |-> "none", behind |-> FALSE]
    /\ UNCHANGED <<task, reg, rest, irq, host>>

DmaDone ==
    /\ work.custom = "busy"
    /\ work' = [work EXCEPT !.custom = "done"]
    /\ UNCHANGED <<task, reg, rest, irq, host>>

(***************************************************************************)
(* The host and the link (external)                                        *)
(***************************************************************************)

\* A host that lags does not write CC before the interrupt of its last
\* write is taken and the reset it asked for is made, nor act on CSTS.RDY before
\* the store of the status that follows.
Lagged ==
    host.lags => /\ irq = {} /\ task.status # "RESET"
                 /\ \A i \in DOMAIN rest : rest[i] \notin {"toRunning", "toIdle"}

HostWrites(en, shn, guard) ==
    /\ host.link /\ Lagged /\ host.events < MaxEvents /\ guard
    /\ reg' = [reg EXCEPT !.ccEn = en, !.ccShn = shn]
    /\ irq' = irq \cup (IF en # reg.ccEn THEN {"nvmeCcEn"} ELSE {})
                  \cup (IF shn # reg.ccShn THEN {"nvmeCcShn"} ELSE {})
    /\ host' = [host EXCEPT !.fresh = FALSE, !.events = @ + 1]
    /\ UNCHANGED <<task, rest, work>>

HostEnables == HostWrites(1, 0, reg.ccEn = 0 /\ reg.rdy = 0)

\* A driver resets the controller it finds enabled, or disables its own.
HostDisables(shn) ==
    HostWrites(0, shn, /\ reg.ccEn = 1 /\ shn \in {0, reg.ccShn}
                       /\ \/ host.fresh
                          \/ reg.rdy = 1 /\ (reg.ccShn = 0 \/ reg.shst = 2))

\* The host has seen its commands complete.  If it lags the main loop has, too:
\* the custom DMA is gone.
HostShutsDown ==
    HostWrites(1, 1, /\ ~host.fresh /\ reg.ccEn = 1 /\ reg.rdy = 1 /\ reg.ccShn = 0
                     /\ work.custom # "busy" /\ (host.lags => work.custom = "none"))

\* The registers of the host may or may not be reset with the link.
LinkDown ==
    /\ host.link /\ host.events < MaxEvents
    /\ host.steady => \A i \in DOMAIN rest : rest[i] # "toRunning"
    /\ host' = [host EXCEPT !.link = FALSE, !.events = @ + 1]
    /\ \/ UNCHANGED reg /\ irq' = irq \cup {"pcieLink"}
       \/ /\ reg' = [reg EXCEPT !.ccEn = 0, !.ccShn = 0]
          /\ irq' = irq \cup {"pcieLink"} \cup (IF reg.ccEn # 0 THEN {"nvmeCcEn"} ELSE {})
                        \cup (IF reg.ccShn # 0 THEN {"nvmeCcShn"} ELSE {})
    /\ UNCHANGED <<task, rest, work>>

\* It takes longer to train a steady link than to reset the controller.
LinkUp ==
    /\ ~host.link
    /\ host.steady => irq = {} /\ task.status # "RESET" /\ rest = <<>>
    /\ host' = [host EXCEPT !.link = TRUE, !.fresh = TRUE]
    /\ irq' = irq \cup {"pcieLink"}
    /\ UNCHANGED <<task, reg, rest, work>>

(***************************************************************************)
(* Specification                                                           *)
(***************************************************************************)

Init ==
    /\ task = [status |-> "IDLE", cacheEn |-> 0, rstCnt |-> 0]
    /\ reg = [ccEn |-> 0, ccShn |-> 0, rdy |-> 0, shst |-> 0, adm |-> FALSE,
              sq |-> {}, cq |-> {}]
    /\ rest = <<>>
    /\ irq = {}
    /\ work = [io |-> 0, custom |-> "none", behind |-> FALSE]
    /\ host \in [link : {TRUE}, fresh : {TRUE}, events : {0},
                 lags : BOOLEAN, steady : BOOLEAN]

Commands ==
    \/ \E q \in Queues : \/ handle_create_io_sq(q) \/ handle_delete_io_sq(q)
                         \/ handle_create_io_cq(q) \/ handle_delete_io_cq(q)
    \/ \E b \in {0, 1} : handle_set_features(b)
    \/ handle_nvme_io_cmd

Host == HostEnables \/ (\E shn \in {0, 1} : HostDisables(shn)) \/ HostShutsDown

Next ==
    \/ Store \/ Enable \/ Shutdown \/ Disable \/ Reset
    \/ Commands \/ Poll \/ CheckDoneCustomCmdDmaReq
    \/ dev_irq_handler \/ DmaDone \/ Host \/ LinkDown \/ LinkUp

Spec == Init /\ [][Next]_vars

\* The main loop and the hardware go on; the processor takes its interrupts.
\* Neither the host nor the link owes a step.
Fairness ==
    /\ WF_vars(Store) /\ WF_vars(Enable \/ Shutdown \/ Disable \/ Reset)
    /\ WF_vars(Poll) /\ WF_vars(CheckDoneCustomCmdDmaReq)
    /\ WF_vars(dev_irq_handler) /\ WF_vars(DmaDone)

FairSpec == Spec /\ Fairness

(***************************************************************************)
(* Properties                                                              *)
(***************************************************************************)

TypeOK ==
    /\ task \in [status : Status, cacheEn : {0, 1}, rstCnt : 0 .. RstLimit]
    /\ reg \in [ccEn : {0, 1}, ccShn : {0, 1}, rdy : {0, 1}, shst : 0 .. 2,
                adm : BOOLEAN, sq : SUBSET Queues, cq : SUBSET Queues]
    /\ irq \subseteq {"pcieLink", "nvmeCcEn", "nvmeCcShn"}
    /\ work \in [io : Nat, custom : {"none", "busy", "done"}, behind : BOOLEAN]
    /\ host \in [link : BOOLEAN, fresh : BOOLEAN, events : 0 .. MaxEvents,
                 lags : BOOLEAN, steady : BOOLEAN]

\* Commands are looked for only while the admin queue works and the host has been
\* told that the controller is ready, whatever interrupts came on the way.
RunningIsReady == task.status = "RUNNING" => reg.adm /\ reg.rdy = 1

\* A controller that is not ready, between two branches of the main loop, has
\* nothing left of the last session: no queue and no write cache setting.
NothingOutlivesReset ==
    rest = <<>> /\ reg.rdy = 0 =>
        ~reg.adm /\ reg.sq = {} /\ reg.cq = {} /\ task.cacheEn = 0

\* Sessions are separate: the firmware serves a host only after all that makes
\* the controller ready, and a new session finds nothing of the last one.
SessionsSound == TypeOK /\ RunningIsReady /\ NothingOutlivesReset

\* A controller that says it is ready is served: the task is not idle.  The bits
\* pcie_async_reset leaves to chance are gone when the reset is over.  (A host
\* that enables the controller between the stores of RDY and of IDLE is not
\* served: the status the interrupt handler has set is overwritten.)
ReadyIsServed ==
    host.lags /\ rest = <<>> /\ reg.rdy = 1 => task.status \notin {"IDLE", "WAIT_CC_EN"}

\* A controller that a driver who lags has enabled becomes ready, unless the
\* driver takes it back or the link fails.
EnableSucceeds ==
    (host.lags /\ reg.ccEn = 1 /\ host.link /\ ~host.fresh)
        ~> (reg.rdy = 1 \/ reg.ccEn = 0 \/ ~host.link)

\* A controller that was disabled, by a driver who lags or with a steady link,
\* stops being ready, also when the interrupt came while a shutdown was under way.
\* (The branch that enables the controller forgets what came while it ran.)
DisableSucceeds ==
    host.lags /\ host.steady /\ reg.ccEn = 0 ~> (reg.rdy = 0 \/ reg.ccEn = 1)

\* The shutdown of a driver who lags is reported complete and the bad block table
\* is saved: the loop in SyncAllLowLevelReqDone ends.
ShutdownSucceeds ==
    (host.lags /\ reg.ccShn = 1 /\ reg.ccEn = 1 /\ host.link /\ ~host.fresh)
        ~> ((reg.shst = 2 /\ rest = <<>>) \/ reg.ccShn = 0 \/ reg.ccEn = 0 \/ ~host.link)

\* What the driver asks of the controller happens: enabling, disabling, shutdown.
HostRequestsSucceed == EnableSucceeds /\ DisableSucceeds /\ ShutdownSucceeds
=============================================================================
