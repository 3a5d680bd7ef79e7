------------------------------ MODULE MCGcPath ------------------------------
(* GcPath under a host that sends a list of commands, each step of which is a  *)
(* choice.  Some of the lists lead to a block that is collected, opened again  *)
(* and read while its erase is still waiting.                                  *)
EXTENDS GcPath

CONSTANTS la, lb, lc, lx,  \* slices
          e1, e2, r1       \* entries

VARIABLE script   \* the commands the host has still to send

R(l, e) == <<"READ", l, e>>
W(l, e) == <<"WRITE", l, e>>

\* Commands the host sends when its writes are done and the die has nothing to
\* do, and commands it sends at any time.
Calmly(cs)  == [i \in DOMAIN cs |-> [calm |-> TRUE, cmds |-> {cs[i]}]]
Freely(css) == [i \in DOMAIN css |-> [calm |-> FALSE, cmds |-> css[i]]]

\* A read of lb keeps the program of its page waiting, and the erase of block 0
\* has to wait for that program.
ProgramWaits ==
    Calmly(<<W(la, e2), W(lx, e2), W(lb, e1), R(lb, e1), W(lc, e1),
             W(la, e2), W(lb, e2), W(lx, e2), W(la, e2), W(lb, e2)>>)
        \o Freely(<<{R(la, r1), R(lx, r1)}, {W(lx, e2)}>>)

\* A read of la keeps the read of lx waiting, and the erase of block 0 has to
\* wait for that read.
ReadWaits ==
    Calmly(<<W(la, e2), W(lx, e2), W(lb, e2), R(la, r1), R(lx, r1),
             W(la, e2), W(lb, e2), W(la, e2), W(lb, e2)>>)
        \o Freely(<<{R(la, r1)}, {W(lx, e2), W(lc, e1)}>>)

\* Writes that leave a page of lb behind in block 0, which the next eviction
\* collects; then any two commands.
Anything ==
    Calmly(<<W(la, e1), W(lb, e1), W(lc, e1), W(la, e1), W(lx, e1)>>)
        \o Freely(<<{W(la, e1), W(lc, e1), R(lb, e1)}>>)
        \o Freely([i \in 1 .. 2 |-> {"READ", "WRITE"} \X {la, lb, lc} \X {e1, r1}])

ScriptInit == Init /\ script \in {ProgramWaits, ReadWaits, Anything}

Calm == low.fifo["Rx"] = << >> /\ low.nand[0] = << >>

ScriptHost ==
    /\ script # << >>
    /\ Head(script).calm => Calm
    /\ \E c \in Head(script).cmds : HostCmd(c[1], c[2], c[3])
    /\ script' = Tail(script)

ScriptNext ==
    \/ ScriptHost
    \/ Submit /\ UNCHANGED script
    \/ SyncReleaseEraseReq /\ UNCHANGED script
    \/ \E dir \in Dirs : CheckDoneNvmeDmaReq(dir) /\ UNCHANGED script
    \/ SchedulingNandReq /\ UNCHANGED script

ScriptSpec == ScriptInit /\ [][ScriptNext]_<<vars, script>> /\ Fairness
=============================================================================
