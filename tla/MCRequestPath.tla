--------------------------- MODULE MCRequestPath ---------------------------
(***************************************************************************)
(* Workloads for RequestPath.  Addresses and lengths are in NVMe blocks,   *)
(* two of which make a slice here; lengths are zero-based as in NVMe.      *)
(***************************************************************************)
EXTENDS RequestPath

W(lba, nlb) == [op |-> "write", lba |-> lba, nlb |-> nlb]
R(lba, nlb) == [op |-> "read", lba |-> lba, nlb |-> nlb]
RW(lba, nlb, rlba, rnlb) ==
    [op |-> "rw", lba |-> lba, nlb |-> nlb, rlba |-> rlba, rnlb |-> rnlb]
Flush == [op |-> "flush"]

\* Writes of two slices, of a part of two slices and of a third one, so that
\* entries are evicted; RW commands whose write is one slice, or is partial and
\* overlaps the read.  The last command reads what the others left, by a read
\* or a RW command, or flushes.
MixedWorkload ==
    [c \in Cmds |-> IF c <= 3
                    THEN {W(0, 3), W(1, 1), W(4, 1), RW(2, 1, 4, 1),
                          RW(1, 2, 2, 0)}
                    ELSE {R(0, 3), RW(2, 1, 0, 1), Flush}]

\* RW commands that write the same slice and read different ones.
TwoRwWorkload == [c \in Cmds |-> {RW(0, 1, 2, 1), RW(0, 1, 4, 1)}]

\* A RW command whose read page lies in two slices, after commands that leave
\* its second slice on NAND and a dirty entry in the read buffer.
UnalignedRwWorkload ==
    <<{W(2, 1)}, {W(0, 1)}, {R(4, 1)}, {W(4, 1)}, {RW(0, 1, 1, 1)}>>

Split(blocksPerSlice) == INSTANCE SliceSplit WITH BlocksPerSlice <- blocksPerSlice

\* All ranges of up to sixteen blocks, for the four blocks per slice of the
\* firmware and for those of this run.
AllSplitsExact ==
    \A b \in {BlocksPerSlice, 4}, startLba \in 0 .. 11, nlb \in 0 .. 15 :
        Split(b)!SplitIsExact(startLba, nlb)

\* When a command is split, ReqTransNvmeToSlice covers its range exactly (see
\* SplitIsExact), wherever the range starts and ends relative to the slices.
SplitExact == pc = "slice" => AllSplitsExact
=============================================================================
