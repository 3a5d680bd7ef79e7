----------------------------- MODULE SliceSplit -----------------------------
(***************************************************************************)
(* How ReqTransNvmeToSlice (request_transform.c) splits the block range of *)
(* an NVMe command into slice requests.  A slice is the unit of the data   *)
(* buffer and of the mapping table; it holds BlocksPerSlice NVMe blocks.   *)
(* The operators have no state; RequestPath uses them.                     *)
(***************************************************************************)
EXTENDS Integers, Sequences

CONSTANT BlocksPerSlice   \* NVME_BLOCKS_PER_SLICE

ASSUME BlocksPerSliceAssumption == BlocksPerSlice \in Nat \ {0}

\* Number of slice boundaries the range reaches: the variable `loop'.
Loop(startLba, nlb) ==
    ((startLba % BlocksPerSlice) + nlb + 1) \div BlocksPerSlice

\* The slice request of the first transform: it starts inside its slice.
FirstSlice(startLba, nlb) ==
    LET offset == startLba % BlocksPerSlice
    IN  [lsa        |-> startLba \div BlocksPerSlice,
         offset     |-> offset,
         num        |-> IF Loop(startLba, nlb) # 0 THEN BlocksPerSlice - offset ELSE nlb + 1,
         startIndex |-> 0]

\* The whole slices between the first and the last one.
MiddleSlices(startLba, nlb) ==
    LET first == FirstSlice(startLba, nlb)
        loop  == Loop(startLba, nlb)
        count == IF loop = 0 THEN 0 ELSE loop - 1
    IN  [i \in 1 .. count |->
            [lsa        |-> first.lsa + i,
             offset     |-> 0,
             num        |-> BlocksPerSlice,
             startIndex |-> first.num + (i - 1) * BlocksPerSlice]]

\* MUTANT of LastSlice: the early return tests only the block count.
LastSliceAlways(startLba, nlb) ==
    LET first == FirstSlice(startLba, nlb)
        rest  == (startLba + nlb + 1) % BlocksPerSlice
        loop  == Loop(startLba, nlb)
    IN  IF rest = 0 THEN << >>
        ELSE <<[lsa |-> first.lsa + loop, offset |-> 0, num |-> rest,
                startIndex |-> first.num + (loop - 1) * BlocksPerSlice]>>

\* The last transform: the head of one more slice, when the range ends in it.
LastSlice(startLba, nlb) ==
    LET first == FirstSlice(startLba, nlb)
        rest  == (startLba + nlb + 1) % BlocksPerSlice
        loop  == Loop(startLba, nlb)
    IN  IF rest = 0 \/ loop = 0 THEN << >>
        ELSE <<[lsa        |-> first.lsa + loop,
                offset     |-> 0,
                num        |-> rest,
                startIndex |-> first.num + (loop - 1) * BlocksPerSlice]>>

\* The slice requests of one call, in the order they enter sliceReqQ.
Slices(startLba, nlb) ==
    <<FirstSlice(startLba, nlb)>> \o MiddleSlices(startLba, nlb) \o LastSlice(startLba, nlb)

\* Block k of the command travels in slice request s.
Carries(s, startLba, k) ==
    /\ k \in s.startIndex .. s.startIndex + s.num - 1
    /\ s.lsa * BlocksPerSlice + s.offset + (k - s.startIndex) = startLba + k

\* The split loses, duplicates and misplaces no block: every block of the
\* command is carried by exactly one slice request, to its own place in its
\* own slice, and every slice request stays inside its slice and inside the
\* command's PRP list.
SplitIsExact(startLba, nlb) ==
    LET slices == Slices(startLba, nlb)
    IN  /\ \A k \in 0 .. nlb :
              \E i \in DOMAIN slices :
                  /\ Carries(slices[i], startLba, k)
                  /\ \A j \in DOMAIN slices \ {i} :
                        k \notin slices[j].startIndex .. slices[j].startIndex + slices[j].num - 1
        /\ \A i \in DOMAIN slices :
              /\ slices[i].num >= 1
              /\ slices[i].offset + slices[i].num <= BlocksPerSlice
              /\ slices[i].startIndex + slices[i].num <= nlb + 1
=============================================================================
