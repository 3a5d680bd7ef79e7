------------------------ MODULE HostInterfaceProofs ------------------------
(***************************************************************************)
(* Proofs about the host side of the firmware: the auto-DMA driver, for    *)
(* every FIFO size, request size and set of directions, and the split of a *)
(* command into slice requests, for every start address, every length and  *)
(* every number of blocks per slice.                                       *)
(***************************************************************************)
EXTENDS AutoDma, SliceSplit, SequenceTheorems, TLAPS

(***************************************************************************)
(* The auto-DMA driver                                                     *)
(***************************************************************************)


(***************************************************************************)
(* A pair <<a, x>> with x an index stands for the number a * FifoSize + x. *)
(* Such pairs are ordered lexicographically.                               *)
(***************************************************************************)
LEMMA PairOrder ==
    ASSUME NEW a \in Nat, NEW b \in Nat, NEW x \in Index, NEW y \in Index
    PROVE  a * FifoSize + x <= b * FifoSize + y <=> (a < b \/ (a = b /\ x <= y))
<1> USE FifoSizeAssumption DEF Index
<1>1. CASE a = b
  BY <1>1
<1>2. CASE a < b
  <2>1. PICK k \in Nat : b = a + 1 + k
    <3>1. b - a - 1 \in Nat /\ b = a + 1 + (b - a - 1)
      BY <1>2
    <3> QED BY <3>1
  <2>2. b * FifoSize = a * FifoSize + FifoSize + k * FifoSize
    BY <2>1
  <2>3. k * FifoSize >= 0 /\ k * FifoSize \in Nat /\ a * FifoSize \in Nat /\ b * FifoSize \in Nat
    OBVIOUS
  <2> HIDE <2>1
  <2> QED BY <1>2, <2>2, <2>3
<1>3. CASE b < a
  <2>1. PICK k \in Nat : a = b + 1 + k
    <3>1. a - b - 1 \in Nat /\ a = b + 1 + (a - b - 1)
      BY <1>3
    <3> QED BY <3>1
  <2>2. a * FifoSize = b * FifoSize + FifoSize + k * FifoSize
    BY <2>1
  <2>3. k * FifoSize >= 0 /\ k * FifoSize \in Nat /\ a * FifoSize \in Nat /\ b * FifoSize \in Nat
    OBVIOUS
  <2> HIDE <2>1
  <2> QED BY <1>3, <2>2, <2>3
<1> QED BY <1>1, <1>2, <1>3

(***************************************************************************)
(* The inductive invariant: the index and wrap counters represent the true *)
(* command counts, the FIFO is never full, and a request's saved pair      *)
(* represents its last command, which has been issued.                     *)
(***************************************************************************)
Represents(wrap, index, n) == n = wrap * FifoSize + index

CountersExact ==
    \A d \in Dirs : /\ Represents(overFlowCnt[d], fifoTail[d], issued[d])
                    /\ Represents(headWrap[d], fifoHead[d], done[d])

RequestsExact ==
    \A r \in reqs : /\ Represents(r.overFlowCnt, r.reqTail, r.end)
                    /\ r.end <= issued[r.dir]

IInv == TypeOK /\ CountersExact /\ FifoNeverFull /\ RequestsExact

\* Advancing an index, and the wrap count with it, advances the number by one.
LEMMA SuccExact ==
    ASSUME NEW a \in Nat, NEW x \in Index, NEW n \in Nat, Represents(a, x, n)
    PROVE  /\ Succ(x) \in Index
           /\ x > Succ(x) <=> Succ(x) = 0
           /\ Represents(IF x > Succ(x) THEN a + 1 ELSE a, Succ(x), n + 1)
           /\ Represents(IF Succ(x) = 0 THEN a + 1 ELSE a, Succ(x), n + 1)
<1> USE FifoSizeAssumption DEF Index, Represents
<1>1. CASE x = FifoSize - 1
  <2>1. Succ(x) = 0
    BY <1>1 DEF Succ
  <2>2. (a + 1) * FifoSize = a * FifoSize + FifoSize
    OBVIOUS
  <2> QED BY <1>1, <2>1, <2>2
<1>2. CASE x # FifoSize - 1
  <2>1. Succ(x) = x + 1
    BY <1>2 DEF Succ
  <2> QED BY <1>2, <2>1
<1> QED BY <1>1, <1>2

\* The same number has one representation, so an index FifoSize - 1 ahead of
\* another is the one FifoFull looks for.
LEMMA NotFullExact ==
    ASSUME IInv, NEW d \in Dirs, ~FifoFull(d)
    PROVE  issued[d] + 1 - done[d] < FifoSize
<1> DEFINE ov == overFlowCnt[d]
           tl == fifoTail[d]
           hw == headWrap[d]
           hd == fifoHead[d]
           I  == issued[d]
           D  == done[d]
<1>1. /\ ov \in Nat /\ hw \in Nat /\ tl \in Index /\ hd \in Index
      /\ I \in Nat /\ D \in Nat
      /\ Represents(ov, tl, I) /\ Represents(hw, hd, D)
      /\ D <= I /\ I - D < FifoSize
      /\ Succ(tl) # hd
  BY DEF IInv, TypeOK, CountersExact, FifoNeverFull, FifoFull
<1> HIDE DEF ov, tl, hw, hd, I, D
<1>2. SUFFICES ASSUME I + 1 - D = FifoSize PROVE FALSE
  BY <1>1, FifoSizeAssumption DEF I, D
<1>3. PICK ov2 \in Nat : Represents(ov2, Succ(tl), I + 1) /\ Succ(tl) \in Index
  BY <1>1, SuccExact
<1>4. Represents(hw + 1, hd, D + FifoSize)
  <2>1. (hw + 1) * FifoSize = hw * FifoSize + FifoSize
    BY <1>1, FifoSizeAssumption
  <2> QED BY <2>1, <1>1, FifoSizeAssumption DEF Represents, Index
<1>5. ov2 * FifoSize + Succ(tl) = (hw + 1) * FifoSize + hd
  BY <1>1, <1>2, <1>3, <1>4, FifoSizeAssumption DEF Represents
<1>6. /\ ov2 * FifoSize + Succ(tl) <= (hw + 1) * FifoSize + hd
      /\ (hw + 1) * FifoSize + hd <= ov2 * FifoSize + Succ(tl)
  <2>1. ov2 * FifoSize + Succ(tl) \in Int
    BY <1>3, FifoSizeAssumption DEF Index
  <2> QED BY <1>5, <2>1
<1>7. Succ(tl) = hd
  <2>1. hw + 1 \in Nat
    BY <1>1
  <2>2. ov2 < hw + 1 \/ (ov2 = hw + 1 /\ Succ(tl) <= hd)
    BY <1>1, <1>3, <1>6, <2>1, PairOrder
  <2>3. hw + 1 < ov2 \/ (hw + 1 = ov2 /\ hd <= Succ(tl))
    BY <1>1, <1>3, <1>6, <2>1, PairOrder
  <2> QED BY <1>1, <1>3, <2>1, <2>2, <2>3, FifoSizeAssumption DEF Index
<1> QED BY <1>1, <1>7

\* The comparison of check_auto_*_dma_partial_done follows from the invariant.
LEMMA PartialDoneFromInvariant ==
    ASSUME IInv
    PROVE  PartialDoneExact
<1> SUFFICES ASSUME NEW r \in reqs
             PROVE  PartialDone(r.dir, r.reqTail, r.overFlowCnt) <=> done[r.dir] >= r.end
  BY DEF PartialDoneExact
<1> DEFINE d  == r.dir
           ov == overFlowCnt[d]
           tl == fifoTail[d]
           hw == headWrap[d]
           hd == fifoHead[d]
           a  == r.overFlowCnt
           t  == r.reqTail
<1>1. d \in Dirs
  BY DEF IInv, TypeOK, Request
<1>2. /\ ov \in Nat /\ hw \in Nat /\ a \in Nat
      /\ tl \in Index /\ hd \in Index /\ t \in Index
      /\ issued[d] \in Nat /\ done[d] \in Nat /\ r.end \in Nat
  BY <1>1 DEF IInv, TypeOK, Request
<1>3. /\ issued[d] = ov * FifoSize + tl
      /\ done[d] = hw * FifoSize + hd
      /\ r.end = a * FifoSize + t
      /\ r.end <= issued[d] /\ done[d] <= issued[d] /\ issued[d] - done[d] < FifoSize
  BY <1>1 DEF IInv, CountersExact, RequestsExact, FifoNeverFull, Represents
<1>4. PartialDone(d, t, a) <=>
          \/ hd = tl
          \/ hd = t
          \/ /\ hd < t
             /\ IF tl < t THEN tl > hd \/ ov # a + 1 ELSE ov # a
          \/ /\ hd > t
             /\ (tl < t \/ tl > hd \/ ov # a)
  BY DEF PartialDone
<1> HIDE DEF ov, tl, hw, hd, a, t
<1>5. hw < ov \/ (hw = ov /\ hd <= tl)
  BY <1>2, <1>3, PairOrder
<1>6. ~(hw + 1 < ov \/ (hw + 1 = ov /\ hd <= tl))
  <2>1. hw + 1 \in Nat /\ (hw + 1) * FifoSize = hw * FifoSize + FifoSize
    BY <1>2, FifoSizeAssumption
  <2>2. ~((hw + 1) * FifoSize + hd <= ov * FifoSize + tl)
    BY <1>2, <1>3, <2>1, FifoSizeAssumption DEF Index
  <2> QED BY <1>2, <2>1, <2>2, PairOrder
<1>7. a < ov \/ (a = ov /\ t <= tl)
  BY <1>2, <1>3, PairOrder
<1>8. r.end <= done[d] <=> (a < hw \/ (a = hw /\ t <= hd))
  BY <1>2, <1>3, PairOrder
<1>9. PartialDone(d, t, a) <=> (a < hw \/ (a = hw /\ t <= hd))
  BY <1>2, <1>4, <1>5, <1>6, <1>7, FifoSizeAssumption DEF Index
<1> QED BY <1>2, <1>8, <1>9 DEF t, a

LEMMA InitIInv == Init => IInv
<1> SUFFICES ASSUME Init PROVE IInv
  OBVIOUS
<1>1. TypeOK
  BY FifoSizeAssumption DEF Init, TypeOK, Index
<1>2. CountersExact
  <2> SUFFICES ASSUME NEW d \in Dirs
               PROVE  /\ issued[d] = overFlowCnt[d] * FifoSize + fifoTail[d]
                      /\ done[d] = headWrap[d] * FifoSize + fifoHead[d]
    BY DEF CountersExact, Represents
  <2>1. /\ issued[d] = 0 /\ overFlowCnt[d] = 0 /\ fifoTail[d] = 0
        /\ done[d] = 0 /\ headWrap[d] = 0 /\ fifoHead[d] = 0
    BY DEF Init
  <2>2. 0 * FifoSize + 0 = 0
    BY FifoSizeAssumption
  <2> QED BY <2>1, <2>2
<1>3. FifoNeverFull
  <2> SUFFICES ASSUME NEW d \in Dirs
               PROVE  done[d] <= issued[d] /\ issued[d] - done[d] < FifoSize
    BY DEF FifoNeverFull
  <2>1. issued[d] = 0 /\ done[d] = 0
    BY DEF Init
  <2> QED BY <2>1, FifoSizeAssumption
<1>4. RequestsExact
  BY DEF Init, RequestsExact
<1> QED BY <1>1, <1>2, <1>3, <1>4 DEF IInv

LEMMA SetAutoDmaIInv ==
    ASSUME IInv, NEW d \in Dirs, SetAutoDma(d)
    PROVE  IInv'
<1> DEFINE new == [dir |-> d, reqTail |-> fifoTail'[d],
                   overFlowCnt |-> overFlowCnt'[d], end |-> issued'[d]]
<1>1. TypeOK /\ fifoTail[d] \in Index /\ overFlowCnt[d] \in Nat /\ issued[d] \in Nat
  BY DEF IInv, TypeOK
<1>2. /\ fifoTail' \in [Dirs -> Index]
      /\ overFlowCnt' \in [Dirs -> Nat]
      /\ issued' \in [Dirs -> Nat]
      /\ left' \in [Dirs -> Nat]
  <2>1. Succ(fifoTail[d]) \in Index
    BY <1>1, FifoSizeAssumption DEF Succ, Index
  <2>2. fifoTail' \in [Dirs -> Index]
    BY <1>1, <2>1 DEF SetAutoDma, TypeOK
  <2>3. overFlowCnt' \in [Dirs -> Nat]
    <3>1. (IF fifoTail[d] > Succ(fifoTail[d]) THEN overFlowCnt[d] + 1 ELSE overFlowCnt[d]) \in Nat
      BY <1>1
    <3> QED BY <1>1, <3>1 DEF SetAutoDma, TypeOK
  <2>4. issued' \in [Dirs -> Nat] /\ left' \in [Dirs -> Nat]
    BY <1>1 DEF SetAutoDma, TypeOK
  <2> QED BY <2>2, <2>3, <2>4
<1>3. /\ fifoTail'[d] \in Index /\ overFlowCnt'[d] \in Nat /\ issued'[d] \in Nat
      /\ issued'[d] = issued[d] + 1
      /\ Represents(overFlowCnt'[d], fifoTail'[d], issued'[d])
  <2>1. Represents(overFlowCnt[d], fifoTail[d], issued[d])
    BY DEF IInv, CountersExact
  <2>2. /\ fifoTail'[d] = Succ(fifoTail[d])
        /\ issued'[d] = issued[d] + 1
        /\ overFlowCnt'[d] = IF fifoTail[d] > Succ(fifoTail[d])
                             THEN overFlowCnt[d] + 1 ELSE overFlowCnt[d]
    BY <1>1 DEF SetAutoDma, TypeOK
  <2> QED BY <1>1, <1>2, <2>1, <2>2, SuccExact
<1>4. reqs' = reqs \/ reqs' = reqs \cup {new}
  BY DEF SetAutoDma, Remember
<1>5. new \in Request
  BY <1>3 DEF Request
<1>6. TypeOK'
  BY <1>1, <1>2, <1>4, <1>5 DEF TypeOK, SetAutoDma
<1>7. CountersExact'
  <2> SUFFICES ASSUME NEW e \in Dirs
               PROVE  /\ Represents(overFlowCnt'[e], fifoTail'[e], issued'[e])
                      /\ Represents(headWrap'[e], fifoHead'[e], done'[e])
    BY DEF CountersExact
  <2>1. Represents(headWrap'[e], fifoHead'[e], done'[e])
    BY DEF SetAutoDma, IInv, CountersExact
  <2>2. CASE e = d
    BY <2>1, <2>2, <1>3
  <2>3. CASE e # d
    <3>1. overFlowCnt'[e] = overFlowCnt[e] /\ fifoTail'[e] = fifoTail[e] /\ issued'[e] = issued[e]
      BY <2>3, <1>1 DEF SetAutoDma, TypeOK
    <3> QED BY <2>1, <3>1 DEF IInv, CountersExact
  <2> QED BY <2>2, <2>3
<1>8. FifoNeverFull'
  <2> SUFFICES ASSUME NEW e \in Dirs
               PROVE  done'[e] <= issued'[e] /\ issued'[e] - done'[e] < FifoSize
    BY DEF FifoNeverFull
  <2>1. done'[e] = done[e] /\ done[e] \in Nat /\ done[e] <= issued[e] /\ issued[e] - done[e] < FifoSize
    BY DEF SetAutoDma, IInv, TypeOK, FifoNeverFull
  <2>2. CASE e = d
    <3>1. issued[d] + 1 - done[d] < FifoSize
      BY NotFullExact DEF SetAutoDma
    <3> QED BY <2>1, <2>2, <3>1, <1>1, <1>3
  <2>3. CASE e # d
    <3>1. issued'[e] = issued[e]
      BY <2>3, <1>1 DEF SetAutoDma, TypeOK
    <3> QED BY <2>1, <3>1
  <2> QED BY <2>2, <2>3
<1>9. RequestsExact'
  <2> SUFFICES ASSUME NEW r \in reqs'
               PROVE  Represents(r.overFlowCnt, r.reqTail, r.end) /\ r.end <= issued'[r.dir]
    BY DEF RequestsExact
  <2>1. CASE r \in reqs
    <3>1. r.dir \in Dirs /\ r.end \in Nat
      BY <2>1, <1>1 DEF TypeOK, Request
    <3>2. Represents(r.overFlowCnt, r.reqTail, r.end) /\ r.end <= issued[r.dir]
      BY <2>1 DEF IInv, RequestsExact
    <3>3. issued[r.dir] \in Nat /\ issued'[r.dir] \in {issued[r.dir], issued[r.dir] + 1}
      BY <3>1, <1>1 DEF SetAutoDma, TypeOK
    <3> QED BY <3>1, <3>2, <3>3
  <2>2. CASE r = new
    BY <2>2, <1>3
  <2> QED BY <1>4, <2>1, <2>2
<1> QED BY <1>6, <1>7, <1>8, <1>9 DEF IInv

LEMMA EngineStepIInv ==
    ASSUME IInv, NEW d \in Dirs, EngineStep(d)
    PROVE  IInv'
<1>1. TypeOK /\ fifoHead[d] \in Index /\ headWrap[d] \in Nat /\ done[d] \in Nat
  BY DEF IInv, TypeOK
<1>2. Represents(headWrap[d], fifoHead[d], done[d])
  BY DEF IInv, CountersExact
<1>3. /\ fifoHead'[d] = Succ(fifoHead[d])
      /\ done'[d] = done[d] + 1
      /\ headWrap'[d] = IF Succ(fifoHead[d]) = 0 THEN headWrap[d] + 1 ELSE headWrap[d]
  BY <1>1 DEF EngineStep, TypeOK
<1>4. Represents(headWrap'[d], fifoHead'[d], done'[d])
  BY <1>1, <1>2, <1>3, SuccExact
<1>5. TypeOK'
  BY <1>1, FifoSizeAssumption DEF EngineStep, TypeOK, Succ, Index
<1>6. CountersExact'
  <2> SUFFICES ASSUME NEW e \in Dirs
               PROVE  /\ Represents(overFlowCnt'[e], fifoTail'[e], issued'[e])
                      /\ Represents(headWrap'[e], fifoHead'[e], done'[e])
    BY DEF CountersExact
  <2>1. Represents(overFlowCnt'[e], fifoTail'[e], issued'[e])
    BY DEF EngineStep, IInv, CountersExact
  <2>2. CASE e = d
    BY <2>1, <2>2, <1>4
  <2>3. CASE e # d
    <3>1. headWrap'[e] = headWrap[e] /\ fifoHead'[e] = fifoHead[e] /\ done'[e] = done[e]
      BY <2>3, <1>1 DEF EngineStep, TypeOK
    <3> QED BY <2>1, <3>1 DEF IInv, CountersExact
  <2> QED BY <2>2, <2>3
<1>7. FifoNeverFull'
  <2> SUFFICES ASSUME NEW e \in Dirs
               PROVE  done'[e] <= issued'[e] /\ issued'[e] - done'[e] < FifoSize
    BY DEF FifoNeverFull
  <2>1. /\ issued'[e] = issued[e] /\ issued[e] \in Nat /\ done[e] \in Nat
        /\ done[e] <= issued[e] /\ issued[e] - done[e] < FifoSize
    BY DEF EngineStep, IInv, TypeOK, FifoNeverFull
  <2>2. CASE e = d
    \* A head and a tail that differ represent different numbers.
    <3>1. done[d] # issued[d]
      <4>1. SUFFICES ASSUME done[d] = issued[d] PROVE FALSE
        OBVIOUS
      <4>2. /\ overFlowCnt[d] \in Nat /\ fifoTail[d] \in Index
            /\ issued[d] = overFlowCnt[d] * FifoSize + fifoTail[d]
            /\ done[d] = headWrap[d] * FifoSize + fifoHead[d]
        BY DEF IInv, TypeOK, CountersExact, Represents
      <4>3. headWrap[d] < overFlowCnt[d]
            \/ (headWrap[d] = overFlowCnt[d] /\ fifoHead[d] <= fifoTail[d])
        BY <1>1, <4>1, <4>2, <2>1, <2>2, PairOrder
      <4>4. overFlowCnt[d] < headWrap[d]
            \/ (overFlowCnt[d] = headWrap[d] /\ fifoTail[d] <= fifoHead[d])
        BY <1>1, <4>1, <4>2, <2>1, <2>2, PairOrder
      <4>5. fifoHead[d] # fifoTail[d]
        BY DEF EngineStep
      <4> QED BY <1>1, <4>2, <4>3, <4>4, <4>5, FifoSizeAssumption DEF Index
    <3> QED BY <2>1, <2>2, <3>1, <1>3, FifoSizeAssumption
  <2>3. CASE e # d
    <3>1. done'[e] = done[e]
      BY <2>3, <1>1 DEF EngineStep, TypeOK
    <3> QED BY <2>1, <3>1
  <2> QED BY <2>2, <2>3
<1>8. RequestsExact'
  BY DEF EngineStep, IInv, RequestsExact
<1> QED BY <1>5, <1>6, <1>7, <1>8 DEF IInv

LEMMA NextIInv == IInv /\ [Next]_vars => IInv'
<1> SUFFICES ASSUME IInv, [Next]_vars PROVE IInv'
  OBVIOUS
<1>1. ASSUME NEW d \in Dirs, NEW n \in 1 .. BlocksPerReq, BeginIssue(d, n) PROVE IInv'
  <2>1. TypeOK'
    BY <1>1, BlocksAssumption DEF BeginIssue, IInv, TypeOK
  <2> QED BY <1>1, <2>1 DEF BeginIssue, IInv, CountersExact, FifoNeverFull, RequestsExact
<1>2. ASSUME NEW d \in Dirs, SetAutoDma(d) PROVE IInv'
  BY <1>2, SetAutoDmaIInv
<1>3. ASSUME NEW d \in Dirs, EngineStep(d) PROVE IInv'
  BY <1>3, EngineStepIInv
<1>4. ASSUME NEW r \in reqs, CheckDone(r) PROVE IInv'
  BY <1>4 DEF CheckDone, IInv, TypeOK, CountersExact, FifoNeverFull, RequestsExact
<1>5. CASE UNCHANGED vars
  BY <1>5 DEF vars, IInv, TypeOK, CountersExact, FifoNeverFull, RequestsExact
<1> QED BY <1>1, <1>2, <1>3, <1>4, <1>5 DEF Next

\* The counters of host_lld.c always represent the true command counts.
THEOREM IInvHolds == Spec => []IInv
BY InitIInv, NextIInv, PTL DEF Spec

\* The indices stay in their registers and the counters of host_lld.c never go
\* below zero.
THEOREM TypeIsOK == Spec => []TypeOK
<1>1. IInv => TypeOK
  BY DEF IInv
<1> QED BY <1>1, IInvHolds, PTL

\* check_auto_{rx,tx}_dma_partial_done is exact: for every FIFO size, whatever
\* indices wrapped since the request was issued, it reports a request done
\* exactly when the engine has executed the request's last command.
THEOREM PartialDoneIsExact == Spec => []PartialDoneExact
<1>1. IInv => PartialDoneExact
  BY PartialDoneFromInvariant
<1> QED BY <1>1, IInvHolds, PTL

\* The wait loop of set_auto_{rx,tx}_dma keeps the FIFO from ever being full.
THEOREM FifoIsNeverFull == Spec => []FifoNeverFull
<1>1. IInv => FifoNeverFull
  BY DEF IInv
<1> QED BY <1>1, IInvHolds, PTL

(***************************************************************************)
(* The split of a command                                                  *)
(***************************************************************************)


B == BlocksPerSlice

\* Division with remainder.
LEMMA DivMod ==
    ASSUME NEW x \in Nat
    PROVE  /\ x \div B \in Nat /\ x % B \in 0 .. B - 1
           /\ x = (x \div B) * B + (x % B)
<1>1. /\ B \in Int /\ B > 0
  BY BlocksPerSliceAssumption DEF B
<1> HIDE DEF B
<1>2. x % B \in 0 .. B - 1
  BY <1>1
<1>3. x \div B \in Int /\ x \div B >= 0
  BY <1>1
<1>4. x = B * (x \div B) + (x % B)
  BY <1>1
<1>5. B * (x \div B) = (x \div B) * B
  BY <1>1, <1>3
<1> QED
  BY <1>2, <1>3, <1>4, <1>5

\* The slices are apart: the blocks of slice i end where those of i + 1 begin.
LEMMA Rows ==
    ASSUME NEW i \in Nat, NEW j \in Nat, i < j
    PROVE  (i + 1) * B <= j * B /\ (i + 1) * B = i * B + B /\ i * B \in Nat /\ j * B \in Nat
<1>1. /\ B \in Nat /\ B > 0
  BY BlocksPerSliceAssumption DEF B
<1> HIDE DEF B
<1>2. PICK k \in Nat : j = i + 1 + k
  <2>1. j - i - 1 \in Nat /\ j = i + 1 + (j - i - 1)
    OBVIOUS
  <2> QED
    BY <2>1
<1>3. j * B = (i + 1) * B + k * B
  BY <1>1, <1>2
<1>4. k * B \in Nat /\ (i + 1) * B \in Nat
  BY <1>1
<1>5. (i + 1) * B = i * B + B
  BY <1>1
<1>6. i * B \in Nat
  BY <1>1
<1> HIDE <1>2
<1> QED
  BY <1>1, <1>3, <1>4, <1>5, <1>6

\* A number has one quotient and one remainder.
LEMMA DivModUnique ==
    ASSUME NEW i \in Nat, NEW j \in Nat, NEW x \in 0 .. B - 1, NEW y \in 0 .. B - 1,
           i * B + x = j * B + y
    PROVE  i = j /\ x = y
<1>1. /\ B \in Nat /\ B > 0
  BY BlocksPerSliceAssumption DEF B
<1> HIDE DEF B
<1>2. i * B \in Nat /\ j * B \in Nat
  BY <1>1
<1>3. CASE i < j
  BY <1>1, <1>2, <1>3, Rows
<1>4. CASE j < i
  BY <1>1, <1>2, <1>4, Rows
<1>5. CASE i = j
  BY <1>1, <1>2, <1>5
<1> QED
  BY <1>3, <1>4, <1>5

-----------------------------------------------------------------------------

SliceReq == [lsa : Int, offset : Int, num : Int, startIndex : Int]

\* How many slice requests there are.
Pieces(startLba, nlb) ==
    IF Loop(startLba, nlb) = 0 THEN 1
    ELSE IF (startLba + nlb + 1) % B = 0 THEN Loop(startLba, nlb)
    ELSE Loop(startLba, nlb) + 1

\* The block of the command with which its j-th slice begins.
Bound(startLba, j) == IF j = 0 THEN 0 ELSE j * B - (startLba % B)

\* The range ends where the loop counter and the rest say, whichever of the two
\* remainders of the code is taken.
LEMMA LoopExact ==
    ASSUME NEW startLba \in Nat, NEW nlb \in Nat
    PROVE  /\ Loop(startLba, nlb) \in Nat
           /\ (startLba % B) + nlb + 1
                 = Loop(startLba, nlb) * B + ((startLba + nlb + 1) % B)
<1> DEFINE o == startLba % B
           a == startLba \div B
           x == o + nlb + 1
           y == startLba + nlb + 1
           L == x \div B
<1>1. B \in Nat /\ B > 0
  BY BlocksPerSliceAssumption DEF B
<1>2. o \in 0 .. B - 1 /\ a \in Nat /\ startLba = a * B + o
  BY DivMod
<1>3. x \in Nat /\ y \in Nat
  BY <1>1, <1>2
<1>4. L \in Nat /\ x % B \in 0 .. B - 1 /\ x = L * B + (x % B)
  BY <1>3, DivMod
<1>5. y \div B \in Nat /\ y % B \in 0 .. B - 1 /\ y = (y \div B) * B + (y % B)
  BY <1>3, DivMod
<1>6. (a + L) * B = a * B + L * B /\ a * B \in Nat /\ L * B \in Nat /\ a + L \in Nat
  BY <1>1, <1>2, <1>4
<1>7. y = (a + L) * B + (x % B)
  <2>1. y = a * B + x
    BY <1>1, <1>2, <1>6
  <2> HIDE DEF x, y, L, o, a
  <2> QED
    BY <1>1, <1>4, <1>6, <2>1
<1>8. x % B = y % B
  <2> HIDE DEF x, y, L, o, a
  <2> QED
    BY <1>4, <1>5, <1>6, <1>7, DivModUnique
<1>9. Loop(startLba, nlb) = L
  BY DEF Loop, B
<1> QED
  BY <1>4, <1>8, <1>9

\* The slice requests, one by one: each begins where the one before ends.
LEMMA SlicesShape ==
    ASSUME NEW startLba \in Nat, NEW nlb \in Nat
    PROVE  LET slices == Slices(startLba, nlb)
               N      == Pieces(startLba, nlb)
           IN  /\ N \in Nat /\ N >= 1 /\ DOMAIN slices = 1 .. N
               /\ \A j \in 1 .. N :
                    /\ slices[j].lsa = (startLba \div B) + (j - 1)
                    /\ slices[j].offset = IF j = 1 THEN startLba % B ELSE 0
                    /\ slices[j].startIndex = Bound(startLba, j - 1)
                    /\ slices[j].startIndex + slices[j].num
                          = IF j = N THEN nlb + 1 ELSE Bound(startLba, j)
                    /\ slices[j].num \in Int
<1> DEFINE o == startLba % B
           a == startLba \div B
           L == Loop(startLba, nlb)
           z == (startLba + nlb + 1) % B
           N == Pieces(startLba, nlb)
           first  == FirstSlice(startLba, nlb)
           middle == MiddleSlices(startLba, nlb)
           last   == LastSlice(startLba, nlb)
           count  == IF L = 0 THEN 0 ELSE L - 1
           slices == Slices(startLba, nlb)
<1>1. B \in Nat /\ B > 0 /\ B = BlocksPerSlice
  BY BlocksPerSliceAssumption DEF B
<1>2. o \in 0 .. B - 1 /\ a \in Nat
  BY DivMod
<1>3. L \in Nat /\ o + nlb + 1 = L * B + z
  BY LoopExact
<1>4. z \in 0 .. B - 1
  <2>1. startLba + nlb + 1 \in Nat
    OBVIOUS
  <2> QED
    BY <2>1, DivMod
<1>5. /\ first = [lsa |-> a, offset |-> o, num |-> IF L # 0 THEN B - o ELSE nlb + 1,
                  startIndex |-> 0]
      /\ first \in SliceReq
  <2>1. first = [lsa |-> a, offset |-> o, num |-> IF L # 0 THEN B - o ELSE nlb + 1,
                 startIndex |-> 0]
    BY <1>1 DEF FirstSlice
  <2> HIDE DEF first, L
  <2> QED
    BY <1>1, <1>2, <1>3, <2>1 DEF SliceReq
<1>6. /\ middle \in Seq(SliceReq) /\ Len(middle) = count /\ count \in Nat
      /\ \A i \in 1 .. count : middle[i] = [lsa |-> a + i, offset |-> 0, num |-> B,
                                            startIndex |-> B - o + (i - 1) * B]
  <2> DEFINE e(i) == [lsa |-> first.lsa + i, offset |-> 0, num |-> BlocksPerSlice,
                      startIndex |-> first.num + (i - 1) * BlocksPerSlice]
  <2>1. middle = [i \in 1 .. count |-> e(i)]
    BY DEF MiddleSlices
  <2> HIDE DEF first, L, o, a, middle
  <2>2. count \in Nat
    BY <1>3
  <2>3. \A i \in 1 .. count : e(i) = [lsa |-> a + i, offset |-> 0, num |-> B,
                                      startIndex |-> B - o + (i - 1) * B]
    BY <1>1, <1>3, <1>5
  <2>4. \A i \in 1 .. count : e(i) \in SliceReq
    <3> TAKE i \in 1 .. count
    <3>1. a + i \in Int /\ B \in Int /\ B - o + (i - 1) * B \in Int
      BY <1>1, <1>2, <2>2
    <3>2. [lsa |-> a + i, offset |-> 0, num |-> B, startIndex |-> B - o + (i - 1) * B] \in SliceReq
      BY <3>1 DEF SliceReq
    <3> HIDE DEF e
    <3> QED
      BY <2>3, <3>2
  <2> HIDE DEF e, count
  <2>5. [i \in 1 .. count |-> e(i)] \in Seq(SliceReq) /\ Len([i \in 1 .. count |-> e(i)]) = count
    BY <2>2, <2>4
  <2> QED
    BY <2>1, <2>2, <2>3, <2>5
<1>7. /\ last \in Seq(SliceReq) /\ Len(last) = IF z = 0 \/ L = 0 THEN 0 ELSE 1
      /\ z # 0 /\ L # 0 => last[1] = [lsa |-> a + L, offset |-> 0, num |-> z,
                                      startIndex |-> B - o + (L - 1) * B]
  <2>1. last = IF z = 0 \/ L = 0 THEN << >>
               ELSE <<[lsa |-> first.lsa + L, offset |-> 0, num |-> z,
                       startIndex |-> first.num + (L - 1) * B]>>
    BY <1>1 DEF LastSlice
  <2> HIDE DEF first, L, o, a, z, last
  <2> DEFINE rec == [lsa |-> a + L, offset |-> 0, num |-> z,
                     startIndex |-> B - o + (L - 1) * B]
  <2>2. CASE z = 0 \/ L = 0
    BY <2>1, <2>2, EmptySeq
  <2>3. CASE z # 0 /\ L # 0
    <3>1. last = <<rec>>
      BY <1>5, <2>1, <2>3
    <3>2. rec \in SliceReq
      <4>1. a + L \in Int /\ z \in Int /\ B - o + (L - 1) * B \in Int
        BY <1>1, <1>2, <1>3, <1>4
      <4> QED
        BY <4>1 DEF SliceReq
    <3> HIDE DEF rec
    <3>3. last \in Seq(SliceReq) /\ Len(last) = 1 /\ last[1] = rec
      BY <3>1, <3>2
    <3> QED
      BY <2>3, <3>3 DEF rec
  <2> QED
    BY <2>2, <2>3
<1>8. N = 1 + count + Len(last)
  <2>1. N = IF L = 0 THEN 1 ELSE IF z = 0 THEN L ELSE L + 1
    BY DEF Pieces
  <2> HIDE DEF N, L, z, last
  <2> QED
    BY <1>3, <1>7, <2>1
<1>9. /\ slices \in Seq(SliceReq) /\ Len(slices) = N
      /\ slices[1] = first
      /\ \A i \in 1 .. count : slices[i + 1] = middle[i]
      /\ Len(last) = 1 => slices[N] = last[1]
  <2> DEFINE one == <<first>>
             two == one \o middle
  <2>1. one \in Seq(SliceReq) /\ Len(one) = 1 /\ one[1] = first
    BY <1>5
  <2>2. slices = two \o last
    BY DEF Slices
  <2> HIDE DEF one, first, middle, last, count, slices, N
  <2>3. /\ two \in Seq(SliceReq) /\ Len(two) = 1 + count
        /\ \A i \in 1 .. 1 + count : two[i] = IF i <= 1 THEN one[i] ELSE middle[i - 1]
    <3>1. /\ two \in Seq(SliceReq) /\ Len(two) = Len(one) + Len(middle)
          /\ \A i \in 1 .. Len(one) + Len(middle) :
                two[i] = IF i <= Len(one) THEN one[i] ELSE middle[i - Len(one)]
      BY <1>6, <2>1, ConcatProperties
    <3> QED
      BY <1>6, <2>1, <3>1
  <2> HIDE DEF two
  <2>4. /\ slices \in Seq(SliceReq) /\ Len(slices) = 1 + count + Len(last)
        /\ \A i \in 1 .. 1 + count + Len(last) :
              slices[i] = IF i <= 1 + count THEN two[i] ELSE last[i - (1 + count)]
    <3>1. /\ two \o last \in Seq(SliceReq) /\ Len(two \o last) = Len(two) + Len(last)
          /\ \A i \in 1 .. Len(two) + Len(last) :
                (two \o last)[i] = IF i <= Len(two) THEN two[i] ELSE last[i - Len(two)]
      BY <1>7, <2>3, ConcatProperties
    <3> QED
      BY <2>2, <2>3, <3>1
  <2>5. Len(last) \in Nat
    BY <1>7
  <2>6. slices[1] = first
    BY <1>6, <2>1, <2>3, <2>4, <2>5
  <2>7. ASSUME NEW i \in 1 .. count
        PROVE  slices[i + 1] = middle[i]
    <3>1. i + 1 \in 1 .. 1 + count /\ ~(i + 1 <= 1) /\ (i + 1) - 1 = i
      BY <1>6
    <3> QED
      BY <1>6, <2>3, <2>4, <2>5, <3>1
  <2>8. ASSUME Len(last) = 1
        PROVE  slices[N] = last[1]
    BY <1>6, <1>8, <2>4, <2>8
  <2> QED
    BY <1>8, <2>4, <2>6, <2>7, <2>8
<1>10. N \in Nat /\ N >= 1 /\ DOMAIN slices = 1 .. N /\ Len(last) \in {0, 1}
  <2> HIDE DEF slices, N, count, last
  <2> QED
    BY <1>6, <1>7, <1>8, <1>9, LenProperties
<1>11. ASSUME NEW j \in 1 .. N
       PROVE  /\ slices[j].lsa = a + (j - 1)
              /\ slices[j].offset = IF j = 1 THEN o ELSE 0
              /\ slices[j].startIndex = Bound(startLba, j - 1)
              /\ slices[j].startIndex + slices[j].num
                    = IF j = N THEN nlb + 1 ELSE Bound(startLba, j)
  <2>1. \A i \in Nat : Bound(startLba, i) = IF i = 0 THEN 0 ELSE i * B - o
    BY DEF Bound
  <2>2. j \in Nat /\ j >= 1 /\ j <= N
    BY <1>10
  <2>3. count = IF L = 0 THEN 0 ELSE L - 1
    OBVIOUS
  <2> HIDE DEF slices, N, count, last, first, middle, o, a, L, z
  <2>4. CASE j = 1
    <3>1. N = 1 => L = 0 \/ (L = 1 /\ z = 0)
      BY <1>3, <1>6, <1>7, <1>8, <1>10, <2>3
    <3>2. N # 1 => L # 0
      BY <1>3, <1>6, <1>7, <1>8, <1>10, <2>3
    <3>3. slices[1].num = IF L # 0 THEN B - o ELSE nlb + 1
      BY <1>5, <1>9
    <3>4. L = 1 /\ z = 0 => nlb + 1 = B - o
      BY <1>1, <1>2, <1>3
    <3>5. Bound(startLba, 0) = 0 /\ Bound(startLba, 1) = B - o
      BY <1>1, <1>2, <2>1
    <3>6. slices[1].startIndex = 0 /\ slices[1].lsa = a /\ slices[1].offset = o
      BY <1>5, <1>9
    <3>7. slices[1].startIndex + slices[1].num = IF N = 1 THEN nlb + 1 ELSE Bound(startLba, 1)
      BY <1>1, <1>2, <3>1, <3>2, <3>3, <3>4, <3>5, <3>6
    <3> QED
      BY <1>2, <2>4, <3>5, <3>6, <3>7
  <2>5. CASE j > 1 /\ j - 1 <= count
    <3> DEFINE i == j - 1
    <3>1. i \in 1 .. count /\ i + 1 = j /\ i \in Nat /\ i # 0
      BY <1>6, <2>2, <2>5
    <3>2. slices[j] = [lsa |-> a + i, offset |-> 0, num |-> B, startIndex |-> B - o + (i - 1) * B]
      BY <1>6, <1>9, <3>1
    <3>3. (i - 1) * B = i * B - B /\ i * B \in Nat /\ j * B = i * B + B
      BY <1>1, <3>1
    <3>4. Bound(startLba, i) = i * B - o /\ Bound(startLba, j) = j * B - o
      BY <2>1, <2>2, <2>5, <3>1
    <3> HIDE DEF i
    <3>5. slices[j].startIndex = i * B - o /\ slices[j].startIndex + slices[j].num = j * B - o
      <4> DEFINE p == i * B
                 q == (i - 1) * B
      <4>1. q = p - B /\ p \in Nat /\ j * B = p + B /\ slices[j].startIndex = B - o + q
        BY <3>2, <3>3
      <4>2. slices[j].num = B
        BY <3>2
      <4> HIDE DEF p, q
      <4>3. slices[j].startIndex = p - o /\ slices[j].startIndex + slices[j].num = j * B - o
        BY <1>1, <1>2, <4>1, <4>2
      <4> QED
        BY <4>3 DEF p
    <3>6. j = N => j = L /\ z = 0
      BY <1>3, <1>6, <1>7, <1>8, <1>10, <2>3, <3>1
    <3>7. j = N => nlb + 1 = j * B - o
      BY <1>1, <1>2, <1>3, <3>6
    <3> QED
      BY <2>5, <3>2, <3>4, <3>5, <3>7 DEF i
  <2>6. CASE j - 1 > count
    <3>1. Len(last) = 1 /\ j = N /\ L # 0 /\ z # 0 /\ j = L + 1 /\ j # 1
      BY <1>3, <1>6, <1>7, <1>8, <1>10, <2>2, <2>3, <2>6
    <3>2. slices[j] = [lsa |-> a + L, offset |-> 0, num |-> z, startIndex |-> B - o + (L - 1) * B]
      BY <1>7, <1>9, <3>1
    <3>3. (L - 1) * B = L * B - B /\ L * B \in Nat
      BY <1>1, <1>3
    <3>4. Bound(startLba, j - 1) = L * B - o
      BY <1>3, <2>1, <3>1
    <3>5. slices[j].startIndex = L * B - o /\ slices[j].startIndex + slices[j].num = nlb + 1
      BY <1>1, <1>2, <1>3, <1>4, <3>2, <3>3
    <3> QED
      BY <1>3, <3>1, <3>2, <3>4, <3>5
  <2> QED
    BY <1>6, <2>2, <2>4, <2>5, <2>6
<1>12. \A j \in 1 .. N : slices[j].num \in Int
  <2> TAKE j \in 1 .. N
  <2> HIDE DEF slices, N
  <2>1. slices[j] \in SliceReq
    BY <1>9, ElementOfSeq
  <2> QED
    BY <2>1 DEF SliceReq
<1> QED
  BY <1>10, <1>11, <1>12

\* Every block of a command is carried by exactly one of its slice requests, to its
\* own place in its own slice, and no slice request leaves its slice or the PRP list
\* of the command: for every range and every slice size (ReqTransNvmeToSlice).
THEOREM SplitIsAlwaysExact ==
    \A startLba, nlb \in Nat : SplitIsExact(startLba, nlb)
<1> TAKE startLba, nlb \in Nat
<1> DEFINE o == startLba % B
           a == startLba \div B
           N == Pieces(startLba, nlb)
           L == Loop(startLba, nlb)
           z == (startLba + nlb + 1) % B
           slices == Slices(startLba, nlb)
           From(j) == Bound(startLba, j - 1)
           To(j)   == IF j = N THEN nlb + 1 ELSE Bound(startLba, j)
<1>1. B \in Nat /\ B > 0 /\ B = BlocksPerSlice
  BY BlocksPerSliceAssumption DEF B
<1>2. o \in 0 .. B - 1 /\ a \in Nat /\ startLba = a * B + o
  BY DivMod
<1>3. L \in Nat /\ o + nlb + 1 = L * B + z
  BY LoopExact
<1>4. z \in 0 .. B - 1
  <2>1. startLba + nlb + 1 \in Nat
    OBVIOUS
  <2> QED
    BY <2>1, DivMod
<1>5. N = IF L = 0 THEN 1 ELSE IF z = 0 THEN L ELSE L + 1
  BY DEF Pieces
<1>6. /\ N \in Nat /\ N >= 1 /\ DOMAIN slices = 1 .. N
      /\ \A j \in 1 .. N : /\ slices[j].lsa = a + (j - 1)
                           /\ slices[j].offset = IF j = 1 THEN o ELSE 0
                           /\ slices[j].startIndex = From(j)
                           /\ slices[j].startIndex + slices[j].num = To(j)
                           /\ slices[j].num \in Int
  BY SlicesShape
<1>7. \A j \in Nat : Bound(startLba, j) = IF j = 0 THEN 0 ELSE j * B - o
  BY DEF Bound
<1> HIDE DEF o, a, N, L, z, slices
<1>8. \A i, j \in Nat : i < j => (i + 1) * B <= j * B
  BY Rows
<1>9. \A i \in Nat : i * B \in Nat /\ (i + 1) * B = i * B + B
  BY <1>1
\* The command ends in its last slice, and reaches it.
<1>10. o + nlb + 1 <= N * B /\ (N - 1) * B < o + nlb + 1
  <2>1. CASE L = 0
    BY <1>1, <1>2, <1>3, <1>4, <1>5, <2>1
  <2>2. CASE L # 0 /\ z = 0
    <3>1. (L - 1) * B = L * B - B
      BY <1>1, <1>3
    <3> QED
      BY <1>1, <1>2, <1>3, <1>5, <1>9, <2>2, <3>1
  <2>3. CASE L # 0 /\ z # 0
    <3>1. (L + 1) * B = L * B + B
      BY <1>3, <1>9
    <3> QED
      BY <1>1, <1>2, <1>3, <1>4, <1>5, <1>9, <2>3, <3>1
  <2> QED
    BY <2>1, <2>2, <2>3
\* What the j-th slice request covers.
<1>11. ASSUME NEW j \in 1 .. N
       PROVE  /\ From(j) \in Nat /\ To(j) \in Nat
              /\ (j - 1) * B - o <= From(j) /\ To(j) <= j * B - o
              /\ From(j) < To(j) /\ To(j) <= nlb + 1
              /\ From(j) = IF j = 1 THEN 0 ELSE (j - 1) * B - o
              /\ To(j) = IF j = N THEN nlb + 1 ELSE j * B - o
  <2>1. /\ j \in Nat /\ j - 1 \in Nat /\ j * B = (j - 1) * B + B /\ (j - 1) * B \in Nat
    <3>1. j \in Nat /\ j - 1 \in Nat /\ (j - 1) + 1 = j
      BY <1>6
    <3> QED
      BY <1>9, <3>1
  <2>2. From(j) = IF j = 1 THEN 0 ELSE (j - 1) * B - o
    BY <1>7, <2>1
  <2>3. j # 1 => (j - 1) * B >= B
    <3>1. j # 1 => 0 < j - 1
      BY <2>1
    <3>2. (0 + 1) * B = B
      BY <1>1
    <3> QED
      BY <1>8, <2>1, <3>1, <3>2
  <2>4. CASE j = N
    BY <1>1, <1>2, <1>10, <2>1, <2>2, <2>3, <2>4
  <2>5. CASE j # N
    <3>1. To(j) = j * B - o
      BY <1>7, <2>1, <2>5
    <3>2. j - 1 < N - 1 /\ N - 1 \in Nat
      BY <1>6, <2>1, <2>5
    <3>3. ((j - 1) + 1) * B <= (N - 1) * B
      BY <1>8, <2>1, <3>2
    <3>4. j * B <= (N - 1) * B
      BY <2>1, <3>3
    <3>5. (N - 1) * B \in Nat
      BY <1>9, <3>2
    <3> QED
      BY <1>1, <1>2, <1>10, <2>1, <2>2, <2>3, <3>1, <3>4, <3>5
  <2> QED
    BY <2>4, <2>5
<1>12. \A i \in 1 .. N : /\ slices[i].num >= 1
                         /\ slices[i].offset + slices[i].num <= B
                         /\ slices[i].startIndex + slices[i].num <= nlb + 1
  <2> TAKE i \in 1 .. N
  <2> DEFINE f == From(i)
             t == To(i)
             p == (i - 1) * B
             d == slices[i].offset
  <2>1. slices[i].startIndex = f /\ slices[i].startIndex + slices[i].num = t
    BY <1>6
  <2>2. /\ f \in Nat /\ t \in Nat /\ p - o <= f /\ t <= i * B - o /\ f < t /\ t <= nlb + 1
        /\ f = IF i = 1 THEN 0 ELSE p - o
    BY <1>11
  <2>3. i * B = p + B /\ p \in Nat /\ (i = 1 => p = 0)
    <3>1. i - 1 \in Nat /\ (i - 1) + 1 = i
      BY <1>6
    <3>2. 0 * B = 0
      BY <1>1
    <3> QED
      BY <1>9, <3>1, <3>2
  <2>4. d = IF i = 1 THEN o ELSE 0
    BY <1>6
  <2>5. slices[i].num \in Int
    BY <1>6
  <2> HIDE DEF f, t, p, d
  <2>6. slices[i].num = t - f
    BY <2>1, <2>2, <2>5
  <2> QED
    BY <1>1, <1>2, <2>1, <2>2, <2>3, <2>4, <2>6 DEF d
<1>13. ASSUME NEW k \in 0 .. nlb
       PROVE  \E i \in 1 .. N :
                  /\ Carries(slices[i], startLba, k)
                  /\ \A j \in (1 .. N) \ {i} :
                        k \notin slices[j].startIndex .. slices[j].startIndex + slices[j].num - 1
  <2> DEFINE x == o + k
             q == x \div B
             i == q + 1
             p == q * B
  <2>1. x \in Nat /\ k \in Nat /\ k <= nlb
    BY <1>1, <1>2
  <2>2. q \in Nat /\ x % B \in 0 .. B - 1 /\ x = p + (x % B)
    BY <2>1, DivMod
  <2>3. p \in Nat /\ i * B = p + B /\ i - 1 = q
    BY <1>9, <2>2
  <2>4. p - o <= k /\ k < i * B - o
    <3> HIDE DEF p, q, i
    <3> QED
      BY <1>1, <1>2, <2>1, <2>2, <2>3
  <2> HIDE DEF p, q, x
  <2>5. q < N
    <3> SUFFICES ASSUME N <= q PROVE FALSE
      BY <1>6, <2>2
    <3>1. N * B <= p
      <4>1. N * B \in Nat /\ (N < q => (N + 1) * B <= p)
        BY <1>6, <1>8, <1>9, <2>2 DEF p
      <4>2. (N + 1) * B = N * B + B
        BY <1>6, <1>9
      <4>3. N = q => N * B = p
        BY DEF p
      <4> QED
        BY <1>1, <1>6, <2>2, <2>3, <4>1, <4>2, <4>3
    <3>2. N * B \in Nat
      BY <1>6, <1>9
    <3> QED
      BY <1>1, <1>2, <1>10, <2>1, <2>3, <2>4, <3>1, <3>2
  <2>6. i \in 1 .. N
    BY <1>6, <2>2, <2>5
  <2>7. /\ From(i) = IF i = 1 THEN 0 ELSE p - o
        /\ To(i) = IF i = N THEN nlb + 1 ELSE i * B - o
        /\ slices[i].startIndex = From(i) /\ slices[i].startIndex + slices[i].num = To(i)
        /\ slices[i].lsa = a + q /\ slices[i].offset = IF i = 1 THEN o ELSE 0
    BY <1>6, <1>11, <2>3, <2>6 DEF p
  <2>8. Carries(slices[i], startLba, k)
    <3>1. k \in slices[i].startIndex .. slices[i].startIndex + slices[i].num - 1
      <4>1. From(i) \in Nat /\ To(i) \in Nat /\ From(i) <= k /\ k <= To(i) - 1
        <5>1. From(i) \in Nat /\ To(i) \in Nat
          BY <1>11, <2>6
        <5>2. From(i) <= k
          BY <2>1, <2>4, <2>7
        <5>3. i * B - o \in Int
          BY <1>1, <1>2, <2>3
        <5>4. k <= To(i) - 1
          BY <2>1, <2>4, <2>7, <5>3
        <5> QED
          BY <5>1, <5>2, <5>4
      <4>2. slices[i].startIndex = From(i) /\ slices[i].startIndex + slices[i].num - 1 = To(i) - 1
        BY <1>6, <2>6, <2>7, <4>1, SMTT(30)
      <4>3. k \in From(i) .. To(i) - 1
        BY <2>1, <4>1
      <4> HIDE DEF From, To, i
      <4> QED
        BY <4>2, <4>3
    <3>2. slices[i].lsa * B + slices[i].offset + (k - slices[i].startIndex) = startLba + k
      <4> DEFINE v == a * B
      <4>1. (a + q) * B = v + p /\ v \in Nat
        BY <1>1, <1>2, <2>2 DEF p
      <4>2. i = 1 => p = 0
        BY <1>1, <2>2, <2>3 DEF p
      <4>3. startLba = v + o
        BY <1>2
      <4>4. slices[i].lsa * B = v + p
        BY <2>7, <4>1
      <4>5. slices[i].offset - slices[i].startIndex = o - p
        BY <1>2, <2>3, <2>7, <4>2
      <4>6. slices[i].offset \in Int /\ slices[i].startIndex \in Int
        BY <1>2, <2>3, <2>7
      <4> HIDE DEF v, i
      <4> QED
        BY <1>2, <2>1, <2>3, <4>1, <4>3, <4>4, <4>5, <4>6
    <3> QED
      BY <1>1, <3>1, <3>2 DEF Carries
  <2>9. ASSUME NEW j \in (1 .. N) \ {i}
        PROVE  k \notin slices[j].startIndex .. slices[j].startIndex + slices[j].num - 1
    <3>1. /\ slices[j].startIndex = From(j) /\ slices[j].startIndex + slices[j].num = To(j)
          /\ (j - 1) * B - o <= From(j) /\ To(j) <= j * B - o
          /\ From(j) \in Nat /\ To(j) \in Nat
      BY <1>6, <1>11
    <3>2. j \in Nat /\ j - 1 \in Nat /\ (j - 1) + 1 = j
      BY <1>6
    <3>3. (j - 1) * B \in Nat /\ j * B \in Nat
      BY <1>9, <3>2
    <3>4. CASE j < i
      <4>1. j * B <= p
        <5>1. j - 1 < q
          BY <2>2, <2>3, <3>2, <3>4
        <5>2. ((j - 1) + 1) * B <= q * B
          BY <1>8, <2>2, <3>2, <5>1
        <5> QED
          BY <3>2, <5>2 DEF p
      <4>2. To(j) <= k
        BY <1>2, <2>1, <2>3, <2>4, <3>1, <3>3, <4>1
      <4>3. slices[j].startIndex = From(j) /\ slices[j].startIndex + slices[j].num - 1 = To(j) - 1
        BY <1>6, <3>1
      <4>4. k \notin From(j) .. To(j) - 1
        BY <2>1, <3>1, <4>2
      <4> HIDE DEF From, To
      <4> QED
        BY <4>3, <4>4
    <3>5. CASE i < j
      <4>1. i * B <= (j - 1) * B
        <5>1. q < j - 1
          BY <2>2, <2>3, <3>2, <3>5
        <5>2. (q + 1) * B <= (j - 1) * B
          BY <1>8, <2>2, <3>2, <5>1
        <5> QED
          BY <5>2
      <4>2. k < From(j)
        BY <1>1, <1>2, <2>1, <2>3, <2>4, <3>1, <3>3, <4>1
      <4> QED
        BY <2>1, <3>1, <4>2
    <3> QED
      BY <2>6, <3>2, <3>4, <3>5
  <2> QED
    BY <2>6, <2>8, <2>9
<1> QED
  <2>1. SplitIsExact(startLba, nlb) <=>
            /\ \A k \in 0 .. nlb :
                  \E i \in 1 .. N :
                      /\ Carries(slices[i], startLba, k)
                      /\ \A j \in (1 .. N) \ {i} :
                            k \notin slices[j].startIndex .. slices[j].startIndex + slices[j].num - 1
            /\ \A i \in 1 .. N :
                  /\ slices[i].num >= 1
                  /\ slices[i].offset + slices[i].num <= BlocksPerSlice
                  /\ slices[i].startIndex + slices[i].num <= nlb + 1
    BY <1>6 DEF SplitIsExact, slices
  <2> QED
    BY <1>1, <1>12, <1>13, <2>1
============================================================================
