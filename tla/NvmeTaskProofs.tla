--------------------------- MODULE NvmeTaskProofs ---------------------------
(***************************************************************************)
(* SessionsSound and ReadyIsServed of NvmeTask, for any set of I/O queues, *)
(* any reset limit and any number of host events.                          *)
(*                                                                         *)
(* Interrupts fall between any two stores of a branch of the main loop, so *)
(* the invariant is about the stores that are still to come (rest): what   *)
(* they can be, in which order, and that what a branch is to undo is       *)
(* undone or still pending.                                                *)
(***************************************************************************)
EXTENDS NvmeTask, SequenceTheorems, TLAPS

EnableStores == {"adminOn", "rdy1", "toRunning"}

ShutdownStores ==
    {"shst1", "ioOff", "adminOff", "cacheOff", "shst2", "toWaitReset", "saveBbt"}

\* Of the two branches that end in NVME_TASK_IDLE.
ResetStores == {"ioOff", "asyncReset", "cacheOff", "adminOff", "shst0", "rdy0", "toIdle"}

Stores == EnableStores \cup ShutdownStores \cup ResetStores

Pends(r, w) == \E i \in 1 .. Len(r) : r[i] = w

\* A branch is known by its last store.
Ends(r, w) == r # << >> /\ r[Len(r)] = w

Within(r, S) == \A i \in 1 .. Len(r) : r[i] \in S

\* What is left of a branch: the stores of one branch only, its last store last,
\* and nothing that could undo RDY or the queues after the store that relies on it.
Shape(r) ==
    /\ r \in Seq(Stores)
    /\ r # << >> => \/ Ends(r, "toRunning") /\ Within(r, EnableStores)
                    \/ Ends(r, "saveBbt") /\ Within(r, ShutdownStores)
                    \/ Ends(r, "toIdle") /\ Within(r, ResetStores)
    /\ \A i \in 1 .. Len(r) :
          /\ r[i] \in {"toRunning", "saveBbt", "toIdle"} => i = Len(r)
          /\ r[i] \in {"rdy0", "toWaitReset"} => i + 1 = Len(r)
    /\ Pends(r, "asyncReset") => Pends(r, "rdy0")

-----------------------------------------------------------------------------

\* The branches have the shape from the start.
LEMMA BranchShapes ==
    /\ Shape(EnableBranch) /\ Ends(EnableBranch, "toRunning")
    /\ Pends(EnableBranch, "adminOn") /\ Pends(EnableBranch, "rdy1")
    /\ Shape(ShutdownBranch) /\ Ends(ShutdownBranch, "saveBbt")
    /\ \A w \in {"ioOff", "adminOff", "cacheOff"} : Pends(ShutdownBranch, w)
    /\ Shape(DisableBranch) /\ Ends(DisableBranch, "toIdle")
    /\ \A w \in {"cacheOff", "rdy0"} : Pends(DisableBranch, w)
    /\ Shape(ResetBranch) /\ Ends(ResetBranch, "toIdle")
    /\ \A w \in {"ioOff", "adminOff", "cacheOff", "rdy0"} : Pends(ResetBranch, w)
<1>1. /\ Shape(EnableBranch) /\ Ends(EnableBranch, "toRunning")
      /\ Pends(EnableBranch, "adminOn") /\ Pends(EnableBranch, "rdy1")
  BY DEF Shape, Ends, Pends, Within, Stores, EnableStores, ShutdownStores, ResetStores, EnableBranch
<1>2. Shape(ShutdownBranch) /\ Ends(ShutdownBranch, "saveBbt")
  BY DEF Shape, Ends, Pends, Within, Stores, EnableStores, ShutdownStores, ResetStores, ShutdownBranch
<1>3. \A w \in {"ioOff", "adminOff", "cacheOff"} : Pends(ShutdownBranch, w)
  BY DEF Pends, ShutdownBranch
<1>4. Shape(DisableBranch) /\ Ends(DisableBranch, "toIdle")
  BY DEF Shape, Ends, Pends, Within, Stores, EnableStores, ShutdownStores, ResetStores, DisableBranch
<1>5. \A w \in {"cacheOff", "rdy0"} : Pends(DisableBranch, w)
  BY DEF Pends, DisableBranch
<1>6. ResetBranch \in {<<"ioOff", "cacheOff", "adminOff", "shst0", "rdy0", "toIdle">>,
                       <<"ioOff", "asyncReset", "cacheOff", "adminOff", "shst0", "rdy0", "toIdle">>}
  <2> DEFINE five == <<"cacheOff", "adminOff", "shst0", "rdy0", "toIdle">>
  <2>1. /\ five \in Seq(Stores) /\ <<"ioOff">> \in Seq(Stores) /\ <<"asyncReset">> \in Seq(Stores)
        /\ << >> \in Seq(Stores) /\ <<"ioOff", "asyncReset">> \in Seq(Stores)
    BY DEF Stores, ResetStores
  <2>2. <<"ioOff">> \o << >> = <<"ioOff">>
    BY <2>1, ConcatEmptySeq
  <2>3. <<"ioOff">> \o <<"asyncReset">>
          = <<"ioOff", "asyncReset">>
    <3> DEFINE c == <<"ioOff">> \o <<"asyncReset">>
    <3>1. /\ c \in Seq(Stores) /\ Len(c) = 2
          /\ \A i \in 1 .. 2 : c[i] = IF i <= 1 THEN <<"ioOff">>[i] ELSE <<"asyncReset">>[i - 1]
      BY <2>1, ConcatProperties
    <3>2. /\ c[1] = "ioOff" /\ c[2] = "asyncReset"
      BY <3>1
    <3> HIDE DEF c
    <3>3. c = <<"ioOff", "asyncReset">>
      BY <3>1, <3>2
    <3> QED
      BY <3>3 DEF c
  <2>4. <<"ioOff">> \o five
          = <<"ioOff", "cacheOff", "adminOff", "shst0", "rdy0", "toIdle">>
    <3> DEFINE c == <<"ioOff">> \o five
    <3>1. /\ c \in Seq(Stores) /\ Len(c) = 6
          /\ \A i \in 1 .. 6 : c[i] = IF i <= 1 THEN <<"ioOff">>[i] ELSE five[i - 1]
      BY <2>1, ConcatProperties
    <3>2. /\ c[1] = "ioOff" /\ c[2] = "cacheOff" /\ c[3] = "adminOff" /\ c[4] = "shst0"
            /\ c[5] = "rdy0" /\ c[6] = "toIdle"
      BY <3>1
    <3> HIDE DEF c
    <3>3. c = <<"ioOff", "cacheOff", "adminOff", "shst0", "rdy0", "toIdle">>
      BY <3>1, <3>2
    <3> QED
      BY <3>3 DEF c
  <2>5. <<"ioOff", "asyncReset">> \o five
          = <<"ioOff", "asyncReset", "cacheOff", "adminOff", "shst0", "rdy0", "toIdle">>
    <3> DEFINE c == <<"ioOff", "asyncReset">> \o five
    <3>1. /\ c \in Seq(Stores) /\ Len(c) = 7
          /\ \A i \in 1 .. 7 : c[i] = IF i <= 2 THEN <<"ioOff", "asyncReset">>[i] ELSE five[i - 2]
      BY <2>1, ConcatProperties
    <3>2. /\ c[1] = "ioOff" /\ c[2] = "asyncReset" /\ c[3] = "cacheOff" /\ c[4] = "adminOff"
            /\ c[5] = "shst0" /\ c[6] = "rdy0" /\ c[7] = "toIdle"
      BY <3>1
    <3> HIDE DEF c
    <3>3. c = <<"ioOff", "asyncReset", "cacheOff", "adminOff", "shst0", "rdy0", "toIdle">>
      BY <3>1, <3>2
    <3> QED
      BY <3>3 DEF c
  <2> QED
    BY <2>2, <2>3, <2>4, <2>5 DEF ResetBranch
<1>7. Shape(ResetBranch) /\ Ends(ResetBranch, "toIdle")
  <2>1. CASE ResetBranch = <<"ioOff", "cacheOff", "adminOff", "shst0", "rdy0", "toIdle">>
    BY <2>1 DEF Shape, Ends, Pends, Within, Stores, EnableStores, ShutdownStores, ResetStores
  <2>2. CASE ResetBranch
               = <<"ioOff", "asyncReset", "cacheOff", "adminOff", "shst0", "rdy0", "toIdle">>
    BY <2>2 DEF Shape, Ends, Pends, Within, Stores, EnableStores, ShutdownStores, ResetStores
  <2> QED
    BY <1>6, <2>1, <2>2
<1>8. \A w \in {"ioOff", "adminOff", "cacheOff", "rdy0"} : Pends(ResetBranch, w)
  BY <1>6 DEF Pends
<1> QED
  BY <1>1, <1>2, <1>3, <1>4, <1>5, <1>7, <1>8

\* One store is made: what is left has the shape, ends as before and lacks
\* nothing but the store just made.
LEMMA TailShape ==
    ASSUME NEW r, Shape(r), r # << >>
    PROVE  /\ Shape(Tail(r)) /\ Head(r) \in Stores
           /\ \A w : Pends(r, w) => Head(r) = w \/ Pends(Tail(r), w)
           /\ \A w : Ends(Tail(r), w) => Ends(r, w)
           /\ Ends(r, "toRunning") => Head(r) \in EnableStores
           /\ Ends(r, "saveBbt") => Head(r) \in ShutdownStores
           /\ Ends(r, "toIdle") => Head(r) \in ResetStores
           /\ Head(r) \in {"toRunning", "saveBbt", "toIdle"} <=> Tail(r) = << >>
           /\ Head(r) \in {"toRunning", "saveBbt", "toIdle"} => Ends(r, Head(r))
           /\ Head(r) \in {"rdy0", "toWaitReset"} => \A w : Pends(Tail(r), w) => Ends(r, w)
           /\ Head(r) = "asyncReset" => Pends(Tail(r), "rdy0")
<1>1. /\ r \in Seq(Stores) /\ Len(r) \in Nat \ {0} /\ Head(r) = r[1] /\ Tail(r) \in Seq(Stores)
      /\ Len(Tail(r)) = Len(r) - 1 /\ \A i \in 1 .. Len(r) - 1 : Tail(r)[i] = r[i + 1]
      /\ \A i \in 1 .. Len(r) : r[i] \in Stores
      /\ Tail(r) = << >> <=> Len(r) = 1
  <2>1. r \in Seq(Stores)
    BY DEF Shape
  <2>2. Len(r) \in Nat \ {0} /\ Head(r) = r[1] /\ Tail(r) \in Seq(Stores)
    BY <2>1
  <2>3. Len(Tail(r)) = Len(r) - 1 /\ \A i \in 1 .. Len(r) - 1 : Tail(r)[i] = r[i + 1]
    BY <2>1, <2>2
  <2>4. \A i \in 1 .. Len(r) : r[i] \in Stores
    BY <2>1
  <2>5. Tail(r) = << >> <=> Len(Tail(r)) = 0
    BY <2>2, EmptySeq
  <2> QED
    BY <2>1, <2>2, <2>3, <2>4, <2>5
<1>2. \A w : Pends(r, w) => Head(r) = w \/ Pends(Tail(r), w)
  <2> SUFFICES ASSUME NEW w, NEW i \in 1 .. Len(r), r[i] = w, Head(r) # w
               PROVE  Pends(Tail(r), w)
    BY DEF Pends
  <2>1. i - 1 \in 1 .. Len(Tail(r)) /\ Tail(r)[i - 1] = w
    BY <1>1
  <2> QED
    BY <2>1 DEF Pends
<1>3. \A w : Ends(Tail(r), w) => Ends(r, w)
  BY <1>1 DEF Ends
<1>4. \A w : Pends(Tail(r), w) => Pends(r, w)
  <2> SUFFICES ASSUME NEW w, NEW i \in 1 .. Len(Tail(r)), Tail(r)[i] = w
               PROVE  Pends(r, w)
    BY DEF Pends
  <2>1. i + 1 \in 1 .. Len(r) /\ r[i + 1] = w
    BY <1>1
  <2> QED
    BY <2>1 DEF Pends
<1>5. /\ Ends(r, "toRunning") => Within(r, EnableStores)
      /\ Ends(r, "saveBbt") => Within(r, ShutdownStores)
      /\ Ends(r, "toIdle") => Within(r, ResetStores)
  BY DEF Shape, Ends
<1>6. /\ Ends(r, "toRunning") => Head(r) \in EnableStores
      /\ Ends(r, "saveBbt") => Head(r) \in ShutdownStores
      /\ Ends(r, "toIdle") => Head(r) \in ResetStores
  BY <1>1, <1>5 DEF Within
<1>7. \A S : Within(r, S) => Within(Tail(r), S)
  BY <1>1 DEF Within
<1>8. r[Len(r)] \in {"toRunning", "saveBbt", "toIdle"}
  BY DEF Shape, Ends
<1>9. /\ Head(r) \in {"toRunning", "saveBbt", "toIdle"} <=> Tail(r) = << >>
      /\ Head(r) \in {"toRunning", "saveBbt", "toIdle"} => Ends(r, Head(r))
  <2>1. 1 \in 1 .. Len(r)
    BY <1>1
  <2>2. r[1] \in {"toRunning", "saveBbt", "toIdle"} => 1 = Len(r)
    BY <2>1 DEF Shape
  <2> QED
    BY <1>1, <1>8, <2>2 DEF Ends
<1>10. ASSUME Head(r) \in {"rdy0", "toWaitReset"}, NEW w, Pends(Tail(r), w)
       PROVE  Ends(r, w)
  <2>1. Len(r) = 2
    <3>1. 1 \in 1 .. Len(r) /\ r[1] \in {"rdy0", "toWaitReset"}
      BY <1>1, <1>10
    <3>2. 1 + 1 = Len(r)
      BY <3>1 DEF Shape
    <3> QED
      BY <3>2
  <2>2. PICK i \in 1 .. Len(Tail(r)) : Tail(r)[i] = w
    BY <1>10 DEF Pends
  <2>3. i = 1 /\ Tail(r)[1] = r[2]
    BY <2>1, <1>1
  <2> QED
    BY <2>1, <2>2, <2>3 DEF Ends
<1>11. Head(r) = "asyncReset" => Pends(Tail(r), "rdy0")
  <2> SUFFICES ASSUME Head(r) = "asyncReset" PROVE Pends(Tail(r), "rdy0")
    OBVIOUS
  <2>1. Pends(r, "asyncReset")
    BY <1>1 DEF Pends
  <2> QED
    BY <2>1, <1>2 DEF Shape
<1>12. Tail(r) # << >> => \A w : Ends(r, w) => Ends(Tail(r), w)
  BY <1>1 DEF Ends
<1>13. Pends(Tail(r), "asyncReset") => Pends(Tail(r), "rdy0")
  <2> SUFFICES ASSUME Pends(Tail(r), "asyncReset") PROVE Pends(Tail(r), "rdy0")
    OBVIOUS
  <2>1. Pends(r, "rdy0")
    BY <1>4 DEF Shape
  <2>2. Head(r) # "rdy0"
    <3> SUFFICES ASSUME Head(r) = "rdy0" PROVE FALSE
      OBVIOUS
    <3>1. Ends(r, "asyncReset")
      BY <1>10
    <3> QED
      BY <3>1, <1>8 DEF Ends
  <2> QED
    BY <2>1, <2>2, <1>2
<1>14. \A i \in 1 .. Len(Tail(r)) :
          /\ Tail(r)[i] \in {"toRunning", "saveBbt", "toIdle"} => i = Len(Tail(r))
          /\ Tail(r)[i] \in {"rdy0", "toWaitReset"} => i + 1 = Len(Tail(r))
  <2> TAKE i \in 1 .. Len(Tail(r))
  <2>1. i + 1 \in 1 .. Len(r) /\ Tail(r)[i] = r[i + 1] /\ i \in Nat
    BY <1>1
  <2>2. /\ r[i + 1] \in {"toRunning", "saveBbt", "toIdle"} => i + 1 = Len(r)
        /\ r[i + 1] \in {"rdy0", "toWaitReset"} => i + 1 + 1 = Len(r)
    BY <2>1 DEF Shape
  <2> QED
    <3> DEFINE x == r[i + 1]
               n == Len(r)
    <3>1. Tail(r)[i] = x /\ Len(Tail(r)) = n - 1 /\ n \in Nat
      BY <1>1, <2>1
    <3>2. /\ x \in {"toRunning", "saveBbt", "toIdle"} => i + 1 = n
          /\ x \in {"rdy0", "toWaitReset"} => i + 1 + 1 = n
      BY <2>2
    <3> HIDE DEF x, n
    <3> QED
      BY <2>1, <3>1, <3>2
<1>15. Shape(Tail(r))
  <2>1. Tail(r) # << >> => \/ Ends(Tail(r), "toRunning") /\ Within(Tail(r), EnableStores)
                           \/ Ends(Tail(r), "saveBbt") /\ Within(Tail(r), ShutdownStores)
                           \/ Ends(Tail(r), "toIdle") /\ Within(Tail(r), ResetStores)
    BY <1>7, <1>12 DEF Shape
  <2> QED
    BY <2>1, <1>1, <1>13, <1>14 DEF Shape
<1> QED
  BY <1>1, <1>2, <1>3, <1>6, <1>9, <1>10, <1>11, <1>15
-----------------------------------------------------------------------------

Enabling     == Ends(rest, "toRunning")
ShuttingDown == Ends(rest, "saveBbt")
Resetting    == Ends(rest, "toIdle")

\* A branch never runs under NVME_TASK_RUNNING, whatever the interrupts have made
\* of the status it began with; and the state from which the controller is only
\* disabled has no queue left.
StatusInBranch ==
    /\ rest # << >> => task.status # "RUNNING"
    /\ Enabling => task.status \in {"WAIT_CC_EN", "SHUTDOWN", "RESET"}
    /\ task.status = "WAIT_RESET" => ~reg.adm /\ reg.sq = {} /\ reg.cq = {}

\* What a branch is to do is done or still pending.
StoresDone ==
    /\ Enabling => /\ Pends(rest, "adminOn") \/ reg.adm
                   /\ Pends(rest, "rdy1") \/ reg.rdy = 1
    /\ ShuttingDown \/ Resetting =>
          /\ Pends(rest, "ioOff") \/ (reg.sq = {} /\ reg.cq = {})
          /\ Pends(rest, "adminOff") \/ ~reg.adm
          /\ Pends(rest, "cacheOff") \/ task.cacheEn = 0
    /\ Resetting => Pends(rest, "rdy0") \/ reg.rdy = 0

IInv == SessionsSound /\ Shape(rest) /\ StatusInBranch /\ StoresDone

LEMMA EmptyBranch ==
    ASSUME NEW w
    PROVE  ~Pends(<< >>, w) /\ ~Ends(<< >>, w) /\ Shape(<< >>)
  BY EmptySeq DEF Pends, Ends, Shape

LEMMA IInvInit == Init => IInv
<1> SUFFICES ASSUME Init PROVE IInv
  OBVIOUS
<1>1. TypeOK
  <2>1. 0 \in 0 .. RstLimit /\ 0 \in 0 .. MaxEvents
    BY NvmeAssumption
  <2>2. task \in [status : Status, cacheEn : {0, 1}, rstCnt : 0 .. RstLimit]
    BY <2>1 DEF Init, Status
  <2>3. reg \in [ccEn : {0, 1}, ccShn : {0, 1}, rdy : {0, 1}, shst : 0 .. 2,
                adm : BOOLEAN, sq : SUBSET Queues, cq : SUBSET Queues]
    BY DEF Init
  <2>4. host \in [link : BOOLEAN, fresh : BOOLEAN, events : 0 .. MaxEvents,
                 lags : BOOLEAN, steady : BOOLEAN]
    BY <2>1 DEF Init
  <2>5. work \in [io : Nat, custom : {"none", "busy", "done"}, behind : BOOLEAN]
    BY DEF Init
  <2> QED
    BY <2>2, <2>3, <2>4, <2>5 DEF Init, TypeOK
<1>2. RunningIsReady /\ NothingOutlivesReset
  BY DEF Init, RunningIsReady, NothingOutlivesReset
<1>3. Shape(rest) /\ StatusInBranch /\ StoresDone
  BY EmptyBranch DEF Init, StatusInBranch, StoresDone, Enabling, ShuttingDown, Resetting
<1> QED
  BY <1>1, <1>2, <1>3 DEF IInv, SessionsSound

\* What one store changes: at most one field of the registers or of the task, but
\* for pcie_async_reset, which leaves RDY and SHST to chance.
LEMMA StoreEffect ==
    ASSUME TypeOK, Shape(rest), Store
    PROVE  LET w == Head(rest) IN
           /\ reg' \in [ccEn : {0, 1}, ccShn : {0, 1}, rdy : {0, 1}, shst : 0 .. 2,
                        adm : BOOLEAN, sq : SUBSET Queues, cq : SUBSET Queues]
           /\ reg'.ccEn = reg.ccEn /\ reg'.ccShn = reg.ccShn
           /\ w # "asyncReset" =>
                 reg'.rdy = IF w = "rdy0" THEN 0 ELSE IF w = "rdy1" THEN 1 ELSE reg.rdy
           /\ reg'.adm = (w = "adminOn" \/ (w # "adminOff" /\ reg.adm))
           /\ reg'.sq = IF w = "ioOff" THEN {} ELSE reg.sq
           /\ reg'.cq = IF w = "ioOff" THEN {} ELSE reg.cq
           /\ task' \in [status : Status, cacheEn : {0, 1}, rstCnt : 0 .. RstLimit]
           /\ task'.cacheEn = IF w = "cacheOff" THEN 0 ELSE task.cacheEn
           /\ task'.status = IF w = "toRunning" THEN "RUNNING"
                             ELSE IF w = "toWaitReset" THEN "WAIT_RESET"
                             ELSE IF w = "toIdle" THEN "IDLE" ELSE task.status
<1> DEFINE w == Head(rest)
           Regs == [ccEn : {0, 1}, ccShn : {0, 1}, rdy : {0, 1}, shst : 0 .. 2,
                    adm : BOOLEAN, sq : SUBSET Queues, cq : SUBSET Queues]
<1>1. w \in Stores
  BY TailShape DEF Store
<1>2. reg' \in Written(w) /\ task' = TaskAfter(w)
  BY DEF Store
<1>3. reg \in Regs
  BY DEF TypeOK
<1> HIDE DEF w
<1>4. /\ reg' \in Regs
      /\ reg'.ccEn = reg.ccEn /\ reg'.ccShn = reg.ccShn
      /\ w # "asyncReset" =>
            reg'.rdy = IF w = "rdy0" THEN 0 ELSE IF w = "rdy1" THEN 1 ELSE reg.rdy
      /\ reg'.adm = (w = "adminOn" \/ (w # "adminOff" /\ reg.adm))
      /\ reg'.sq = IF w = "ioOff" THEN {} ELSE reg.sq
      /\ reg'.cq = IF w = "ioOff" THEN {} ELSE reg.cq
  <2>1. CASE w = "asyncReset"
    <3>1. PICK x \in 0 .. 1, y \in 0 .. 2 : reg' = [reg EXCEPT !.rdy = x, !.shst = y]
      BY <1>2, <2>1 DEF Written
    <3>2. x \in {0, 1}
      OBVIOUS
    <3> QED
      BY <1>3, <2>1, <3>1, <3>2
  <2>2. CASE w \in {"shst0", "shst1", "shst2"}
    <3>1. PICK y \in 0 .. 2 : reg' = [reg EXCEPT !.shst = y]
      BY <1>2, <2>2 DEF Written
    <3> QED
      BY <1>3, <2>2, <3>1
  <2>3. CASE w \in {"rdy0", "rdy1"}
    BY <1>2, <1>3, <2>3 DEF Written
  <2>4. CASE w = "adminOn"
    <3>1. reg' = [reg EXCEPT !.adm = TRUE]
      BY <1>2, <2>4 DEF Written
    <3> QED
      BY <1>3, <2>4, <3>1
  <2>5. CASE w = "adminOff"
    <3>1. reg' = [reg EXCEPT !.adm = FALSE]
      BY <1>2, <2>5 DEF Written
    <3> QED
      BY <1>3, <2>5, <3>1
  <2>6. CASE w = "ioOff"
    <3>1. reg' = [reg EXCEPT !.sq = {}, !.cq = {}]
      BY <1>2, <2>6 DEF Written
    <3> QED
      BY <1>3, <2>6, <3>1
  <2>7. CASE w \in {"toRunning", "toWaitReset", "toIdle", "cacheOff", "saveBbt"}
    <3>1. reg' = reg
      BY <1>2, <2>7 DEF Written
    <3> QED
      BY <1>3, <2>7, <3>1
  <2> QED
    BY <1>1, <2>1, <2>2, <2>3, <2>4, <2>5, <2>6, <2>7
    DEF Stores, EnableStores, ShutdownStores, ResetStores
<1>5. /\ task' \in [status : Status, cacheEn : {0, 1}, rstCnt : 0 .. RstLimit]
      /\ task'.cacheEn = IF w = "cacheOff" THEN 0 ELSE task.cacheEn
      /\ task'.status = IF w = "toRunning" THEN "RUNNING"
                        ELSE IF w = "toWaitReset" THEN "WAIT_RESET"
                        ELSE IF w = "toIdle" THEN "IDLE" ELSE task.status
  BY <1>2 DEF TaskAfter, TypeOK, Status
<1> QED
  BY <1>4, <1>5 DEF w

\* One store of the main loop.
LEMMA StoreKeeps ==
    ASSUME IInv, Store
    PROVE  IInv'
<1> DEFINE w == Head(rest)
<1>1. rest # << >> /\ rest' = Tail(rest) /\ UNCHANGED <<irq, work, host>>
  BY DEF Store
<1>2. TypeOK /\ Shape(rest)
  BY DEF IInv, SessionsSound
<1>3. /\ Shape(rest') /\ w \in Stores
      /\ \A v : Pends(rest, v) => w = v \/ Pends(rest', v)
      /\ \A v : Ends(rest', v) => Ends(rest, v)
  BY <1>1, <1>2, TailShape
<1>4. /\ Enabling => w \in EnableStores
      /\ ShuttingDown => w \in ShutdownStores
      /\ Resetting => w \in ResetStores
  BY <1>1, <1>2, TailShape DEF Enabling, ShuttingDown, Resetting
<1>5. /\ w \in {"toRunning", "saveBbt", "toIdle"} <=> rest' = << >>
      /\ w = "toRunning" => Enabling
      /\ w = "saveBbt" => ShuttingDown
      /\ w = "toIdle" => Resetting
  BY <1>1, <1>2, TailShape DEF Enabling, ShuttingDown, Resetting
<1>6. /\ w \in {"rdy0", "toWaitReset"} => \A v : Pends(rest', v) => Ends(rest, v)
      /\ w = "asyncReset" => Pends(rest', "rdy0")
  BY <1>1, <1>2, TailShape
<1>7. \A v : Ends(rest, v) => v \in {"toRunning", "saveBbt", "toIdle"}
  BY <1>2 DEF Shape, Ends
<1>8. rest' = << >> => \A v : ~Pends(rest', v) /\ ~Ends(rest', v)
  BY EmptyBranch
<1>9. Enabling \/ ShuttingDown \/ Resetting
  BY <1>1, <1>2 DEF Shape, Enabling, ShuttingDown, Resetting
<1>10. /\ w # "asyncReset" =>
             reg'.rdy = IF w = "rdy0" THEN 0 ELSE IF w = "rdy1" THEN 1 ELSE reg.rdy
       /\ reg'.adm = (w = "adminOn" \/ (w # "adminOff" /\ reg.adm))
       /\ reg'.sq = IF w = "ioOff" THEN {} ELSE reg.sq
       /\ reg'.cq = IF w = "ioOff" THEN {} ELSE reg.cq
       /\ task'.cacheEn = IF w = "cacheOff" THEN 0 ELSE task.cacheEn
       /\ task'.status = IF w = "toRunning" THEN "RUNNING"
                         ELSE IF w = "toWaitReset" THEN "WAIT_RESET"
                         ELSE IF w = "toIdle" THEN "IDLE" ELSE task.status
  BY <1>2, StoreEffect
<1>11. TypeOK'
  BY <1>1, <1>2, StoreEffect DEF TypeOK
<1> HIDE DEF w
<1> USE DEF EnableStores, ShutdownStores, ResetStores, Enabling, ShuttingDown, Resetting
<1>12. RunningIsReady'
  <2> SUFFICES ASSUME task'.status = "RUNNING" PROVE reg'.adm /\ reg'.rdy = 1
    BY DEF RunningIsReady
  <2>1. w = "toRunning"
    BY <1>1, <1>10 DEF IInv, StatusInBranch
  <2>2. reg.adm /\ reg.rdy = 1
    BY <2>1, <1>3, <1>5, <1>8 DEF IInv, StoresDone
  <2> QED
    BY <2>1, <2>2, <1>10
<1>13. StatusInBranch'
  <2>1. rest' # << >> => task'.status # "RUNNING"
    BY <1>1, <1>5, <1>10 DEF IInv, StatusInBranch
  <2>2. Enabling' => task'.status \in {"WAIT_CC_EN", "SHUTDOWN", "RESET"}
    BY <1>3, <1>4, <1>5, <1>8, <1>10 DEF IInv, StatusInBranch
  <2>3. task'.status = "WAIT_RESET" => ~reg'.adm /\ reg'.sq = {} /\ reg'.cq = {}
    <3>1. CASE w = "toWaitReset"
      <4>1. ShuttingDown /\ ~Pends(rest, "ioOff") /\ ~Pends(rest, "adminOff")
        BY <3>1, <1>3, <1>4, <1>6, <1>7, <1>9
      <4> QED
        BY <3>1, <4>1, <1>10 DEF IInv, StoresDone
    <3>2. CASE w # "toWaitReset"
      BY <3>2, <1>4, <1>9, <1>10 DEF IInv, StatusInBranch
    <3> QED
      BY <3>1, <3>2
  <2> QED
    BY <2>1, <2>2, <2>3 DEF StatusInBranch
<1>14. StoresDone'
  <2>1. Enabling' => /\ Pends(rest', "adminOn") \/ reg'.adm
                     /\ Pends(rest', "rdy1") \/ reg'.rdy = 1
    BY <1>3, <1>4, <1>10 DEF IInv, StoresDone
  <2>2. ShuttingDown' \/ Resetting' =>
            /\ Pends(rest', "ioOff") \/ (reg'.sq = {} /\ reg'.cq = {})
            /\ Pends(rest', "adminOff") \/ ~reg'.adm
            /\ Pends(rest', "cacheOff") \/ task'.cacheEn = 0
    BY <1>3, <1>4, <1>10 DEF IInv, StoresDone
  <2>3. Resetting' => Pends(rest', "rdy0") \/ reg'.rdy = 0
    BY <1>3, <1>4, <1>6, <1>10 DEF IInv, StoresDone
  <2> QED
    BY <2>1, <2>2, <2>3 DEF StoresDone
<1>15. NothingOutlivesReset'
  <2> SUFFICES ASSUME rest' = << >>, reg'.rdy = 0
               PROVE  ~reg'.adm /\ reg'.sq = {} /\ reg'.cq = {} /\ task'.cacheEn = 0
    BY DEF NothingOutlivesReset
  <2>1. \A v : Pends(rest, v) => v = w
    BY <1>3, <1>8
  <2>2. CASE w = "toRunning"
    BY <2>1, <2>2, <1>5, <1>10 DEF IInv, StoresDone
  <2>3. CASE w \in {"saveBbt", "toIdle"}
    BY <2>1, <2>3, <1>5, <1>10 DEF IInv, StoresDone
  <2> QED
    BY <2>2, <2>3, <1>5
<1> QED
  BY <1>3, <1>11, <1>12, <1>13, <1>14, <1>15 DEF IInv, SessionsSound

\* A step that leaves the branch, the queues and RDY alone may change the status
\* to one that the interrupt handler sets.
LEMMA FrameKeeps ==
    ASSUME IInv, TypeOK', UNCHANGED rest,
           reg'.rdy = reg.rdy, reg'.adm = reg.adm, reg'.sq = reg.sq, reg'.cq = reg.cq,
           task'.cacheEn = task.cacheEn,
           task'.status \in {task.status, "SHUTDOWN", "WAIT_CC_EN", "RESET"}
    PROVE  IInv'
<1>1. RunningIsReady' /\ NothingOutlivesReset'
  BY DEF IInv, SessionsSound, RunningIsReady, NothingOutlivesReset
<1>2. StatusInBranch' /\ StoresDone'
  BY DEF IInv, StatusInBranch, StoresDone, Enabling, ShuttingDown, Resetting
<1> QED
  BY <1>1, <1>2 DEF IInv, SessionsSound

\* The main loop enters a branch.
LEMMA BeginKeeps ==
    ASSUME IInv, Enable \/ Shutdown \/ Disable \/ Reset
    PROVE  IInv'
<1> USE DEF Begin, Enabling, ShuttingDown, Resetting
<1>1. rest = << >> /\ UNCHANGED <<reg, irq, work, host>>
  BY DEF Enable, Shutdown, Disable, Reset
<1>2. /\ task' \in [status : Status, cacheEn : {0, 1}, rstCnt : 0 .. RstLimit]
      /\ task'.status = task.status /\ task'.cacheEn = task.cacheEn
      /\ task.status # "RUNNING"
  BY NvmeAssumption DEF IInv, SessionsSound, TypeOK, Status, Enable, Shutdown, Disable, Reset
<1>3. TypeOK' /\ RunningIsReady'
  BY <1>1, <1>2 DEF IInv, SessionsSound, TypeOK, RunningIsReady
<1>4. \A v, u : Ends(rest', v) /\ Ends(rest', u) => v = u
  BY DEF Ends
<1>5. (\E v : Ends(rest', v)) => rest' # << >>
  BY DEF Ends
<1>6. CASE Enable
  <2>1. /\ Shape(rest') /\ Ends(rest', "toRunning")
        /\ Pends(rest', "adminOn") /\ Pends(rest', "rdy1")
    BY <1>6, BranchShapes DEF Enable
  <2> QED
    BY <1>1, <1>2, <1>3, <1>4, <1>5, <1>6, <2>1
    DEF IInv, SessionsSound, NothingOutlivesReset, StatusInBranch, StoresDone, Enable
<1>7. CASE Shutdown
  <2>1. /\ Shape(rest') /\ Ends(rest', "saveBbt")
        /\ Pends(rest', "ioOff") /\ Pends(rest', "adminOff") /\ Pends(rest', "cacheOff")
    BY <1>7, BranchShapes DEF Shutdown
  <2> QED
    BY <1>1, <1>2, <1>3, <1>4, <1>5, <1>7, <2>1
    DEF IInv, SessionsSound, NothingOutlivesReset, StatusInBranch, StoresDone, Shutdown
<1>8. CASE Disable
  <2>1. /\ Shape(rest') /\ Ends(rest', "toIdle")
        /\ Pends(rest', "cacheOff") /\ Pends(rest', "rdy0")
    BY <1>8, BranchShapes DEF Disable
  <2>2. ~reg.adm /\ reg.sq = {} /\ reg.cq = {}
    BY <1>8 DEF IInv, StatusInBranch, Disable
  <2> QED
    BY <1>1, <1>2, <1>3, <1>4, <1>5, <1>8, <2>1, <2>2
    DEF IInv, SessionsSound, NothingOutlivesReset, StatusInBranch, StoresDone, Disable
<1>9. CASE Reset
  <2>1. /\ Shape(rest') /\ Ends(rest', "toIdle") /\ Pends(rest', "rdy0")
        /\ Pends(rest', "ioOff") /\ Pends(rest', "adminOff") /\ Pends(rest', "cacheOff")
    BY <1>9, BranchShapes DEF Reset
  <2> QED
    BY <1>1, <1>2, <1>3, <1>4, <1>5, <1>9, <2>1
    DEF IInv, SessionsSound, NothingOutlivesReset, StatusInBranch, StoresDone, Reset
<1> QED
  BY <1>6, <1>7, <1>8, <1>9

\* A command is handled only while RUNNING, between two branches.
LEMMA CommandKeeps ==
    ASSUME IInv, NEW r, NEW t, NEW w, Command(r, t, w),
           r \in [ccEn : {0, 1}, ccShn : {0, 1}, rdy : {0, 1}, shst : 0 .. 2,
                  adm : BOOLEAN, sq : SUBSET Queues, cq : SUBSET Queues],
           r.adm = reg.adm, r.rdy = reg.rdy,
           t \in [status : Status, cacheEn : {0, 1}, rstCnt : 0 .. RstLimit],
           t.status = task.status,
           w \in [io : Nat, custom : {"none", "busy", "done"}, behind : BOOLEAN]
    PROVE  IInv'
<1>1. /\ rest = << >> /\ task.status = "RUNNING" /\ reg' = r /\ work' = w
      /\ UNCHANGED <<rest, irq, host>>
  BY DEF Command
<1>2. task' \in [status : Status, cacheEn : {0, 1}, rstCnt : 0 .. RstLimit] /\ task'.status = "RUNNING"
  BY <1>1, NvmeAssumption DEF Command, Status
<1>3. reg.adm /\ reg.rdy = 1
  BY <1>1 DEF IInv, SessionsSound, RunningIsReady
<1>4. TypeOK' /\ RunningIsReady' /\ NothingOutlivesReset'
  BY <1>1, <1>2, <1>3 DEF IInv, SessionsSound, TypeOK, RunningIsReady, NothingOutlivesReset
<1>5. Shape(rest') /\ StatusInBranch' /\ StoresDone'
  BY <1>1, <1>2, EmptyBranch DEF StatusInBranch, StoresDone, Enabling, ShuttingDown, Resetting
<1> QED
  BY <1>4, <1>5 DEF IInv, SessionsSound

LEMMA CommandsKeep ==
    ASSUME IInv, Commands
    PROVE  IInv'
<1>1. /\ reg \in [ccEn : {0, 1}, ccShn : {0, 1}, rdy : {0, 1}, shst : 0 .. 2,
                  adm : BOOLEAN, sq : SUBSET Queues, cq : SUBSET Queues]
      /\ task \in [status : Status, cacheEn : {0, 1}, rstCnt : 0 .. RstLimit]
      /\ work \in [io : Nat, custom : {"none", "busy", "done"}, behind : BOOLEAN]
  BY DEF IInv, SessionsSound, TypeOK
<1>2. ASSUME NEW q \in Queues, handle_create_io_sq(q) \/ handle_delete_io_sq(q)
      PROVE  IInv'
  <2>1. PICK S \in SUBSET Queues : Command([reg EXCEPT !.sq = S], task, work)
    <3>1. reg.sq \cup {q} \in SUBSET Queues /\ reg.sq \ {q} \in SUBSET Queues
      BY <1>1
    <3> QED
      BY <1>2, <3>1 DEF handle_create_io_sq, handle_delete_io_sq
  <2> QED
    BY <1>1, <2>1, CommandKeeps
<1>3. ASSUME NEW q \in Queues, handle_create_io_cq(q) \/ handle_delete_io_cq(q)
      PROVE  IInv'
  <2>1. PICK S \in SUBSET Queues : Command([reg EXCEPT !.cq = S], task, work)
    <3>1. reg.cq \cup {q} \in SUBSET Queues /\ reg.cq \ {q} \in SUBSET Queues
      BY <1>1
    <3> QED
      BY <1>3, <3>1 DEF handle_create_io_cq, handle_delete_io_cq
  <2> QED
    BY <1>1, <2>1, CommandKeeps
<1>4. ASSUME NEW v \in {0, 1}, handle_set_features(v)
      PROVE  IInv'
  BY <1>1, <1>4, CommandKeeps DEF handle_set_features
<1>5. CASE handle_nvme_io_cmd
  <2>1. PICK w \in [io : Nat, custom : {"none", "busy", "done"}, behind : BOOLEAN] :
            Command(reg, task, w)
    <3>1. CASE Command(reg, task, [work EXCEPT !.io = @ + 1])
      <4>1. [work EXCEPT !.io = @ + 1] \in [io : Nat, custom : {"none", "busy", "done"}, behind : BOOLEAN]
        BY <1>1
      <4> QED
        BY <3>1, <4>1
    <3>2. ASSUME NEW v \in BOOLEAN, Command(reg, task, [work EXCEPT !.custom = "busy", !.behind = v])
          PROVE  \E w \in [io : Nat, custom : {"none", "busy", "done"}, behind : BOOLEAN] :
                    Command(reg, task, w)
      <4>1. [work EXCEPT !.custom = "busy", !.behind = v]
                \in [io : Nat, custom : {"none", "busy", "done"}, behind : BOOLEAN]
        BY <1>1
      <4> QED
        BY <3>2, <4>1
    <3> QED
      BY <1>5, <3>1, <3>2 DEF handle_nvme_io_cmd
  <2> QED
    BY <1>1, <2>1, CommandKeeps
<1> QED
  BY <1>2, <1>3, <1>4, <1>5 DEF Commands

\* The interrupt handler sets no status but these.
LEMMA IrqStatus ==
    ASSUME NEW causes
    PROVE  StatusAfterIrq(causes) \in {task.status, "SHUTDOWN", "WAIT_CC_EN", "RESET"}
  BY DEF StatusAfterIrq

LEMMA IInvNext == IInv /\ [Next]_vars => IInv'
<1> SUFFICES ASSUME IInv, [Next]_vars PROVE IInv'
  OBVIOUS
<1> USE DEF IInv, SessionsSound
<1>1. CASE Store
  BY <1>1, StoreKeeps
<1>2. CASE Enable \/ Shutdown \/ Disable \/ Reset
  BY <1>2, BeginKeeps
<1>3. CASE Commands
  BY <1>3, CommandsKeep
<1>4. CASE Poll \/ CheckDoneCustomCmdDmaReq \/ DmaDone
  <2>1. work' \in [io : Nat, custom : {"none", "busy", "done"}, behind : BOOLEAN]
    <3>1. work \in [io : Nat, custom : {"none", "busy", "done"}, behind : BOOLEAN]
      BY DEF TypeOK
    <3>2. CASE Poll
      BY <3>1, <3>2 DEF Poll
    <3>3. CASE CheckDoneCustomCmdDmaReq
      BY <3>1, <3>3 DEF CheckDoneCustomCmdDmaReq
    <3>4. CASE DmaDone
      BY <3>1, <3>4 DEF DmaDone
    <3> QED
      BY <1>4, <3>2, <3>3, <3>4
  <2>2. UNCHANGED <<task, reg, rest, irq, host>>
    BY <1>4 DEF Poll, CheckDoneCustomCmdDmaReq, DmaDone
  <2>3. TypeOK'
    BY <2>1, <2>2 DEF TypeOK
  <2> QED
    BY <2>2, <2>3, FrameKeeps
<1>5. CASE dev_irq_handler
  <2>1. /\ task' = [task EXCEPT !.status = StatusAfterIrq(irq)] /\ irq' = {}
        /\ UNCHANGED <<reg, rest, work, host>>
    BY <1>5 DEF dev_irq_handler
  <2>2. /\ task'.status \in {task.status, "SHUTDOWN", "WAIT_CC_EN", "RESET"}
        /\ task' \in [status : Status, cacheEn : {0, 1}, rstCnt : 0 .. RstLimit]
        /\ task'.cacheEn = task.cacheEn
    BY <2>1, IrqStatus DEF TypeOK, Status
  <2>3. TypeOK'
    BY <2>1, <2>2 DEF TypeOK
  <2> QED
    BY <2>1, <2>2, <2>3, FrameKeeps
<1>6. ASSUME NEW en \in {0, 1}, NEW shn \in {0, 1}, HostWrites(en, shn, TRUE)
      PROVE  IInv'
  <2>1. /\ reg' = [reg EXCEPT !.ccEn = en, !.ccShn = shn]
        /\ host' = [host EXCEPT !.fresh = FALSE, !.events = @ + 1] /\ host.events < MaxEvents
        /\ UNCHANGED <<task, rest, work>>
    BY <1>6 DEF HostWrites
  <2>2. irq' \subseteq {"pcieLink", "nvmeCcEn", "nvmeCcShn"}
    BY <1>6 DEF HostWrites, TypeOK
  <2>3. host' \in [link : BOOLEAN, fresh : BOOLEAN, events : 0 .. MaxEvents,
                   lags : BOOLEAN, steady : BOOLEAN]
    <3>1. host.events + 1 \in 0 .. MaxEvents
      BY <2>1, NvmeAssumption DEF TypeOK
    <3> QED
      BY <2>1, <3>1 DEF TypeOK
  <2>4. TypeOK'
    BY <2>1, <2>2, <2>3 DEF TypeOK
  <2>5. /\ reg'.rdy = reg.rdy /\ reg'.adm = reg.adm
        /\ reg'.sq = reg.sq /\ reg'.cq = reg.cq
    BY <2>1 DEF TypeOK
  <2> QED
    BY <2>1, <2>4, <2>5, FrameKeeps
<1>7. CASE Host
  <2>1. \E en, shn \in {0, 1} : HostWrites(en, shn, TRUE)
    BY <1>7 DEF Host, HostEnables, HostDisables, HostShutsDown, HostWrites
  <2> QED
    BY <1>6, <2>1
<1>8. CASE LinkDown
  <2>1. /\ host' = [host EXCEPT !.link = FALSE, !.events = @ + 1] /\ host.events < MaxEvents
        /\ reg' \in {reg, [reg EXCEPT !.ccEn = 0, !.ccShn = 0]}
        /\ UNCHANGED <<task, rest, work>>
    BY <1>8 DEF LinkDown
  <2>2. irq' \subseteq {"pcieLink", "nvmeCcEn", "nvmeCcShn"}
    BY <1>8 DEF LinkDown, TypeOK
  <2>3. host' \in [link : BOOLEAN, fresh : BOOLEAN, events : 0 .. MaxEvents,
                   lags : BOOLEAN, steady : BOOLEAN]
    <3>1. host.events + 1 \in 0 .. MaxEvents
      BY <2>1, NvmeAssumption DEF TypeOK
    <3> QED
      BY <2>1, <3>1 DEF TypeOK
  <2>4. TypeOK'
    BY <2>1, <2>2, <2>3 DEF TypeOK
  <2>5. /\ reg'.rdy = reg.rdy /\ reg'.adm = reg.adm
        /\ reg'.sq = reg.sq /\ reg'.cq = reg.cq
    BY <2>1 DEF TypeOK
  <2> QED
    BY <2>1, <2>4, <2>5, FrameKeeps
<1>9. CASE LinkUp
  <2>1. /\ host' = [host EXCEPT !.link = TRUE, !.fresh = TRUE] /\ irq' = irq \cup {"pcieLink"}
        /\ UNCHANGED <<task, reg, rest, work>>
    BY <1>9 DEF LinkUp
  <2>2. TypeOK'
    BY <2>1 DEF TypeOK
  <2> QED
    BY <2>1, <2>2, FrameKeeps
<1>10. CASE UNCHANGED vars
  <2>1. TypeOK'
    BY <1>10 DEF vars, TypeOK
  <2> QED
    BY <1>10, <2>1, FrameKeeps DEF vars
<1> QED
  BY <1>1, <1>2, <1>3, <1>4, <1>5, <1>7, <1>8, <1>9, <1>10 DEF Next

\* The inductive invariant holds in every reachable state.
THEOREM IInvHolds == Spec => []IInv
  BY IInvInit, IInvNext, PTL DEF Spec

\* The sessions of the hosts are separate, whatever interrupts come between which
\* stores: commands are served only while the admin queue is on and RDY is set, and
\* a controller that is not ready has no queue and no cache setting of the last
\* session (nvme_main, dev_irq_handler).
THEOREM SessionsAreSound == Spec => []SessionsSound
  BY IInvHolds, PTL DEF IInv

-----------------------------------------------------------------------------
\* RDY tells the truth to a driver who lags: what is idle, or about to be
\* enabled, is not ready.
NotReady ==
    host.lags /\ task.status \in {"IDLE", "WAIT_CC_EN"} /\ (rest = << >> \/ ShuttingDown)
        => reg.rdy = 0

\* A controller about to be enabled is enabled by the host, or an interrupt that
\* says otherwise is on its way.
EnableSeen == task.status = "WAIT_CC_EN" => reg.ccEn = 1 \/ "nvmeCcEn" \in irq

\* Until the interrupt of an enable is taken, no branch that could lose it begins.
EnableUnseen ==
    host.lags /\ "nvmeCcEn" \in irq /\ reg.ccEn = 1 =>
        /\ reg.rdy = 0 /\ reg.ccShn = 0
        /\ task.status \in {"IDLE", "SHUTDOWN", "WAIT_RESET"}
        /\ rest = << >> \/ ShuttingDown

IdleIsQuiet == task.status = "IDLE" => ~Enabling /\ ~Resetting

ReadyInv == NotReady /\ EnableSeen /\ EnableUnseen /\ IdleIsQuiet

LEMMA ReadyInit == Init => ReadyInv
  BY EmptyBranch DEF Init, ReadyInv, NotReady, EnableSeen, EnableUnseen, IdleIsQuiet,
                     Enabling, ShuttingDown, Resetting

LEMMA ReadyStore ==
    ASSUME IInv, ReadyInv, Store
    PROVE  ReadyInv'
<1> DEFINE w == Head(rest)
<1>1. rest # << >> /\ rest' = Tail(rest) /\ UNCHANGED <<irq, work, host>>
  BY DEF Store
<1>2. TypeOK /\ Shape(rest)
  BY DEF IInv, SessionsSound
<1>3. /\ Shape(rest')
      /\ \A v : Pends(rest, v) => w = v \/ Pends(rest', v)
      /\ \A v : Ends(rest', v) => Ends(rest, v)
      /\ w \in {"toRunning", "saveBbt", "toIdle"} <=> rest' = << >>
      /\ w = "saveBbt" => ShuttingDown
      /\ w = "toIdle" => Resetting
      /\ ShuttingDown => w \in ShutdownStores
  BY <1>1, <1>2, TailShape DEF ShuttingDown, Resetting
<1>4. rest' = << >> => \A v : ~Pends(rest', v) /\ ~Ends(rest', v)
  BY EmptyBranch
<1>5. ShuttingDown => rest' = << >> \/ ShuttingDown'
  <2>1. rest' # << >> => \E v \in {"toRunning", "saveBbt", "toIdle"} : Ends(rest', v)
    BY <1>3 DEF Shape
  <2>2. \A u, v : Ends(rest, u) /\ Ends(rest, v) => u = v
    BY DEF Ends
  <2> QED
    BY <1>3, <2>1, <2>2 DEF ShuttingDown
<1>6. /\ reg'.ccEn = reg.ccEn /\ reg'.ccShn = reg.ccShn
      /\ w # "asyncReset" =>
            reg'.rdy = IF w = "rdy0" THEN 0 ELSE IF w = "rdy1" THEN 1 ELSE reg.rdy
      /\ task'.status = IF w = "toRunning" THEN "RUNNING"
                        ELSE IF w = "toWaitReset" THEN "WAIT_RESET"
                        ELSE IF w = "toIdle" THEN "IDLE" ELSE task.status
  BY <1>2, StoreEffect
<1> HIDE DEF w
<1> USE DEF ShutdownStores
<1>7. NotReady'
  <2> SUFFICES ASSUME host.lags, task'.status \in {"IDLE", "WAIT_CC_EN"},
                      rest' = << >> \/ ShuttingDown'
               PROVE  reg'.rdy = 0
    BY <1>1 DEF NotReady
  <2>1. CASE w = "toIdle"
    BY <2>1, <1>3, <1>4, <1>6 DEF IInv, StoresDone
  <2>2. CASE w # "toIdle"
    <3>1. ShuttingDown
      BY <2>2, <1>3, <1>6 DEF ShuttingDown
    <3> QED
      BY <2>2, <3>1, <1>3, <1>6 DEF ReadyInv, NotReady
  <2> QED
    BY <2>1, <2>2
<1>8. EnableSeen'
  BY <1>1, <1>6 DEF ReadyInv, EnableSeen
<1>9. EnableUnseen'
  BY <1>1, <1>3, <1>5, <1>6 DEF ReadyInv, EnableUnseen
<1>10. IdleIsQuiet'
  BY <1>3, <1>4, <1>6 DEF ReadyInv, IdleIsQuiet, Enabling, Resetting
<1> QED
  BY <1>7, <1>8, <1>9, <1>10 DEF ReadyInv

LEMMA ReadyBegin ==
    ASSUME IInv, ReadyInv, Enable \/ Shutdown \/ Disable \/ Reset
    PROVE  ReadyInv'
<1> USE DEF Begin, Enabling, ShuttingDown, Resetting
<1>1. \A v, u : Ends(rest', v) /\ Ends(rest', u) => v = u
  BY DEF Ends
<1>2. (\E v : Ends(rest', v)) => rest' # << >>
  BY DEF Ends
<1>3. UNCHANGED <<reg, irq, work, host>> /\ task'.status = task.status
  BY DEF Enable, Shutdown, Disable, Reset, IInv, SessionsSound, TypeOK
<1>4. CASE Enable
  <2>1. Ends(rest', "toRunning")
    BY <1>4, BranchShapes DEF Enable
  <2> QED
    BY <1>1, <1>2, <1>3, <1>4, <2>1
    DEF Enable, ReadyInv, NotReady, EnableSeen, EnableUnseen, IdleIsQuiet
<1>5. CASE Shutdown
  <2>1. Ends(rest', "saveBbt")
    BY <1>5, BranchShapes DEF Shutdown
  <2> QED
    BY <1>1, <1>2, <1>3, <1>5, <2>1
    DEF Shutdown, ReadyInv, NotReady, EnableSeen, EnableUnseen, IdleIsQuiet
<1>6. CASE Disable \/ Reset
  <2>1. Ends(rest', "toIdle")
    BY <1>6, BranchShapes DEF Disable, Reset
  <2> QED
    BY <1>1, <1>2, <1>3, <1>6, <2>1
    DEF Disable, Reset, ReadyInv, NotReady, EnableSeen, EnableUnseen, IdleIsQuiet
<1> QED
  BY <1>4, <1>5, <1>6

\* A driver who lags writes CC only between two branches or in a shutdown.
LEMMA LaggedRest ==
    ASSUME Shape(rest), host.lags, Lagged
    PROVE  rest = << >> \/ ShuttingDown
<1> SUFFICES ASSUME rest # << >> PROVE ShuttingDown
  OBVIOUS
<1>1. Len(rest) \in DOMAIN rest
  BY EmptySeq, LenProperties DEF Shape
<1>2. rest[Len(rest)] \notin {"toRunning", "toIdle"}
  BY <1>1 DEF Lagged
<1> QED
  BY <1>2 DEF Shape, Ends, ShuttingDown

LEMMA ReadyHostWrites ==
    ASSUME IInv, ReadyInv, NEW en \in {0, 1}, NEW shn \in {0, 1},
           HostWrites(en, shn, TRUE),
           en = 1 => reg.ccEn = 1 \/ (shn = 0 /\ reg.rdy = 0)
    PROVE  ReadyInv'
<1>1. /\ host.lags => Lagged
      /\ reg' = [reg EXCEPT !.ccEn = en, !.ccShn = shn]
      /\ irq' = irq \cup (IF en # reg.ccEn THEN {"nvmeCcEn"} ELSE {})
                    \cup (IF shn # reg.ccShn THEN {"nvmeCcShn"} ELSE {})
      /\ host' = [host EXCEPT !.fresh = FALSE, !.events = @ + 1]
      /\ UNCHANGED <<task, rest, work>>
  BY DEF HostWrites
<1>2. /\ reg'.ccEn = en /\ reg'.ccShn = shn /\ reg'.rdy = reg.rdy /\ reg.ccEn \in {0, 1}
      /\ host'.lags = host.lags /\ task.status \in Status
  BY <1>1 DEF IInv, SessionsSound, TypeOK
<1>3. "nvmeCcEn" \in irq' <=> "nvmeCcEn" \in irq \/ en # reg.ccEn
  BY <1>1
<1>4. NotReady' /\ IdleIsQuiet'
  BY <1>1, <1>2 DEF ReadyInv, NotReady, IdleIsQuiet, Enabling, ShuttingDown, Resetting
<1>5. EnableSeen'
  BY <1>1, <1>2, <1>3 DEF ReadyInv, EnableSeen
<1>6. EnableUnseen'
  <2> SUFFICES ASSUME host.lags, "nvmeCcEn" \in irq', en = 1
               PROVE  /\ reg.rdy = 0 /\ shn = 0
                      /\ task.status \in {"IDLE", "SHUTDOWN", "WAIT_RESET"}
                      /\ rest = << >> \/ ShuttingDown
    BY <1>1, <1>2 DEF EnableUnseen, ShuttingDown
  <2>1. irq = {} /\ task.status # "RESET"
    BY <1>1 DEF Lagged
  <2>2. reg.ccEn = 0 /\ shn = 0 /\ reg.rdy = 0
    BY <1>2, <1>3, <2>1
  <2>3. task.status \notin {"WAIT_CC_EN", "RUNNING"}
    BY <2>1, <2>2 DEF ReadyInv, EnableSeen, IInv, SessionsSound, RunningIsReady
  <2>4. rest = << >> \/ ShuttingDown
    BY <1>1, LaggedRest DEF IInv
  <2> QED
    BY <1>2, <2>1, <2>2, <2>3, <2>4 DEF Status
<1> QED
  BY <1>4, <1>5, <1>6 DEF ReadyInv

LEMMA ReadyNext == IInv /\ ReadyInv /\ [Next]_vars => ReadyInv'
<1> SUFFICES ASSUME IInv, ReadyInv, [Next]_vars PROVE ReadyInv'
  OBVIOUS
<1> USE DEF Enabling, ShuttingDown, Resetting
<1>1. CASE Store
  BY <1>1, ReadyStore
<1>2. CASE Enable \/ Shutdown \/ Disable \/ Reset
  BY <1>2, ReadyBegin
<1>3. CASE Commands
  <2>1. task.status = "RUNNING" /\ task'.status = "RUNNING" /\ UNCHANGED <<rest, irq, host>>
    BY <1>3 DEF Commands, Command, handle_create_io_sq, handle_delete_io_sq, handle_create_io_cq,
                handle_delete_io_cq, handle_set_features, handle_nvme_io_cmd,
                IInv, SessionsSound, TypeOK
  <2>2. reg'.ccEn = reg.ccEn
    BY <1>3 DEF Commands, Command, handle_create_io_sq, handle_delete_io_sq, handle_create_io_cq,
                handle_delete_io_cq, handle_set_features, handle_nvme_io_cmd,
                IInv, SessionsSound, TypeOK
  <2> QED
    BY <2>1, <2>2 DEF ReadyInv, NotReady, EnableSeen, EnableUnseen, IdleIsQuiet
<1>4. CASE Poll \/ CheckDoneCustomCmdDmaReq \/ DmaDone \/ UNCHANGED vars
  <2>1. UNCHANGED <<task, reg, rest, irq, host>>
    BY <1>4 DEF Poll, CheckDoneCustomCmdDmaReq, DmaDone, vars
  <2> QED
    BY <2>1 DEF ReadyInv, NotReady, EnableSeen, EnableUnseen, IdleIsQuiet
<1>5. CASE dev_irq_handler
  <2>1. /\ task' = [task EXCEPT !.status = StatusAfterIrq(irq)] /\ irq' = {}
        /\ UNCHANGED <<reg, rest, work, host>>
    BY <1>5 DEF dev_irq_handler
  <2>2. task'.status = StatusAfterIrq(irq)
    BY <2>1 DEF IInv, SessionsSound, TypeOK
  <2>3. task'.status = "WAIT_CC_EN" =>
            \/ "nvmeCcEn" \in irq /\ reg.ccEn = 1
            \/ "nvmeCcEn" \notin irq /\ task.status = "WAIT_CC_EN"
    BY <2>2 DEF StatusAfterIrq
  <2>4. task'.status = "IDLE" => task.status = "IDLE"
    BY <2>2 DEF StatusAfterIrq
  <2> QED
    BY <2>1, <2>3, <2>4 DEF ReadyInv, NotReady, EnableSeen, EnableUnseen, IdleIsQuiet
<1>6. CASE Host
  <2>1. CASE HostEnables
    <3>1. HostWrites(1, 0, TRUE) /\ reg.rdy = 0
      BY <2>1 DEF HostEnables, HostWrites
    <3> QED
      BY <3>1, ReadyHostWrites
  <2>2. ASSUME NEW shn \in {0, 1}, HostDisables(shn)
        PROVE  ReadyInv'
    <3>1. HostWrites(0, shn, TRUE)
      BY <2>2 DEF HostDisables, HostWrites
    <3>2. 0 \in {0, 1} /\ (0 = 1 => reg.ccEn = 1 \/ (shn = 0 /\ reg.rdy = 0))
      OBVIOUS
    <3> QED
      BY <3>1, <3>2, ReadyHostWrites
  <2>3. CASE HostShutsDown
    <3>1. HostWrites(1, 1, TRUE) /\ reg.ccEn = 1
      BY <2>3 DEF HostShutsDown, HostWrites
    <3> QED
      BY <3>1, ReadyHostWrites
  <2> QED
    BY <1>6, <2>1, <2>2, <2>3 DEF Host
<1>7. CASE LinkDown
  <2>1. /\ host' = [host EXCEPT !.link = FALSE, !.events = @ + 1]
        /\ UNCHANGED <<task, rest, work>>
    BY <1>7 DEF LinkDown
  <2>2. host'.lags = host.lags
    BY <2>1 DEF IInv, SessionsSound, TypeOK
  <2>3. CASE UNCHANGED reg /\ irq' = irq \cup {"pcieLink"}
    BY <2>1, <2>2, <2>3 DEF ReadyInv, NotReady, EnableSeen, EnableUnseen, IdleIsQuiet
  <2>4. CASE /\ reg' = [reg EXCEPT !.ccEn = 0, !.ccShn = 0]
             /\ irq' = irq \cup {"pcieLink"} \cup (IF reg.ccEn # 0 THEN {"nvmeCcEn"} ELSE {})
                           \cup (IF reg.ccShn # 0 THEN {"nvmeCcShn"} ELSE {})
    <3>1. reg'.rdy = reg.rdy /\ reg'.ccEn = 0
      BY <2>4 DEF IInv, SessionsSound, TypeOK
    <3>2. reg.ccEn # 0 \/ "nvmeCcEn" \in irq => "nvmeCcEn" \in irq'
      BY <2>4
    <3> QED
      BY <2>1, <2>2, <3>1, <3>2 DEF ReadyInv, NotReady, EnableSeen, EnableUnseen, IdleIsQuiet
  <2> QED
    BY <1>7, <2>3, <2>4 DEF LinkDown
<1>8. CASE LinkUp
  <2>1. /\ host' = [host EXCEPT !.link = TRUE, !.fresh = TRUE] /\ irq' = irq \cup {"pcieLink"}
        /\ UNCHANGED <<task, reg, rest, work>>
    BY <1>8 DEF LinkUp
  <2>2. host'.lags = host.lags
    BY <2>1 DEF IInv, SessionsSound, TypeOK
  <2> QED
    BY <2>1, <2>2 DEF ReadyInv, NotReady, EnableSeen, EnableUnseen, IdleIsQuiet
<1> QED
  BY <1>1, <1>2, <1>3, <1>4, <1>5, <1>6, <1>7, <1>8 DEF Next

\* A controller that tells a driver who lags that it is ready is served: the task
\* is neither idle nor waiting to be enabled (nvme_main, dev_irq_handler,
\* pcie_async_reset).
THEOREM ReadyIsAlwaysServed == Spec => []ReadyIsServed
<1>1. IInv /\ ReadyInv => ReadyIsServed
  BY DEF ReadyInv, NotReady, ReadyIsServed, IInv, SessionsSound, TypeOK
<1> QED
  BY IInvHolds, ReadyInit, ReadyNext, <1>1, PTL DEF Spec
=============================================================================
