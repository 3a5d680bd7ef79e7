------------------------- MODULE NandScheduleProofs -------------------------
(***************************************************************************)
(* The NAND scheduler of a channel, for any number of ways, of requests,   *)
(* of retries and of bad answers of the hardware: it implements the queues *)
(* of NandQueue step by step, sends every command to a free controller and *)
(* an idle die, takes no answer for that of another request, and repeats a *)
(* read exactly RETRY_LIMIT times.                                         *)
(*                                                                         *)
(* The invariant says, for the list a way is in, how far the head of its   *)
(* queue has come: in the scheduler's tables, in the controller, in the    *)
(* die, and in the words the hardware has written.                         *)
(***************************************************************************)
EXTENDS NandSchedule, LinkedListProofs, TLAPS

Codes   == {"READ", "READ_TRANSFER", "WRITE", "ERASE", "RESET"}
KindSet == [code : {"READ", "WRITE", "ERASE", "RESET"}, warning : BOOLEAN]
Req     == [id : Nat, kind : KindSet, code : Codes]
Link    == Ways \cup {None}

DieType == [state : {"IDLE", "EXE"}, retry : Nat, prev : Link, next : Link,
            opt : {"NONE", "CHECK", "REPORT", "COMPLETION_FLAG"}]

\* The types of the scheduler's tables, of the poll and of the hardware.
SchedType ==
    [queue : [Ways -> Seq(Req)],
     die : [Ways -> DieType],
     list : [Lists -> [head : Link, tail : Link]],
     marked : SUBSET [id : Nat, kind : KindSet]]

Started == {"statusCheck", "readTrigger", "erase", "write", "readTransfer"}

PollType ==
    [stage : Lists \cup {"out"}, cur : Link, ready : SUBSET Ways, wait : Nat, test : BOOLEAN]

Ops == {"none", "trigger", "transfer", "program", "erase", "reset"}

HwType ==
    [chan : Commands \cup {None}, busy : SUBSET Ways,
     array : [Ways -> [op : Ops, id : Nat]],
     report : [Ways -> {"0", "pass", "fail", "warning", "busy"}],
     flag : [Ways -> {"0", "pass", "fail", "warning"}],
     last : [Ways -> [op : Ops, id : Nat, res : {"pass", "fail", "warning"}]],
     fails : [Ways -> Nat]]

Typed ==
    /\ sched \in SchedType /\ poll \in PollType /\ hw \in HwType
    /\ sent \in Nat /\ faults \in Nat

\* The links of the way lists agree with each other, where L names the list of
\* every way and pos grows along the links.
LinksOK(s, L, pos) ==
    /\ \A w \in Ways :
         /\ s.die[w].next # None =>
                /\ L[s.die[w].next] = L[w] /\ s.die[s.die[w].next].prev = w
                /\ pos[w] < pos[s.die[w].next]
         /\ s.die[w].prev # None =>
                L[s.die[w].prev] = L[w] /\ s.die[s.die[w].prev].next = w
         /\ s.die[w].next = None => s.list[L[w]].tail = w
         /\ s.die[w].prev = None => s.list[L[w]].head = w
    /\ \A l \in Lists :
         /\ s.list[l].head # None =>
                L[s.list[l].head] = l /\ s.die[s.list[l].head].prev = None
         /\ s.list[l].tail # None =>
                L[s.list[l].tail] = l /\ s.die[s.list[l].tail].next = None
         /\ s.list[l].head = None <=> s.list[l].tail = None

\* Requests are numbered in the order they enter a queue; no number is used twice.
IdsOK ==
    /\ \A w \in Ways : \A i \in DOMAIN sched.queue[w] :
         /\ sched.queue[w][i].id \in 1 .. sent
         /\ \A v \in Ways : \A j \in DOMAIN sched.queue[v] :
              sched.queue[w][i].id = sched.queue[v][j].id => v = w /\ i = j
         /\ \A b \in sched.marked : b.id # sched.queue[w][i].id
    /\ \A b \in sched.marked : b.id \in 1 .. sent
    /\ \A w \in Ways : hw.last[w].id \in 0 .. sent

\* A request keeps its code until it is the head of its queue, where a read may
\* have become a transfer; the hardware has not heard of those behind the head.
QueueOK(q, last) ==
    /\ \A i \in DOMAIN q :
         i > 1 => q[i].code = q[i].kind.code /\ last.id # q[i].id
    /\ q # << >> => \/ q[1].code = q[1].kind.code
                    \/ q[1].code = "READ_TRANSFER" /\ q[1].kind.code = "READ"

\* The operation a request is waiting for.
OpOf(code) ==
    CASE code = "READ" -> "trigger" [] code = "READ_TRANSFER" -> "transfer"
      [] code = "WRITE" -> "program" [] code = "ERASE" -> "erase"
      [] code = "RESET" -> "reset"

Commanded(h, w, op, id) == h.chan # None /\ h.chan.way = w /\ h.chan.op = op /\ h.chan.id = id

Uncommanded(h, w) == h.chan # None => h.chan.way # w

\* How the retries of the head r stand with what the die did: before it starts
\* on the next operation of r ...
Before(r, d, last, fails) ==
    IF r.code = "READ"
    THEN d.retry + (IF last.id = r.id THEN fails ELSE 0) = RetryLimit
    ELSE IF r.code = "READ_TRANSFER"
    THEN /\ last.id = r.id /\ last.op = "trigger" /\ last.res = "pass"
         /\ d.retry + fails = RetryLimit
    ELSE last.id # r.id /\ d.retry = RetryLimit

\* ... and when the operation is over.
After(r, d, last, fails) ==
    /\ last.id = r.id /\ last.op = OpOf(r.code)
    /\ last.res = "warning" => r.code = "READ_TRANSFER"
    /\ r.code = "RESET" => last.res = "pass"
    /\ r.code \notin {"READ", "READ_TRANSFER"} => d.retry = RetryLimit
    /\ d.retry + fails = RetryLimit + (IF last.res = "fail" THEN 1 ELSE 0)

IdleOK(w) ==
    LET q == sched.queue[w]
        d == sched.die[w]
    IN  /\ d.state = "IDLE" /\ w \notin hw.busy /\ Uncommanded(hw, w)
        /\ q = << >> => d.retry = RetryLimit
        /\ q # << >> => Before(q[1], d, hw.last[w], hw.fails[w])

CheckOK(w) ==
    LET q == sched.queue[w]
        r == q[1]
        d == sched.die[w]
    IN  /\ d.state = "EXE" /\ q # << >> /\ r.code # "READ_TRANSFER"
        /\ d.opt = IF r.code = "RESET" THEN "NONE" ELSE "CHECK"
        /\ \/ /\ Commanded(hw, w, OpOf(r.code), r.id) /\ w \notin hw.busy
              /\ Before(r, d, hw.last[w], hw.fails[w]) /\ r.code # "RESET"
           \/ /\ Uncommanded(hw, w) /\ w \in hw.busy
              /\ hw.array[w].op = OpOf(r.code) /\ hw.array[w].id = r.id
              /\ Before(r, d, hw.last[w], hw.fails[w])
           \/ /\ Uncommanded(hw, w) /\ w \notin hw.busy
              /\ After(r, d, hw.last[w], hw.fails[w])

ReportOK(w) ==
    LET q == sched.queue[w]
        r == q[1]
        d == sched.die[w]
    IN  /\ d.state = "EXE" /\ q # << >> /\ w \notin hw.busy
        /\ \/ /\ r.code \in {"READ", "WRITE", "ERASE"} /\ d.opt = "REPORT"
              /\ After(r, d, hw.last[w], hw.fails[w])
              /\ \/ Commanded(hw, w, "status", r.id) /\ hw.report[w] = "0"
                 \/ Uncommanded(hw, w) /\ hw.report[w] \in {hw.last[w].res, "busy"}
           \/ /\ r.code = "READ_TRANSFER" /\ d.opt = "COMPLETION_FLAG"
              /\ \/ /\ Commanded(hw, w, "transfer", r.id) /\ hw.flag[w] = "0"
                    /\ Before(r, d, hw.last[w], hw.fails[w])
                 \/ /\ Uncommanded(hw, w) /\ hw.flag[w] = hw.last[w].res
                    /\ After(r, d, hw.last[w], hw.fails[w])
           \/ /\ r.code = "RESET" /\ d.opt = "NONE" /\ Uncommanded(hw, w)
              /\ After(r, d, hw.last[w], hw.fails[w])

\* The list of a way is the one that fits its die and its queue.
ListCodes(l) ==
    CASE l = "readTrigger" -> {"READ"} [] l = "readTransfer" -> {"READ_TRANSFER"}
      [] l = "erase" -> {"ERASE"} [] l = "write" -> {"WRITE", "RESET"}
      [] OTHER -> Codes

WayOK(w, l) ==
    /\ QueueOK(sched.queue[w], hw.last[w])
    /\ l = "idle" => IdleOK(w)
    /\ l = "statusCheck" => CheckOK(w)
    /\ l = "statusReport" => ReportOK(w)
    /\ l \in {"readTrigger", "erase", "write", "readTransfer"} =>
         IdleOK(w) /\ sched.queue[w] # << >> /\ sched.queue[w][1].code \in ListCodes(l)

\* Where a poll may be: the commands it sends meet a free controller.
PollOK(L) ==
    /\ poll.cur # None /\ ~poll.test => L[poll.cur] = poll.stage
    /\ poll.test => /\ poll.stage \in Started /\ poll.cur # None
                    /\ sched.die[poll.cur].next = None
    /\ poll.stage \in Started /\ ~poll.test => hw.chan = None
    /\ poll.stage = "statusCheck" =>
         poll.ready \cap hw.busy = {} /\ (hw.chan # None => hw.chan.op = "status")

Inv(L, pos) ==
    /\ LinksOK(sched, L, pos)
    /\ IdsOK
    /\ \A w \in Ways : WayOK(w, L[w])
    /\ PollOK(L)

IInv == Typed /\ \E L \in [Ways -> Lists], pos \in [Ways -> Nat] : Inv(L, pos)

(***************************************************************************)
(* The way lists                                                           *)
(***************************************************************************)

LEMMA WayIsSome == \A w \in Ways : w # None /\ w \in Link
  BY NoneAssumption, WaysAssumption DEF Ways, Link

\* What PutTo changes, field by field: u is s with w at the end of list l.
AfterPut(s, u, l, w) ==
    /\ u \in SchedType /\ u.queue = s.queue /\ u.marked = s.marked
    /\ \A v \in Ways :
         /\ u.die[v].state = s.die[v].state /\ u.die[v].opt = s.die[v].opt
         /\ u.die[v].retry = s.die[v].retry
         /\ u.die[v].prev = IF v = w THEN s.list[l].tail ELSE s.die[v].prev
         /\ u.die[v].next = IF v = w THEN None
                            ELSE IF v = s.list[l].tail THEN w ELSE s.die[v].next
    /\ \A m \in Lists :
         /\ u.list[m].head = IF m = l /\ s.list[l].tail = None THEN w ELSE s.list[m].head
         /\ u.list[m].tail = IF m = l THEN w ELSE s.list[m].tail

LEMMA PutToFields ==
    ASSUME NEW s \in SchedType, NEW l \in Lists, NEW w \in Ways
    PROVE  AfterPut(s, PutTo(s, l, w), l, w)
<1> DEFINE tail == s.list[l].tail
           D == [v \in Ways |->
                  IF v = w THEN [s.die[v] EXCEPT !.prev = tail, !.next = None]
                  ELSE IF v = tail THEN [s.die[v] EXCEPT !.next = w]
                  ELSE s.die[v]]
           X == [head |-> IF tail = None THEN w ELSE s.list[l].head, tail |-> w]
           LL == [s.list EXCEPT ![l] = X]
           u == PutTo(s, l, w)
<1>1. /\ tail \in Link /\ X \in [head : Link, tail : Link]
  BY DEF SchedType, Link
<1>2. \A v \in Ways :
        /\ D[v] \in DieType
        /\ D[v].state = s.die[v].state /\ D[v].opt = s.die[v].opt /\ D[v].retry = s.die[v].retry
        /\ D[v].prev = IF v = w THEN tail ELSE s.die[v].prev
        /\ D[v].next = IF v = w THEN None ELSE IF v = tail THEN w ELSE s.die[v].next
  <2> SUFFICES ASSUME NEW v \in Ways
               PROVE  /\ D[v] \in DieType
                      /\ D[v].state = s.die[v].state /\ D[v].opt = s.die[v].opt
                      /\ D[v].retry = s.die[v].retry
                      /\ D[v].prev = IF v = w THEN tail ELSE s.die[v].prev
                      /\ D[v].next = IF v = w THEN None ELSE IF v = tail THEN w ELSE s.die[v].next
    OBVIOUS
  <2> DEFINE A == s.die[v]
  <2>1. A \in DieType /\ w \in Link /\ None \in Link
    BY DEF SchedType, Link
  <2>2. CASE v = w
    <3>1. D[v] = [A EXCEPT !.prev = tail, !.next = None]
      BY <2>2
    <3> HIDE DEF A, D
    <3> QED
      BY <1>1, <2>1, <2>2, <3>1 DEF DieType, A
  <2>3. CASE v # w /\ v = tail
    <3>1. D[v] = [A EXCEPT !.next = w]
      BY <2>3
    <3> HIDE DEF A, D
    <3> QED
      BY <1>1, <2>1, <2>3, <3>1 DEF DieType, A
  <2>4. CASE v # w /\ v # tail
    <3>1. D[v] = A
      BY <2>4
    <3> QED
      BY <2>1, <2>4, <3>1
  <2> QED
    BY <2>2, <2>3, <2>4
<1>3. /\ LL \in [Lists -> [head : Link, tail : Link]]
      /\ \A k \in Lists : LL[k] = IF k = l THEN X ELSE s.list[k]
  BY <1>1 DEF SchedType
<1>4. u = [s EXCEPT !.die = D, !.list = LL]
  BY DEF PutTo, SchedType
<1>5. D \in [Ways -> DieType]
  BY <1>2
<1> HIDE DEF D, LL, X, u
<1>6. /\ u \in SchedType /\ u.queue = s.queue /\ u.marked = s.marked /\ u.die = D /\ u.list = LL
  BY <1>3, <1>4, <1>5 DEF SchedType
<1>7. X.head = (IF tail = None THEN w ELSE s.list[l].head) /\ X.tail = w
  BY DEF X
<1> QED
  BY <1>2, <1>3, <1>6, <1>7 DEF u, AfterPut

\* What GetFrom changes: u is s without w in list l.  The links of w itself stay.
AfterGet(s, u, l, w) ==
    /\ u \in SchedType /\ u.queue = s.queue /\ u.marked = s.marked
    /\ \A v \in Ways :
         /\ u.die[v].state = s.die[v].state /\ u.die[v].opt = s.die[v].opt
         /\ u.die[v].retry = s.die[v].retry
         /\ u.die[v].prev = IF v = s.die[w].next THEN s.die[w].prev ELSE s.die[v].prev
         /\ u.die[v].next = IF v = s.die[w].prev THEN s.die[w].next ELSE s.die[v].next
    /\ \A m \in Lists :
         /\ u.list[m].head = IF m = l /\ s.die[w].prev = None THEN s.die[w].next
                             ELSE s.list[m].head
         /\ u.list[m].tail = IF m = l /\ s.die[w].next = None THEN s.die[w].prev
                             ELSE s.list[m].tail

LEMMA GetFromFields ==
    ASSUME NEW s \in SchedType, NEW l \in Lists, NEW w \in Ways,
           s.die[w].prev # None => s.die[w].prev # s.die[w].next
    PROVE  AfterGet(s, GetFrom(s, l, w), l, w)
<1> DEFINE p == s.die[w].prev
           n == s.die[w].next
           D == [v \in Ways |->
                  IF v = p THEN [s.die[v] EXCEPT !.next = n]
                  ELSE IF v = n THEN [s.die[v] EXCEPT !.prev = p]
                  ELSE s.die[v]]
           X == [head |-> IF p = None THEN n ELSE s.list[l].head,
                 tail |-> IF n = None THEN p ELSE s.list[l].tail]
           LL == [s.list EXCEPT ![l] = X]
           u == GetFrom(s, l, w)
<1>0. p \in Link /\ n \in Link /\ (p # None => p # n)
  BY DEF SchedType, DieType
<1>1. /\ X \in [head : Link, tail : Link]
  BY <1>0 DEF SchedType
<1>2. \A v \in Ways :
        /\ D[v] \in DieType
        /\ D[v].state = s.die[v].state /\ D[v].opt = s.die[v].opt /\ D[v].retry = s.die[v].retry
        /\ D[v].prev = IF v = n THEN p ELSE s.die[v].prev
        /\ D[v].next = IF v = p THEN n ELSE s.die[v].next
  <2> SUFFICES ASSUME NEW v \in Ways
               PROVE  /\ D[v] \in DieType
                      /\ D[v].state = s.die[v].state /\ D[v].opt = s.die[v].opt
                      /\ D[v].retry = s.die[v].retry
                      /\ D[v].prev = IF v = n THEN p ELSE s.die[v].prev
                      /\ D[v].next = IF v = p THEN n ELSE s.die[v].next
    OBVIOUS
  <2> DEFINE A == s.die[v]
  <2>1. A \in DieType /\ v # None
    BY WayIsSome DEF SchedType
  <2>2. CASE v = p
    <3>1. D[v] = [A EXCEPT !.next = n] /\ v # n
      BY <1>0, <2>1, <2>2
    <3> HIDE DEF A, D, n, p
    <3> QED
      BY <1>0, <2>1, <2>2, <3>1 DEF DieType, A
  <2>3. CASE v # p /\ v = n
    <3>1. D[v] = [A EXCEPT !.prev = p]
      BY <2>3
    <3> HIDE DEF A, D, n, p
    <3> QED
      BY <1>0, <2>1, <2>3, <3>1 DEF DieType, A
  <2>4. CASE v # p /\ v # n
    <3>1. D[v] = A
      BY <2>4
    <3> QED
      BY <2>1, <2>4, <3>1
  <2> QED
    BY <2>2, <2>3, <2>4
<1>3. /\ LL \in [Lists -> [head : Link, tail : Link]]
      /\ \A k \in Lists : LL[k] = IF k = l THEN X ELSE s.list[k]
  BY <1>1 DEF SchedType
<1>4. u = [s EXCEPT !.die = D, !.list = LL]
  BY DEF GetFrom, SchedType
<1>5. D \in [Ways -> DieType]
  BY <1>2
<1> HIDE DEF D, LL, X, u
<1>6. /\ u \in SchedType /\ u.queue = s.queue /\ u.marked = s.marked /\ u.die = D /\ u.list = LL
  BY <1>3, <1>4, <1>5 DEF SchedType
<1>7. X.head = (IF p = None THEN n ELSE s.list[l].head)
      /\ X.tail = (IF n = None THEN p ELSE s.list[l].tail)
  BY DEF X
<1> QED
  BY <1>2, <1>3, <1>6, <1>7 DEF u, AfterGet

\* u is r with way w in another list, M names the lists.
AfterMove(s, r, u, M, w) ==
    /\ u \in SchedType /\ u.queue = r.queue /\ u.marked = r.marked
    /\ \A v \in Ways :
         /\ u.die[v].state = s.die[v].state /\ u.die[v].opt = s.die[v].opt
         /\ u.die[v].retry = s.die[v].retry
    /\ u.die[w].next = None
    /\ \E pos2 \in [Ways -> Nat] : LinksOK(u, M, pos2)

\* The way w leaves list k and enters list l; r is what the scheduler has done in
\* between, which leaves the lists alone.
LEMMA Moved ==
    ASSUME NEW s \in SchedType, NEW r \in SchedType, NEW w \in Ways,
           NEW k \in Lists, NEW l \in Lists, k # l,
           NEW L \in [Ways -> Lists], NEW pos \in [Ways -> Nat],
           LinksOK(s, L, pos), L[w] = k,
           r.die = GetFrom(s, k, w).die, r.list = GetFrom(s, k, w).list
    PROVE  AfterMove(s, r, PutTo(r, l, w), [L EXCEPT ![w] = l], w)
<1> DEFINE u == PutTo(r, l, w)
           p == s.die[w].prev
           n == s.die[w].next
           t == s.list[l].tail
           L2 == [L EXCEPT ![w] = l]
           pos2 == [pos EXCEPT ![w] = IF t = None THEN 0 ELSE pos[t] + 1]
<1>1. /\ p \in Link /\ n \in Link /\ t \in Link
      /\ \A v \in Ways : s.die[v].next \in Link /\ s.die[v].prev \in Link
      /\ \A m \in Lists : s.list[m].head \in Link /\ s.list[m].tail \in Link
  BY DEF SchedType, DieType
<1>2. /\ p # None => p \in Ways /\ p # w /\ L[p] = k /\ s.die[p].next = w /\ pos[p] < pos[w]
      /\ n # None => n \in Ways /\ n # w /\ L[n] = k /\ s.die[n].prev = w /\ pos[w] < pos[n]
      /\ t # None => t \in Ways /\ t # w /\ L[t] = l /\ s.die[t].next = None
      /\ p # None => p # n
      /\ p # None /\ n # None => pos[p] < pos[n]
  <2>1. \A v \in Ways : pos[v] \in Nat
    OBVIOUS
  <2>2. p # None => p \in Ways /\ L[p] = k /\ s.die[p].next = w
    BY <1>1 DEF LinksOK, Link
  <2>3. p # None => pos[p] < pos[w]
    BY <2>2, WayIsSome DEF LinksOK
  <2>4. n # None => n \in Ways /\ L[n] = k /\ s.die[n].prev = w /\ pos[w] < pos[n]
    BY <1>1 DEF LinksOK, Link
  <2>5. t # None => t \in Ways /\ L[t] = l /\ s.die[t].next = None
    BY <1>1 DEF LinksOK, Link
  <2> HIDE DEF p, n, t
  <2> QED
    BY <2>1, <2>2, <2>3, <2>4, <2>5
<1>3. r.list[l].tail = t
  <2>1. AfterGet(s, GetFrom(s, k, w), k, w)
    BY <1>2, GetFromFields
  <2> QED
    BY <2>1 DEF AfterGet
<1>4. /\ u \in SchedType /\ u.queue = r.queue /\ u.marked = r.marked
      /\ \A v \in Ways :
           /\ u.die[v].state = s.die[v].state /\ u.die[v].opt = s.die[v].opt
           /\ u.die[v].retry = s.die[v].retry
           /\ u.die[v].prev = IF v = w THEN t ELSE IF v = n THEN p ELSE s.die[v].prev
           /\ u.die[v].next = IF v = w THEN None ELSE IF v = t THEN w
                              ELSE IF v = p THEN n ELSE s.die[v].next
      /\ \A m \in Lists :
           /\ u.list[m].head = IF m = l /\ t = None THEN w
                               ELSE IF m = k /\ p = None THEN n ELSE s.list[m].head
           /\ u.list[m].tail = IF m = l THEN w
                               ELSE IF m = k /\ n = None THEN p ELSE s.list[m].tail
  <2>1. /\ \A v \in Ways :
             /\ r.die[v].state = s.die[v].state /\ r.die[v].opt = s.die[v].opt
             /\ r.die[v].retry = s.die[v].retry
             /\ r.die[v].prev = IF v = n THEN p ELSE s.die[v].prev
             /\ r.die[v].next = IF v = p THEN n ELSE s.die[v].next
        /\ \A m \in Lists :
             /\ r.list[m].head = IF m = k /\ p = None THEN n ELSE s.list[m].head
             /\ r.list[m].tail = IF m = k /\ n = None THEN p ELSE s.list[m].tail
    <3>1. AfterGet(s, GetFrom(s, k, w), k, w)
      BY <1>2, GetFromFields
    <3> QED
      BY <3>1 DEF AfterGet
  <2>2. /\ u \in SchedType /\ u.queue = r.queue /\ u.marked = r.marked
        /\ \A v \in Ways :
             /\ u.die[v].state = r.die[v].state /\ u.die[v].opt = r.die[v].opt
             /\ u.die[v].retry = r.die[v].retry
             /\ u.die[v].prev = IF v = w THEN t ELSE r.die[v].prev
             /\ u.die[v].next = IF v = w THEN None ELSE IF v = t THEN w ELSE r.die[v].next
        /\ \A m \in Lists :
             /\ u.list[m].head = IF m = l /\ t = None THEN w ELSE r.list[m].head
             /\ u.list[m].tail = IF m = l THEN w ELSE r.list[m].tail
    <3>1. AfterPut(r, u, l, w)
      BY PutToFields
    <3> HIDE DEF u, t
    <3> QED
      BY <1>3, <3>1 DEF AfterPut
  <2> HIDE DEF u, p, n, t
  <2> QED
    BY <2>1, <2>2
<1>5. /\ L2 \in [Ways -> Lists] /\ pos2 \in [Ways -> Nat]
      /\ \A v \in Ways : L2[v] = IF v = w THEN l ELSE L[v]
      /\ \A v \in Ways : v # w => pos2[v] = pos[v]
      /\ t # None => pos2[w] = pos[t] + 1
  BY <1>2
<1> HIDE DEF u, p, n, t, L2, pos2
<1>6. \A v \in Ways :
         /\ u.die[v].next # None =>
                /\ L2[u.die[v].next] = L2[v] /\ u.die[u.die[v].next].prev = v
                /\ pos2[v] < pos2[u.die[v].next]
         /\ u.die[v].next = None => u.list[L2[v]].tail = v
  <2> SUFFICES ASSUME NEW v \in Ways
               PROVE  /\ u.die[v].next # None =>
                            /\ L2[u.die[v].next] = L2[v] /\ u.die[u.die[v].next].prev = v
                            /\ pos2[v] < pos2[u.die[v].next]
                      /\ u.die[v].next = None => u.list[L2[v]].tail = v
    OBVIOUS
  <2>1. CASE v = w
    BY <1>4, <1>5, <2>1
  <2>2. CASE v = t /\ v # w
    BY <1>1, <1>2, <1>4, <1>5, <2>2, WayIsSome
  <2>3. CASE v = p /\ v # w
    <3>1. v # t /\ u.die[v].next = n /\ L2[v] = k
      BY <1>2, <1>4, <1>5, <2>3, WayIsSome
    <3>2. CASE n = None
      BY <1>2, <1>4, <1>5, <2>3, <3>1, <3>2
    <3>3. CASE n # None
      <4>1. p # None /\ p \in Ways /\ n \in Ways
        BY <1>2, <2>3, <3>3, WayIsSome
      <4>2. pos2[v] < pos2[n]
        BY <1>2, <1>5, <2>3, <3>3, <4>1
      <4>3. L2[n] = k /\ u.die[n].prev = v
        BY <1>2, <1>4, <1>5, <2>3, <3>3, <4>1
      <4> QED
        BY <3>1, <3>3, <4>2, <4>3
    <3> QED
      BY <3>2, <3>3
  <2>4. CASE v # w /\ v # t /\ v # p
    <3> DEFINE y == s.die[v].next
    <3>1. /\ u.die[v].next = y /\ L2[v] = L[v] /\ y \in Link
          /\ y # None => y \in Ways /\ L[y] = L[v] /\ s.die[y].prev = v /\ pos[v] < pos[y]
          /\ y = None => s.list[L[v]].tail = v
      BY <1>1, <1>4, <1>5, <2>4 DEF LinksOK, Link
    <3>2. y # w
      BY <2>4, <3>1, WayIsSome DEF p
    <3>3. y # None => y # n
      BY <1>2, <2>4, <3>1
    <3>4. y = None => L[v] # l /\ (L[v] = k => n # None)
      BY <2>4, <3>1 DEF t, n, p, LinksOK
    <3> HIDE DEF y
    <3> QED
      BY <1>4, <1>5, <2>4, <3>1, <3>2, <3>3, <3>4
  <2> QED
    BY <2>1, <2>2, <2>3, <2>4
<1>7. \A v \in Ways :
         /\ u.die[v].prev # None =>
                L2[u.die[v].prev] = L2[v] /\ u.die[u.die[v].prev].next = v
         /\ u.die[v].prev = None => u.list[L2[v]].head = v
  <2> SUFFICES ASSUME NEW v \in Ways
               PROVE  /\ u.die[v].prev # None =>
                            L2[u.die[v].prev] = L2[v] /\ u.die[u.die[v].prev].next = v
                      /\ u.die[v].prev = None => u.list[L2[v]].head = v
    OBVIOUS
  <2>1. CASE v = w
    BY <1>2, <1>4, <1>5, <2>1
  <2>2. CASE v = n /\ v # w
    <3>1. u.die[v].prev = p /\ L2[v] = k
      BY <1>2, <1>4, <1>5, <2>2, WayIsSome
    <3>2. CASE p = None
      BY <1>2, <1>4, <1>5, <2>2, <3>1, <3>2
    <3>3. CASE p # None
      <4>1. p # t
        BY <1>2, <3>3
      <4> QED
        BY <1>2, <1>4, <1>5, <2>2, <3>1, <3>3, <4>1
    <3> QED
      BY <3>2, <3>3
  <2>3. CASE v # w /\ v # n
    <3> DEFINE y == s.die[v].prev
    <3>1. /\ u.die[v].prev = y /\ L2[v] = L[v] /\ y \in Link
          /\ y # None => y \in Ways /\ L[y] = L[v] /\ s.die[y].next = v
          /\ y = None => s.list[L[v]].head = v
      BY <1>1, <1>4, <1>5, <2>3 DEF LinksOK, Link
    <3>2. y # w
      BY <2>3, <3>1, WayIsSome DEF n
    <3>3. y # None => y # t /\ y # p
      BY <1>2, <2>3, <3>1, WayIsSome
    <3>4. y = None => (L[v] = l => t # None) /\ (L[v] = k => p # None)
      BY <2>3, <3>1, WayIsSome DEF t, n, p, LinksOK
    <3> HIDE DEF y
    <3> QED
      BY <1>4, <1>5, <2>3, <3>1, <3>2, <3>3, <3>4
  <2> QED
    BY <2>1, <2>2, <2>3
<1>8. \A m \in Lists :
         /\ u.list[m].head # None =>
                L2[u.list[m].head] = m /\ u.die[u.list[m].head].prev = None
         /\ u.list[m].tail # None =>
                L2[u.list[m].tail] = m /\ u.die[u.list[m].tail].next = None
         /\ u.list[m].head = None <=> u.list[m].tail = None
  <2> SUFFICES ASSUME NEW m \in Lists
               PROVE  /\ u.list[m].head # None =>
                            L2[u.list[m].head] = m /\ u.die[u.list[m].head].prev = None
                      /\ u.list[m].tail # None =>
                            L2[u.list[m].tail] = m /\ u.die[u.list[m].tail].next = None
                      /\ u.list[m].head = None <=> u.list[m].tail = None
    OBVIOUS
  <2> DEFINE a == s.list[m].head
             z == s.list[m].tail
  <2>1. /\ a \in Link /\ z \in Link /\ (a = None <=> z = None)
        /\ a # None => a \in Ways /\ L[a] = m /\ s.die[a].prev = None
        /\ z # None => z \in Ways /\ L[z] = m /\ s.die[z].next = None
    BY <1>1 DEF LinksOK, Link
  <2>2. m = l => z = t
    BY DEF t
  <2>3. m = k => /\ p = None <=> a = w
                 /\ n = None <=> z = w
    BY <2>1, WayIsSome DEF p, n, LinksOK
  <2> HIDE DEF a, z
  <2>4. CASE m = l
    BY <1>2, <1>4, <1>5, <2>1, <2>2, <2>4, WayIsSome DEF a
  <2>5. CASE m = k
    BY <1>2, <1>4, <1>5, <2>1, <2>3, <2>5, WayIsSome, SMTT(30) DEF a, z
  <2>6. CASE m # k /\ m # l
    BY <1>2, <1>4, <1>5, <2>1, <2>6, WayIsSome, SMTT(30) DEF a, z
  <2> QED
    BY <2>4, <2>5, <2>6
<1>9. LinksOK(u, L2, pos2)
  BY <1>6, <1>7, <1>8 DEF LinksOK
<1>10. u.die[w].next = None
  BY <1>4
<1> QED
  BY <1>4, <1>5, <1>9, <1>10 DEF u, L2, AfterMove

\* Only the links matter to LinksOK.
LEMMA LinksSame ==
    ASSUME NEW s \in SchedType, NEW u \in SchedType,
           NEW L \in [Ways -> Lists], NEW pos \in [Ways -> Nat], LinksOK(s, L, pos), u.list = s.list,
           \A v \in Ways : u.die[v].prev = s.die[v].prev /\ u.die[v].next = s.die[v].next
    PROVE  LinksOK(u, L, pos)
<1>1. /\ \A v \in Ways : s.die[v].prev \in Link /\ s.die[v].next \in Link
      /\ \A l \in Lists : s.list[l].head \in Link /\ s.list[l].tail \in Link
  BY DEF SchedType, DieType
<1> QED
  BY <1>1, SMTT(30) DEF LinksOK, Link

(***************************************************************************)
(* Steps that are about one way                                            *)
(***************************************************************************)

\* The tables and the hardware of way v stay.
Same(v) ==
    /\ sched'.queue[v] = sched.queue[v]
    /\ sched'.die[v].state = sched.die[v].state /\ sched'.die[v].opt = sched.die[v].opt
    /\ sched'.die[v].retry = sched.die[v].retry
    /\ hw'.array[v] = hw.array[v] /\ hw'.report[v] = hw.report[v]
    /\ hw'.flag[v] = hw.flag[v] /\ hw'.last[v] = hw.last[v] /\ hw'.fails[v] = hw.fails[v]
    /\ v \in hw'.busy <=> v \in hw.busy

Others(w) == \A v \in Ways \ {w} : Same(v)

\* The controller works for no other way than w, before and after.
ChanOf(w) ==
    \/ hw'.chan = hw.chan
    \/ (hw.chan # None => hw.chan.way = w) /\ (hw'.chan # None => hw'.chan.way = w)

LEMMA SameOK ==
    ASSUME NEW v \in Ways, Same(v), NEW w \in Ways, ChanOf(w), v # w \/ hw'.chan = hw.chan,
           NEW l \in Lists, WayOK(v, l)
    PROVE  WayOK(v, l)'
<1>1. /\ sched'.queue[v] = sched.queue[v]
      /\ sched'.die[v].state = sched.die[v].state /\ sched'.die[v].opt = sched.die[v].opt
      /\ sched'.die[v].retry = sched.die[v].retry
      /\ hw'.array[v] = hw.array[v] /\ hw'.report[v] = hw.report[v]
      /\ hw'.flag[v] = hw.flag[v] /\ hw'.last[v] = hw.last[v] /\ hw'.fails[v] = hw.fails[v]
      /\ v \in hw'.busy <=> v \in hw.busy
  BY DEF Same
<1>2. /\ Uncommanded(hw, v) <=> Uncommanded(hw', v)
      /\ \A op, id : Commanded(hw, v, op, id) <=> Commanded(hw', v, op, id)
  BY DEF ChanOf, Commanded, Uncommanded
<1>3. \A r : /\ Before(r, sched.die[v], hw.last[v], hw.fails[v])
                  <=> Before(r, sched'.die[v], hw'.last[v], hw'.fails[v])
             /\ After(r, sched.die[v], hw.last[v], hw.fails[v])
                  <=> After(r, sched'.die[v], hw'.last[v], hw'.fails[v])
  BY <1>1 DEF Before, After
<1>4. IdleOK(v) => IdleOK(v)'
  BY <1>1, <1>2, <1>3 DEF IdleOK
<1>5. CheckOK(v) => CheckOK(v)'
  BY <1>1, <1>2, <1>3 DEF CheckOK
<1>6. ReportOK(v) => ReportOK(v)'
  BY <1>1, <1>2, <1>3 DEF ReportOK
<1> QED
  BY <1>1, <1>4, <1>5, <1>6 DEF WayOK

LEMMA OthersOK ==
    ASSUME NEW w \in Ways, Others(w), ChanOf(w), NEW v \in Ways, v # w,
           NEW l \in Lists, WayOK(v, l)
    PROVE  WayOK(v, l)'
BY SameOK DEF Others

\* What a step does to the queues and to the controller: nothing ...
QueuesKept == sched'.queue = sched.queue /\ sched'.marked = sched.marked

\* ... a command for a free controller and an idle die (CommandsWellTimed) ...
WellTimed ==
    hw'.chan # hw.chan /\ hw'.chan # None => hw.chan = None /\ hw'.chan.way \notin hw.busy

\* The queue of w loses its first `gone' requests (at most one) and gets `more'
\* new ones (at most one); the request that has gone may be booked.
QueueStep(w, gone, more) ==
    LET q == sched.queue[w]
        n == sched'.queue[w]
    IN  /\ Len(n) = Len(q) - gone + more /\ gone <= Len(q)
        /\ sent' = sent + more
        /\ \A i \in 1 .. Len(q) - gone : n[i].id = q[i + gone].id
        /\ more = 1 => n[Len(n)].id = sent'
        /\ \A b \in sched'.marked : b \in sched.marked \/ (gone = 1 /\ b.id = q[1].id)
        /\ \A v \in Ways \ {w} : sched'.queue[v] = sched.queue[v]

LEMMA IdsStep ==
    ASSUME Typed, Typed', IdsOK, NEW w \in Ways, NEW gone \in {0, 1}, NEW more \in {0, 1},
           QueueStep(w, gone, more), \A v \in Ways : hw'.last[v].id \in 0 .. sent'
    PROVE  IdsOK'
<1> DEFINE q == sched.queue[w]
           n == sched'.queue[w]
<1>1. /\ \A v \in Ways : sched.queue[v] \in Seq(Req) /\ sched'.queue[v] \in Seq(Req)
      /\ sent \in Nat /\ sent' = sent + more
  BY DEF Typed, SchedType, QueueStep
<1>2. \A v \in Ways : /\ DOMAIN sched.queue[v] = 1 .. Len(sched.queue[v])
                      /\ DOMAIN sched'.queue[v] = 1 .. Len(sched'.queue[v])
                      /\ Len(sched.queue[v]) \in Nat /\ Len(sched'.queue[v]) \in Nat
  BY <1>1
\* Every request queued now was queued before, or is the new one.
<1>3. \A v \in Ways : \A i \in DOMAIN sched'.queue[v] :
        \/ /\ v # w /\ i \in DOMAIN sched.queue[v] /\ sched'.queue[v][i] = sched.queue[v][i]
        \/ /\ v = w /\ i + gone \in DOMAIN q /\ n[i].id = q[i + gone].id
        \/ /\ v = w /\ more = 1 /\ i = Len(n) /\ n[i].id = sent + 1
  <2> SUFFICES ASSUME NEW v \in Ways, NEW i \in DOMAIN sched'.queue[v]
               PROVE  \/ /\ v # w /\ i \in DOMAIN sched.queue[v]
                         /\ sched'.queue[v][i] = sched.queue[v][i]
                      \/ /\ v = w /\ i + gone \in DOMAIN q /\ n[i].id = q[i + gone].id
                      \/ /\ v = w /\ more = 1 /\ i = Len(n) /\ n[i].id = sent + 1
    OBVIOUS
  <2>1. CASE v # w
    BY <2>1 DEF QueueStep
  <2>2. CASE v = w
    <3>1. /\ Len(n) = Len(q) - gone + more /\ gone <= Len(q)
          /\ \A j \in 1 .. Len(q) - gone : n[j].id = q[j + gone].id
          /\ more = 1 => n[Len(n)].id = sent + 1
      BY <1>1 DEF QueueStep
    <3> HIDE DEF q, n
    <3>2. /\ i \in 1 .. Len(n) /\ Len(n) \in Nat /\ Len(q) \in Nat /\ DOMAIN q = 1 .. Len(q)
      BY <1>2, <2>2 DEF q, n
    <3>3. i \in 1 .. Len(q) - gone \/ (more = 1 /\ i = Len(n))
      BY <3>1, <3>2
    <3>4. i \in 1 .. Len(q) - gone => i + gone \in DOMAIN q
      BY <3>1, <3>2
    <3> QED
      BY <2>2, <3>1, <3>3, <3>4
  <2> QED
    BY <2>1, <2>2
<1>4. \A v \in Ways : \A i \in DOMAIN sched.queue[v] : sched.queue[v][i].id \in 1 .. sent
  BY DEF IdsOK
<1>5. \A v \in Ways : \A i \in DOMAIN sched'.queue[v] : sched'.queue[v][i].id \in 1 .. sent'
  <2> SUFFICES ASSUME NEW v \in Ways, NEW i \in DOMAIN sched'.queue[v]
               PROVE  sched'.queue[v][i].id \in 1 .. sent'
    OBVIOUS
  <2>1. \/ sched'.queue[v][i].id \in 1 .. sent
        \/ more = 1 /\ sched'.queue[v][i].id = sent + 1
    BY <1>3, <1>4
  <2> QED
    BY <1>1, <2>1
<1>6. ASSUME NEW v \in Ways, NEW i \in DOMAIN sched'.queue[v],
             NEW u \in Ways, NEW j \in DOMAIN sched'.queue[u],
             sched'.queue[v][i].id = sched'.queue[u][j].id
      PROVE  u = v /\ i = j
  <2>1. i \in Nat /\ j \in Nat
    BY <1>2
  <2>2. CASE v # w /\ u # w
    BY <1>3, <1>6, <2>2 DEF IdsOK
  <2>3. CASE v # w /\ u = w
    <3>1. i \in DOMAIN sched.queue[v] /\ sched'.queue[v][i] = sched.queue[v][i]
      BY <1>3, <2>3
    <3>2. sched.queue[v][i].id \in 1 .. sent
      BY <1>4, <3>1
    <3>3. j + gone \in DOMAIN q /\ n[j].id = q[j + gone].id
      <4>1. n[j].id # sent + 1
        BY <1>1, <1>6, <2>3, <3>1, <3>2
      <4> QED
        BY <1>3, <2>3, <4>1
    <3> QED
      BY <1>6, <2>3, <3>1, <3>3 DEF IdsOK
  <2>4. CASE v = w /\ u # w
    <3>1. j \in DOMAIN sched.queue[u] /\ sched'.queue[u][j] = sched.queue[u][j]
      BY <1>3, <2>4
    <3>2. sched.queue[u][j].id \in 1 .. sent
      BY <1>4, <3>1
    <3>3. i + gone \in DOMAIN q /\ n[i].id = q[i + gone].id
      <4>1. n[i].id # sent + 1
        BY <1>1, <1>6, <2>4, <3>1, <3>2
      <4> QED
        BY <1>3, <2>4, <4>1
    <3> QED
      BY <1>6, <2>4, <3>1, <3>3 DEF IdsOK
  <2>5. CASE v = w /\ u = w
    <3>1. \/ i + gone \in DOMAIN q /\ n[i].id = q[i + gone].id
          \/ i = Len(n) /\ n[i].id = sent + 1
      BY <1>3, <2>5
    <3>2. \/ j + gone \in DOMAIN q /\ n[j].id = q[j + gone].id
          \/ j = Len(n) /\ n[j].id = sent + 1
      BY <1>3, <2>5
    <3>3. CASE i + gone \in DOMAIN q /\ j + gone \in DOMAIN q /\ n[i].id = q[i + gone].id
                 /\ n[j].id = q[j + gone].id
      <4>1. i + gone = j + gone
        BY <1>6, <2>5, <3>3 DEF IdsOK
      <4> QED
        BY <2>1, <2>5, <4>1
    <3> QED
      BY <1>1, <1>4, <1>6, <2>1, <2>5, <3>1, <3>2, <3>3, SMTT(30)
  <2> QED
    BY <2>2, <2>3, <2>4, <2>5
<1>7. \A b \in sched'.marked : b.id \in 1 .. sent'
  <2> SUFFICES ASSUME NEW b \in sched'.marked PROVE b.id \in 1 .. sent'
    OBVIOUS
  <2>1. CASE b \in sched.marked
    BY <1>1, <2>1 DEF IdsOK
  <2>2. CASE gone = 1 /\ b.id = q[1].id
    <3>1. 1 \in DOMAIN q
      BY <1>2, <2>2 DEF QueueStep
    <3> QED
      BY <1>1, <1>4, <2>2, <3>1
  <2> QED
    BY <2>1, <2>2 DEF QueueStep
<1>8. ASSUME NEW v \in Ways, NEW i \in DOMAIN sched'.queue[v], NEW b \in sched'.marked
      PROVE  b.id # sched'.queue[v][i].id
  <2>1. CASE b \in sched.marked
    <3>1. b.id \in 1 .. sent
      BY <2>1 DEF IdsOK
    <3>2. CASE v # w /\ i \in DOMAIN sched.queue[v] /\ sched'.queue[v][i] = sched.queue[v][i]
      BY <2>1, <3>2 DEF IdsOK
    <3>3. CASE v = w /\ i + gone \in DOMAIN q /\ n[i].id = q[i + gone].id
      BY <2>1, <3>3 DEF IdsOK
    <3>4. CASE v = w /\ n[i].id = sent + 1
      BY <1>1, <3>1, <3>4
    <3> QED
      BY <1>3, <3>2, <3>3, <3>4
  <2>2. CASE gone = 1 /\ b.id = q[1].id
    <3>1. 1 \in DOMAIN q
      BY <1>2, <2>2 DEF QueueStep
    <3>2. i \in Nat /\ i > 0
      BY <1>2
    <3>3. CASE v = w /\ i + 1 \in DOMAIN q /\ n[i].id = q[i + 1].id
      <4>1. i + 1 # 1
        BY <3>2
      <4>2. q[i + 1].id # q[1].id
        BY <3>1, <3>3, <4>1 DEF IdsOK
      <4> QED
        BY <2>2, <3>3, <4>2
    <3>4. CASE v = w /\ n[i].id = sent + 1
      BY <1>1, <1>4, <2>2, <3>1, <3>4
    <3>5. CASE v # w /\ i \in DOMAIN sched.queue[v] /\ sched'.queue[v][i] = sched.queue[v][i]
      BY <2>2, <3>1, <3>5 DEF IdsOK
    <3> QED
      BY <1>3, <2>2, <3>3, <3>4, <3>5
  <2> QED
    BY <2>1, <2>2 DEF QueueStep
<1> QED
  BY <1>5, <1>6, <1>7, <1>8 DEF IdsOK

\* A step about way w, which may change its list: what is left to show.
LEMMA OneWay ==
    ASSUME NEW L \in [Ways -> Lists], NEW pos \in [Ways -> Nat], Inv(L, pos), NEW w \in Ways,
           NEW M \in [Ways -> Lists], NEW pos2 \in [Ways -> Nat],
           \A v \in Ways \ {w} : M[v] = L[v],
           Typed', LinksOK(sched', M, pos2), IdsOK', Others(w), ChanOf(w),
           WayOK(w, M[w])', PollOK(M)'
    PROVE  IInv'
<1>1. \A v \in Ways : v # w => WayOK(v, M[v])'
  BY OthersOK DEF Inv
<1>2. Inv(M, pos2)'
  BY <1>1 DEF Inv
<1> QED
  BY <1>2 DEF IInv

\* The same for a step of the hardware.
LEMMA HwStep ==
    ASSUME Typed, NEW L \in [Ways -> Lists], NEW pos \in [Ways -> Nat], Inv(L, pos),
           NEW w \in Ways, UNCHANGED <<sched, poll, sent>>, hw' \in HwType, faults' \in Nat,
           Others(w), ChanOf(w), hw'.last[w].id \in 0 .. sent,
           WayOK(w, L[w])', PollOK(L)'
    PROVE  IInv'
<1>1. Typed'
  BY DEF Typed
<1>2. \A v \in Ways : hw'.last[v].id \in 0 .. sent'
  BY DEF Others, Same, Inv, IdsOK
<1>3. IdsOK'
  BY <1>2 DEF Inv, IdsOK
<1>4. LinksOK(sched', L, pos)
  BY DEF Inv
<1> QED
  BY <1>1, <1>3, <1>4, OneWay

\* What a way is in when the controller works for it.
LEMMA CommandedWay ==
    ASSUME NEW w \in Ways, NEW l \in Lists, WayOK(w, l), hw.chan # None, hw.chan.way = w
    PROVE  /\ sched.queue[w] # << >> /\ sched.die[w].state = "EXE" /\ w \notin hw.busy
           /\ hw.chan.id = sched.queue[w][1].id
           /\ \/ /\ l = "statusCheck" /\ CheckOK(w)
                 /\ hw.chan.op = OpOf(sched.queue[w][1].code)
                 /\ Before(sched.queue[w][1], sched.die[w], hw.last[w], hw.fails[w])
                 /\ sched.queue[w][1].code \notin {"RESET", "READ_TRANSFER"}
              \/ /\ l = "statusReport" /\ ReportOK(w) /\ hw.chan.op = "status"
                 /\ sched.queue[w][1].code \in {"READ", "WRITE", "ERASE"}
                 /\ sched.die[w].opt = "REPORT"
                 /\ After(sched.queue[w][1], sched.die[w], hw.last[w], hw.fails[w])
              \/ /\ l = "statusReport" /\ ReportOK(w) /\ hw.chan.op = "transfer"
                 /\ sched.queue[w][1].code = "READ_TRANSFER"
                 /\ sched.die[w].opt = "COMPLETION_FLAG"
                 /\ Before(sched.queue[w][1], sched.die[w], hw.last[w], hw.fails[w])
<1>1. ~Uncommanded(hw, w)
  BY DEF Uncommanded
<1>2. l \in {"statusCheck", "statusReport"}
  BY <1>1 DEF WayOK, IdleOK, Lists
<1>3. CASE l = "statusCheck"
  <2>1. CheckOK(w)
    BY <1>3 DEF WayOK
  <2> QED
    BY <1>1, <1>3, <2>1 DEF CheckOK, Commanded
<1>4. CASE l = "statusReport"
  <2>1. ReportOK(w)
    BY <1>4 DEF WayOK
  <2> QED
    BY <1>1, <1>4, <2>1 DEF ReportOK, Commanded
<1> QED
  BY <1>2, <1>3, <1>4

LEMMA CommandSentOK ==
    ASSUME Typed, NEW L \in [Ways -> Lists], NEW pos \in [Ways -> Nat], Inv(L, pos),
           CommandSent
    PROVE  IInv' /\ QueuesKept /\ WellTimed
<1>1. PICK w \in Ways, op \in Ops, id \in Nat :
        hw.chan.way = w /\ hw.chan.op = op /\ hw.chan.id = id
  BY DEF CommandSent, Typed, HwType, Commands, Ops
<1>2. /\ hw.chan # None /\ op \in {"trigger", "program", "erase"}
      /\ hw' = [hw EXCEPT !.chan = None, !.busy = @ \cup {w}, !.array[w] = [op |-> op, id |-> id]]
      /\ UNCHANGED <<sched, poll, sent, faults>>
  BY <1>1 DEF CommandSent
<1> DEFINE A == [hw.array EXCEPT ![w] = [op |-> op, id |-> id]]
           B == hw.busy \cup {w}
<1>3. /\ A \in [Ways -> [op : Ops, id : Nat]] /\ B \in SUBSET Ways
      /\ A[w].op = op /\ A[w].id = id /\ \A v \in Ways \ {w} : A[v] = hw.array[v]
  BY DEF Typed, HwType
<1>4. hw' = [hw EXCEPT !.chan = None, !.busy = B, !.array = A]
  BY <1>2 DEF Typed, HwType
<1> HIDE DEF A
<1>5. /\ hw' \in HwType /\ hw'.chan = None /\ hw'.busy = B /\ hw'.array = A
      /\ hw'.report = hw.report /\ hw'.flag = hw.flag /\ hw'.last = hw.last
      /\ hw'.fails = hw.fails
  BY <1>3, <1>4 DEF Typed, HwType
<1>6. Others(w) /\ ChanOf(w)
  BY <1>1, <1>2, <1>3, <1>5 DEF Others, Same, ChanOf
<1>7. /\ CheckOK(w) /\ L[w] = "statusCheck" /\ op = OpOf(sched.queue[w][1].code)
      /\ id = sched.queue[w][1].id
      /\ Before(sched.queue[w][1], sched.die[w], hw.last[w], hw.fails[w])
  BY <1>1, <1>2, CommandedWay DEF Inv
<1>8. CheckOK(w)'
  BY <1>2, <1>3, <1>5, <1>7 DEF CheckOK, Uncommanded
<1>9. WayOK(w, L[w])'
  BY <1>2, <1>5, <1>7, <1>8 DEF WayOK, Inv
<1>10. PollOK(L)'
  BY <1>1, <1>2, <1>5 DEF PollOK, Inv
<1>11. hw'.last[w].id \in 0 .. sent /\ faults' \in Nat
  BY <1>2, <1>5 DEF Inv, IdsOK, Typed
<1>12. IInv'
  BY <1>2, <1>5, <1>6, <1>9, <1>10, <1>11, HwStep
<1> QED
  BY <1>2, <1>5, <1>12 DEF QueuesKept, WellTimed

LEMMA StatusWrittenOK ==
    ASSUME Typed, NEW L \in [Ways -> Lists], NEW pos \in [Ways -> Nat], Inv(L, pos),
           StatusWritten
    PROVE  IInv' /\ QueuesKept /\ WellTimed
<1>1. PICK w \in Ways : hw.chan.way = w
  BY DEF StatusWritten, Typed, HwType, Commands
<1>2. PICK st \in {hw.last[w].res, "busy"} :
        /\ hw.chan # None /\ hw.chan.op = "status"
        /\ hw' = [hw EXCEPT !.chan = None, !.report[w] = st]
        /\ UNCHANGED <<sched, poll, sent>> /\ faults' \in {faults, faults + 1}
  BY <1>1 DEF StatusWritten, Answers
<1> DEFINE R == [hw.report EXCEPT ![w] = st]
<1>3. st \in {"pass", "fail", "warning", "busy"}
  BY DEF Typed, HwType
<1>4. /\ R \in [Ways -> {"0", "pass", "fail", "warning", "busy"}]
      /\ R[w] = st /\ \A v \in Ways \ {w} : R[v] = hw.report[v]
  BY <1>3 DEF Typed, HwType
<1>5. hw' = [hw EXCEPT !.chan = None, !.report = R]
  BY <1>2 DEF Typed, HwType
<1> HIDE DEF R
<1>6. /\ hw' \in HwType /\ hw'.chan = None /\ hw'.busy = hw.busy /\ hw'.array = hw.array
      /\ hw'.report = R /\ hw'.flag = hw.flag /\ hw'.last = hw.last
      /\ hw'.fails = hw.fails
  BY <1>4, <1>5 DEF Typed, HwType
<1>7. Others(w) /\ ChanOf(w)
  BY <1>1, <1>2, <1>4, <1>6 DEF Others, Same, ChanOf
<1>8. /\ ReportOK(w) /\ L[w] = "statusReport"
      /\ sched.queue[w][1].code \in {"READ", "WRITE", "ERASE"} /\ sched.die[w].opt = "REPORT"
      /\ After(sched.queue[w][1], sched.die[w], hw.last[w], hw.fails[w])
  <2>1. OpOf(sched.queue[w][1].code) # "status" \/ sched.queue[w][1].code \notin Codes
    BY DEF OpOf, Codes
  <2>2. sched.queue[w] # << >> => sched.queue[w][1] \in Req
    BY DEF Typed, SchedType
  <2>3. sched.queue[w] # << >> => sched.queue[w][1].code \in Codes
    BY <2>2 DEF Req
  <2> QED
    BY <1>1, <1>2, <2>1, <2>3, CommandedWay DEF Inv
<1>9. ReportOK(w)'
  BY <1>2, <1>4, <1>6, <1>8 DEF ReportOK, Uncommanded
<1>10. WayOK(w, L[w])'
  BY <1>2, <1>6, <1>8, <1>9 DEF WayOK, Inv
<1>11. PollOK(L)'
  BY <1>1, <1>2, <1>6 DEF PollOK, Inv
<1>12. hw'.last[w].id \in 0 .. sent /\ faults' \in Nat
  BY <1>2, <1>6 DEF Inv, IdsOK, Typed
<1>13. IInv'
  BY <1>2, <1>6, <1>7, <1>10, <1>11, <1>12, HwStep
<1> QED
  BY <1>2, <1>6, <1>13 DEF QueuesKept, WellTimed

\* What Outcome changes.
IsOutcome(last, fails, w, op, id, res) ==
    /\ last \in [Ways -> [op : Ops, id : Nat, res : {"pass", "fail", "warning"}]]
    /\ fails \in [Ways -> Nat]
    /\ Outcome(hw, w, op, id, res) = [hw EXCEPT !.last = last, !.fails = fails]
    /\ last[w].op = op /\ last[w].id = id /\ last[w].res = res
    /\ fails[w] = (IF hw.last[w].id = id THEN hw.fails[w] ELSE 0)
                  + (IF res = "fail" THEN 1 ELSE 0)
    /\ \A v \in Ways \ {w} : last[v] = hw.last[v] /\ fails[v] = hw.fails[v]

LEMMA OutcomeFields ==
    ASSUME Typed, NEW w \in Ways, NEW op \in Ops, NEW id \in Nat,
           NEW res \in {"pass", "fail", "warning"}
    PROVE  \E last, fails : IsOutcome(last, fails, w, op, id, res)
<1> DEFINE E == [op |-> op, id |-> id, res |-> res]
           n == (IF hw.last[w].id = id THEN hw.fails[w] ELSE 0) + (IF res = "fail" THEN 1 ELSE 0)
           last == [hw.last EXCEPT ![w] = E]
           fails == [hw.fails EXCEPT ![w] = n]
<1>1. n \in Nat
  BY DEF Typed, HwType
<1>2. /\ last \in [Ways -> [op : Ops, id : Nat, res : {"pass", "fail", "warning"}]]
      /\ last[w].op = op /\ last[w].id = id /\ last[w].res = res
      /\ \A v \in Ways \ {w} : last[v] = hw.last[v]
  BY DEF Typed, HwType
<1> HIDE DEF n
<1>3. /\ fails \in [Ways -> Nat] /\ fails[w] = n
      /\ \A v \in Ways \ {w} : fails[v] = hw.fails[v]
  BY <1>1 DEF Typed, HwType
<1>4. Outcome(hw, w, op, id, res) = [hw EXCEPT !.last = last, !.fails = fails]
  BY DEF Typed, HwType, Outcome, n
<1> HIDE DEF last, fails
<1>5. IsOutcome(last, fails, w, op, id, res)
  BY <1>2, <1>3, <1>4 DEF n, IsOutcome
<1> QED
  BY <1>5

\* The retries after an outcome of the operation the head of the queue waits for.
LEMMA OutcomeRetries ==
    ASSUME NEW r \in Req, NEW d \in DieType, NEW last, NEW fails \in Nat, NEW last2, NEW fails2,
           Before(r, d, last, fails), last2.id = r.id, last2.op = OpOf(r.code),
           last2.res = "warning" => r.code = "READ_TRANSFER",
           r.code = "RESET" => last2.res = "pass",
           fails2 = (IF last.id = r.id THEN fails ELSE 0) + (IF last2.res = "fail" THEN 1 ELSE 0)
    PROVE  After(r, d, last2, fails2)
<1>1. d.retry \in Nat /\ RetryLimit \in Nat
  BY WaysAssumption DEF DieType
<1> QED
  BY <1>1 DEF Before, After

LEMMA HeadTyped ==
    ASSUME Typed, NEW w \in Ways
    PROVE  /\ sched.queue[w] \in Seq(Req) /\ sched.die[w] \in DieType
           /\ hw.fails[w] \in Nat
           /\ sched.queue[w] # << >> =>
                /\ sched.queue[w][1] \in Req /\ sched.queue[w][1].id \in Nat
                /\ sched.queue[w][1].code \in Codes /\ 1 \in DOMAIN sched.queue[w]
<1>1. /\ sched.queue[w] \in Seq(Req) /\ sched.die[w] \in DieType /\ hw.fails[w] \in Nat
  BY DEF Typed, SchedType, HwType
<1>2. sched.queue[w] # << >> => sched.queue[w][1] \in Req /\ 1 \in DOMAIN sched.queue[w]
  BY <1>1
<1> QED
  BY <1>1, <1>2 DEF Req

LEMMA OpOfCode ==
    ASSUME NEW code \in Codes
    PROVE  /\ OpOf(code) \in Ops \ {"none"}
           /\ OpOf(code) = "reset" <=> code = "RESET"
           /\ OpOf(code) = "transfer" <=> code = "READ_TRANSFER"
BY DEF Codes, OpOf, Ops

\* The head of the queue differs from those behind it.
LEMMA LaterIds ==
    ASSUME NEW L \in [Ways -> Lists], NEW pos \in [Ways -> Nat], Inv(L, pos), Typed,
           NEW w \in Ways, NEW i \in DOMAIN sched.queue[w], i > 1
    PROVE  sched.queue[w][1].id # sched.queue[w][i].id
<1>1. 1 \in DOMAIN sched.queue[w] /\ i \in Nat
  BY HeadTyped
<1> QED
  BY <1>1 DEF Inv, IdsOK

LEMMA TransferDoneOK ==
    ASSUME Typed, NEW L \in [Ways -> Lists], NEW pos \in [Ways -> Nat], Inv(L, pos),
           TransferDone
    PROVE  IInv' /\ QueuesKept /\ WellTimed
<1>1. PICK w \in Ways, id \in Nat : hw.chan.way = w /\ hw.chan.id = id
  BY DEF TransferDone, Typed, HwType, Commands
<1>2. PICK res \in {"pass", "fail", "warning"} :
        /\ hw.chan # None /\ hw.chan.op = "transfer"
        /\ hw' = [Outcome(hw, w, "transfer", id, res) EXCEPT !.chan = None, !.flag[w] = res]
        /\ UNCHANGED <<sched, poll, sent>> /\ faults' \in {faults, faults + 1}
  BY <1>1 DEF TransferDone, Answers
<1>2a. PICK last, fails : IsOutcome(last, fails, w, "transfer", id, res)
  BY OutcomeFields DEF Ops
<1>3. /\ last \in [Ways -> [op : Ops, id : Nat, res : {"pass", "fail", "warning"}]]
      /\ fails \in [Ways -> Nat]
      /\ Outcome(hw, w, "transfer", id, res) = [hw EXCEPT !.last = last, !.fails = fails]
      /\ last[w].op = "transfer" /\ last[w].id = id /\ last[w].res = res
      /\ fails[w] = (IF hw.last[w].id = id THEN hw.fails[w] ELSE 0)
                    + (IF res = "fail" THEN 1 ELSE 0)
      /\ \A v \in Ways \ {w} : last[v] = hw.last[v] /\ fails[v] = hw.fails[v]
  BY <1>2a DEF IsOutcome
<1> DEFINE F == [hw.flag EXCEPT ![w] = res]
<1>4. /\ F \in [Ways -> {"0", "pass", "fail", "warning"}] /\ F[w] = res
      /\ \A v \in Ways \ {w} : F[v] = hw.flag[v]
  BY DEF Typed, HwType
<1>5. hw' = [hw EXCEPT !.last = last, !.fails = fails, !.chan = None, !.flag = F]
  BY <1>2, <1>3 DEF Typed, HwType
<1> HIDE DEF F
<1>6. /\ hw' \in HwType /\ hw'.chan = None /\ hw'.busy = hw.busy /\ hw'.array = hw.array
      /\ hw'.report = hw.report /\ hw'.flag = F /\ hw'.last = last
      /\ hw'.fails = fails
  BY <1>3, <1>4, <1>5 DEF Typed, HwType
<1>7. Others(w) /\ ChanOf(w)
  BY <1>1, <1>2, <1>3, <1>4, <1>6 DEF Others, Same, ChanOf
<1> DEFINE r == sched.queue[w][1]
<1>8. /\ ReportOK(w) /\ L[w] = "statusReport" /\ sched.queue[w] # << >>
      /\ r.code = "READ_TRANSFER" /\ sched.die[w].opt = "COMPLETION_FLAG" /\ id = r.id
      /\ Before(r, sched.die[w], hw.last[w], hw.fails[w])
  BY <1>1, <1>2, CommandedWay, HeadTyped, OpOfCode DEF Inv
<1>9. /\ r \in Req /\ r.id \in 1 .. sent
  BY <1>8, HeadTyped DEF Inv, IdsOK
<1>10. After(r, sched.die[w], hw'.last[w], hw'.fails[w])
  <2>1. last[w].op = OpOf(r.code)
    BY <1>3, <1>8 DEF OpOf
  <2> HIDE DEF r
  <2> QED
    <3>1. sched.die[w] \in DieType /\ hw.fails[w] \in Nat
      BY HeadTyped
    <3>2. hw'.last[w] = last[w] /\ hw'.fails[w] = fails[w]
      BY <1>6
    <3>3. /\ last[w].id = r.id
          /\ last[w].res = "warning" => r.code = "READ_TRANSFER"
          /\ r.code = "RESET" => last[w].res = "pass"
      BY <1>3, <1>8
    <3>4. fails[w] = (IF hw.last[w].id = r.id THEN hw.fails[w] ELSE 0)
                     + (IF last[w].res = "fail" THEN 1 ELSE 0)
      BY <1>3, <1>8
    <3>5. hw.last[w].id = r.id /\ sched.die[w].retry + hw.fails[w] = RetryLimit
      BY <1>8 DEF Before
    <3>6. fails[w] = hw.fails[w] + (IF last[w].res = "fail" THEN 1 ELSE 0)
      BY <3>4, <3>5
    <3>7. sched.die[w].retry + fails[w] = RetryLimit + (IF last[w].res = "fail" THEN 1 ELSE 0)
      <4>1. sched.die[w].retry \in Nat /\ RetryLimit \in Nat
        BY <3>1, WaysAssumption DEF DieType
      <4> QED
        BY <3>1, <3>5, <3>6, <4>1
    <3>8. After(r, sched.die[w], last[w], fails[w])
      BY <1>8, <2>1, <3>3, <3>7 DEF After
    <3> QED
      BY <3>2, <3>8
<1>11. ReportOK(w)'
  BY <1>2, <1>3, <1>4, <1>6, <1>8, <1>10 DEF ReportOK, Uncommanded
<1>12. QueueOK(sched.queue[w], hw'.last[w])
  <2>1. \A i \in DOMAIN sched.queue[w] : i > 1 => id # sched.queue[w][i].id
    BY <1>8, LaterIds
  <2> QED
    BY <1>3, <1>6, <2>1 DEF Inv, WayOK, QueueOK
<1>13. WayOK(w, L[w])'
  BY <1>2, <1>6, <1>8, <1>11, <1>12 DEF WayOK
<1>14. PollOK(L)'
  BY <1>1, <1>2, <1>6 DEF PollOK, Inv
<1>15. hw'.last[w].id \in 0 .. sent /\ faults' \in Nat
  <2>1. sent \in Nat /\ faults \in Nat
    BY DEF Typed
  <2>2. hw'.last[w].id = r.id
    BY <1>3, <1>6, <1>8
  <2> HIDE DEF r
  <2> QED
    BY <1>2, <1>9, <2>1, <2>2
<1>16. IInv'
  BY <1>2, <1>6, <1>7, <1>13, <1>14, <1>15, HwStep
<1> QED
  BY <1>2, <1>6, <1>16 DEF QueuesKept, WellTimed

LEMMA DieDoneOK ==
    ASSUME Typed, NEW L \in [Ways -> Lists], NEW pos \in [Ways -> Nat], Inv(L, pos),
           NEW w \in Ways, DieDone(w)
    PROVE  IInv' /\ QueuesKept /\ WellTimed
<1> DEFINE r == sched.queue[w][1]
<1>1. /\ w \in hw.busy /\ L[w] = "statusCheck" /\ CheckOK(w) /\ sched.queue[w] # << >>
      /\ Uncommanded(hw, w) /\ hw.array[w].op = OpOf(r.code) /\ hw.array[w].id = r.id
      /\ r.code # "READ_TRANSFER" /\ Before(r, sched.die[w], hw.last[w], hw.fails[w])
  <2>1. w \in hw.busy /\ WayOK(w, L[w]) /\ L[w] \in Lists
    BY DEF DieDone, Inv
  <2>2. L[w] = "statusCheck" /\ CheckOK(w)
    BY <2>1 DEF WayOK, IdleOK, ReportOK, Lists
  <2> QED
    BY <2>1, <2>2 DEF CheckOK
<1>2. /\ r \in Req /\ r.id \in 1 .. sent /\ r.id \in Nat /\ OpOf(r.code) \in Ops
      /\ OpOf(r.code) = "reset" <=> r.code = "RESET"
  BY <1>1, HeadTyped, OpOfCode DEF Inv, IdsOK
<1>3. PICK res \in {"pass", "fail"} :
        /\ hw' = [Outcome(hw, w, OpOf(r.code), r.id, res) EXCEPT
                    !.busy = @ \ {w}, !.array[w] = NoOp]
        /\ r.code = "RESET" => res = "pass"
        /\ UNCHANGED <<sched, poll, sent>> /\ faults' \in {faults, faults + 1}
  BY <1>1, <1>2 DEF DieDone, Answers
<1>3a. PICK last, fails : IsOutcome(last, fails, w, OpOf(r.code), r.id, res)
  BY <1>2, OutcomeFields DEF Ops
<1>4. /\ last \in [Ways -> [op : Ops, id : Nat, res : {"pass", "fail", "warning"}]]
      /\ fails \in [Ways -> Nat]
      /\ Outcome(hw, w, OpOf(r.code), r.id, res) = [hw EXCEPT !.last = last, !.fails = fails]
      /\ last[w].op = OpOf(r.code) /\ last[w].id = r.id /\ last[w].res = res
      /\ fails[w] = (IF hw.last[w].id = r.id THEN hw.fails[w] ELSE 0)
                    + (IF res = "fail" THEN 1 ELSE 0)
      /\ \A v \in Ways \ {w} : last[v] = hw.last[v] /\ fails[v] = hw.fails[v]
  BY <1>3a DEF IsOutcome
<1> DEFINE A == [hw.array EXCEPT ![w] = NoOp]
           B == hw.busy \ {w}
<1>5. /\ A \in [Ways -> [op : Ops, id : Nat]] /\ B \in SUBSET Ways
      /\ \A v \in Ways \ {w} : A[v] = hw.array[v]
  BY DEF Typed, HwType, NoOp, Ops
<1>6. hw' = [hw EXCEPT !.last = last, !.fails = fails, !.busy = B, !.array = A]
  BY <1>3, <1>4 DEF Typed, HwType
<1> HIDE DEF A
<1>7. /\ hw' \in HwType /\ hw'.chan = hw.chan /\ hw'.busy = B /\ hw'.array = A
      /\ hw'.report = hw.report /\ hw'.flag = hw.flag /\ hw'.last = last
      /\ hw'.fails = fails
  BY <1>4, <1>5, <1>6 DEF Typed, HwType
<1>8. Others(w) /\ ChanOf(w)
  BY <1>3, <1>4, <1>5, <1>7 DEF Others, Same, ChanOf
<1>9. After(r, sched.die[w], hw'.last[w], hw'.fails[w])
  <2> HIDE DEF r
  <2> QED
    <3>1. /\ r \in Req /\ sched.die[w] \in DieType /\ hw.fails[w] \in Nat
          /\ last[w].res # "warning" /\ (r.code = "RESET" => last[w].res = "pass")
      BY <1>2, <1>3, <1>4, HeadTyped
    <3> QED
      BY <1>1, <1>4, <1>7, <3>1, OutcomeRetries
<1>10. CheckOK(w)'
  BY <1>1, <1>3, <1>7, <1>9 DEF CheckOK, Uncommanded
<1>11. QueueOK(sched.queue[w], hw'.last[w])
  <2>1. \A i \in DOMAIN sched.queue[w] : i > 1 => r.id # sched.queue[w][i].id
    BY LaterIds
  <2> QED
    BY <1>4, <1>7, <2>1 DEF Inv, WayOK, QueueOK
<1>12. WayOK(w, L[w])'
  BY <1>1, <1>3, <1>7, <1>10, <1>11 DEF WayOK
<1>13. PollOK(L)'
  BY <1>3, <1>7 DEF PollOK, Inv
<1>14. hw'.last[w].id \in 0 .. sent /\ faults' \in Nat
  BY <1>2, <1>3, <1>4, <1>7 DEF Typed
<1>15. IInv'
  BY <1>3, <1>7, <1>8, <1>12, <1>13, <1>14, HwStep
<1> QED
  BY <1>3, <1>7, <1>15 DEF QueuesKept, WellTimed

\* The steps of a poll that only move on.
LEMMA PollStep ==
    ASSUME Typed, NEW L \in [Ways -> Lists], NEW pos \in [Ways -> Nat], Inv(L, pos),
           UNCHANGED <<sched, hw, sent, faults>>, poll' \in PollType, PollOK(L)'
    PROVE  IInv'
<1>1. Typed'
  BY DEF Typed
<1>2. sched' = sched /\ hw' = hw /\ sent' = sent
  OBVIOUS
<1>3. LinksOK(sched', L, pos) /\ IdsOK'
  BY <1>2 DEF Inv, IdsOK
<1>4. \A w \in Ways : WayOK(w, L[w])'
  BY <1>2 DEF Inv, WayOK, IdleOK, CheckOK, ReportOK
<1> QED
  BY <1>1, <1>3, <1>4 DEF IInv, Inv

LEMMA StartPollOK ==
    ASSUME Typed, NEW L \in [Ways -> Lists], NEW pos \in [Ways -> Nat], Inv(L, pos), StartPoll
    PROVE  IInv'
<1> DEFINE h == sched.list["idle"].head
<1>1. /\ h \in Link /\ (h # None => L[h] = "idle")
  <2>1. "idle" \in Lists
    BY DEF Lists
  <2> QED
    BY <2>1 DEF Typed, SchedType, Inv, LinksOK
<1> HIDE DEF h
<1>2. /\ poll' = [stage |-> "idle", cur |-> h, ready |-> {}, wait |-> 0, test |-> FALSE]
      /\ UNCHANGED <<sched, hw, sent, faults>>
  BY DEF StartPoll, Out, h
<1>3. poll' \in PollType
  BY <1>1, <1>2 DEF PollType, Lists
<1>4. PollOK(L)'
  BY <1>1, <1>2 DEF PollOK, Started
<1> QED
  BY <1>2, <1>3, <1>4, PollStep

\* Where the links lead from a way.
LEMMA NextWay ==
    ASSUME Typed, NEW L \in [Ways -> Lists], NEW pos \in [Ways -> Nat], Inv(L, pos),
           NEW w \in Ways
    PROVE  LET n == sched.die[w].next
           IN  n \in Link /\ (n # None => n \in Ways /\ n # w /\ L[n] = L[w])
<1> DEFINE n == sched.die[w].next
<1>1. n \in Link /\ (n # None => n \in Ways)
  BY DEF Typed, SchedType, DieType, Link
<1>2. n # None => L[n] = L[w] /\ pos[w] < pos[n]
  BY DEF Inv, LinksOK
<1>3. pos[w] \in Nat
  OBVIOUS
<1> QED
  BY <1>1, <1>2, <1>3

LEMMA BusyWayOK ==
    ASSUME Typed, NEW L \in [Ways -> Lists], NEW pos \in [Ways -> Nat], Inv(L, pos), BusyWay
    PROVE  IInv'
<1>1. PICK w \in Ways : poll.cur = w
  BY DEF BusyWay, Typed, PollType, Link
<1> DEFINE n == sched.die[w].next
           c == IF poll.stage = "statusReport" THEN poll.wait + 1 ELSE poll.wait
<1>2. n \in Link /\ (n # None => L[n] = L[w])
  BY NextWay
<1>3. c \in Nat
  BY DEF Typed, PollType
<1> HIDE DEF n, c
<1>4. /\ poll' = [poll EXCEPT !.cur = n, !.wait = c] /\ ~poll.test
      /\ UNCHANGED <<sched, hw, sent, faults>>
  BY <1>1 DEF BusyWay, n, c
<1>5. /\ poll' \in PollType /\ poll'.stage = poll.stage /\ poll'.cur = n
      /\ poll'.test = poll.test /\ poll'.ready = poll.ready
  BY <1>2, <1>3, <1>4 DEF Typed, PollType
<1>6. L[w] = poll.stage
  BY <1>1, <1>4, WayIsSome DEF Inv, PollOK
<1>7. PollOK(L)'
  BY <1>2, <1>4, <1>5, <1>6 DEF Inv, PollOK
<1> QED
  BY <1>4, <1>5, <1>7, PollStep

LEMMA TestBusyOK ==
    ASSUME Typed, NEW L \in [Ways -> Lists], NEW pos \in [Ways -> Nat], Inv(L, pos), TestBusy
    PROVE  IInv'
<1>1. poll.test /\ poll.stage \in Started /\ sched.die[poll.cur].next = None
  BY DEF TestBusy, Inv, PollOK
<1>2. UNCHANGED <<sched, hw, sent, faults>>
  BY DEF TestBusy
<1>3. CASE hw.chan # None
  <2>1. poll' = Out
    BY <1>3 DEF TestBusy
  <2> QED
    BY <1>2, <2>1, PollStep DEF Out, PollOK, Started, PollType, Link
<1>4. CASE hw.chan = None
  <2>1. poll' = [poll EXCEPT !.test = FALSE, !.cur = None]
    BY <1>1, <1>4 DEF TestBusy
  <2>2. /\ poll' \in PollType /\ poll'.stage = poll.stage /\ poll'.cur = None
        /\ poll'.test = FALSE /\ poll'.ready = poll.ready
    BY <2>1 DEF Typed, PollType, Link
  <2>3. PollOK(L)'
    BY <1>2, <1>4, <2>2 DEF Inv, PollOK
  <2> QED
    BY <1>2, <2>2, <2>3, PollStep
<1> QED
  BY <1>3, <1>4

LEMMA EndListOK ==
    ASSUME Typed, NEW L \in [Ways -> Lists], NEW pos \in [Ways -> Nat], Inv(L, pos), EndList
    PROVE  IInv'
<1>1. /\ poll.stage # "out" /\ poll.cur = None /\ ~poll.test
      /\ UNCHANGED <<sched, hw, sent, faults>>
  BY DEF EndList
<1>2. CASE poll' = Out
  BY <1>1, <1>2, PollStep DEF Out, PollOK, Started, PollType, Link
<1>3. CASE poll' # Out
  <2> DEFINE n == NextList(poll.stage)
             h == sched.list[n].head
  <2>1. /\ poll' = [poll EXCEPT !.stage = n, !.cur = h, !.ready = Ways \ hw.busy]
        /\ poll.stage # "readTransfer"
        /\ poll.stage = "statusReport" => MayStart
    BY <1>3 DEF EndList
  <2>2. /\ n \in Lists /\ n # "idle"
        /\ n = "statusCheck" <=> poll.stage = "statusReport"
        /\ n \in Started => poll.stage = "statusReport" \/ poll.stage \in Started
    <3>1. poll.stage \in Lists \ {"readTransfer"}
      BY <1>1, <2>1 DEF Typed, PollType
    <3> QED
      BY <3>1 DEF NextList, Lists, Started
  <2>3. h \in Link /\ (h # None => L[h] = n)
    <3> HIDE DEF n
    <3> QED
      BY <2>2 DEF Typed, SchedType, Inv, LinksOK
  <2>4. n \in Started => hw.chan = None
    BY <1>1, <2>1, <2>2 DEF Inv, PollOK, MayStart
  <2> HIDE DEF n, h
  <2>5. /\ poll' \in PollType /\ poll'.stage = n /\ poll'.cur = h
        /\ poll'.test = FALSE /\ poll'.ready = Ways \ hw.busy
    BY <1>1, <2>1, <2>2, <2>3 DEF Typed, PollType
  <2>6. PollOK(L)'
    BY <1>1, <2>3, <2>4, <2>5 DEF PollOK, Started
  <2> QED
    BY <1>1, <2>5, <2>6, PollStep
<1> QED
  BY <1>2, <1>3

(***************************************************************************)
(* Requests that enter a queue                                             *)
(***************************************************************************)

\* u is s with `more' at the end of the queue of w.
AfterAdd(s, u, w, more) ==
    /\ u \in SchedType /\ u.die = s.die /\ u.list = s.list /\ u.marked = s.marked
    /\ u.queue[w] = s.queue[w] \o more
    /\ \A v \in Ways \ {w} : u.queue[v] = s.queue[v]

LEMMA AddFields ==
    ASSUME NEW s \in SchedType, NEW w \in Ways, NEW more \in Seq(Req)
    PROVE  AfterAdd(s, ReleaseBlockedByRowAddrDepReq(s, w, more), w, more)
<1> DEFINE q == s.queue[w] \o more
           Q == [s.queue EXCEPT ![w] = q]
           u == ReleaseBlockedByRowAddrDepReq(s, w, more)
<1>1. q \in Seq(Req)
  BY DEF SchedType
<1> HIDE DEF q
<1>2. Q \in [Ways -> Seq(Req)] /\ Q[w] = q /\ \A v \in Ways \ {w} : Q[v] = s.queue[v]
  BY <1>1 DEF SchedType
<1>3. u = [s EXCEPT !.queue = Q]
  BY DEF ReleaseBlockedByRowAddrDepReq, SchedType, q
<1> HIDE DEF Q, u
<1>4. u \in SchedType /\ u.queue = Q /\ u.die = s.die /\ u.list = s.list /\ u.marked = s.marked
  BY <1>2, <1>3 DEF SchedType
<1> QED
  BY <1>2, <1>4 DEF AfterAdd, u, q

\* A request that may enter a queue.
IsNew(x) ==
    /\ x \in Req /\ x.id = sent + 1 /\ x.code = x.kind.code /\ x.code # "READ_TRANSFER"
    /\ [id |-> x.id, kind |-> x.kind] \in Reqs

\* ... a request enters a queue ...
QueueGrows ==
    \E w \in Ways, x \in Req :
       /\ IsNew(x) /\ sched'.queue[w] = sched.queue[w] \o <<x>> /\ sched'.marked = sched.marked
       /\ \A v \in Ways \ {w} : sched'.queue[v] = sched.queue[v]

LEMMA ArrivalFields ==
    ASSUME Typed, NEW more \in Arrivals
    PROVE  \E x \in Req : more = <<x>> /\ IsNew(x)
<1>1. sent < MaxReqs /\ sent \in Nat /\ sent + 1 \in 1 .. MaxReqs
  BY KindsAssumption DEF Arrivals, Typed
<1>2. PICK k \in Kinds[sent + 1] : more = <<NewReq(sent + 1, k)>>
  BY <1>1 DEF Arrivals
<1>3. k \in KindSet
  BY <1>1, KindsAssumption DEF KindSet
<1> DEFINE x == NewReq(sent + 1, k)
<1>4. /\ x \in Req /\ x.id = sent + 1 /\ x.kind = k /\ x.code = x.kind.code
      /\ x.code # "READ_TRANSFER"
  BY <1>1, <1>3 DEF NewReq, Req, KindSet, Codes
<1>5. [id |-> x.id, kind |-> x.kind] \in [id : {sent + 1}, kind : Kinds[sent + 1]]
  BY <1>4
<1>6. [id |-> x.id, kind |-> x.kind] \in Reqs
  BY <1>1, <1>5 DEF Reqs
<1> HIDE DEF x
<1>7. IsNew(x)
  BY <1>4, <1>6 DEF IsNew
<1> QED
  BY <1>2, <1>4, <1>7 DEF x

\* A queue that a request has entered.
LEMMA Grown ==
    ASSUME NEW q \in Seq(Req), NEW x \in Req
    PROVE  LET n == q \o <<x>>
           IN  /\ n \in Seq(Req) /\ Len(n) = Len(q) + 1 /\ n # << >>
               /\ n[Len(n)] = x
               /\ \A i \in 1 .. Len(q) : n[i] = q[i]
               /\ q # << >> => n[1] = q[1]
               /\ q = << >> => n[1] = x
               /\ \A i \in DOMAIN n : (i \in DOMAIN q /\ n[i] = q[i]) \/ (i = Len(n) /\ n[i] = x)
<1>1. Len(q) \in Nat /\ DOMAIN q = 1 .. Len(q) /\ (q # << >> => Len(q) > 0)
  OBVIOUS
<1> QED
  BY <1>1

\* Whatever the list of w, a new request at the end of its queue does no harm.
LEMMA GrownOK ==
    ASSUME Typed, NEW w \in Ways, NEW l \in Lists, WayOK(w, l), NEW x \in Req,
           x.id = sent + 1, x.code = x.kind.code, hw.last[w].id \in 0 .. sent,
           sched'.queue[w] = sched.queue[w] \o <<x>>,
           sched'.die[w].state = sched.die[w].state, sched'.die[w].opt = sched.die[w].opt,
           sched'.die[w].retry = sched.die[w].retry, hw' = hw
    PROVE  WayOK(w, l)'
<1> DEFINE q == sched.queue[w]
           n == sched'.queue[w]
<1>1. q \in Seq(Req) /\ n = q \o <<x>> /\ DOMAIN q = 1 .. Len(q) /\ Len(q) \in Nat
  BY HeadTyped
<1>2. /\ n # << >> /\ (q # << >> => n[1] = q[1]) /\ (q = << >> => n[1] = x)
      /\ \A i \in DOMAIN n : (i \in DOMAIN q /\ n[i] = q[i]) \/ (i = Len(n) /\ n[i] = x)
  BY <1>1, Grown
<1>3. hw.last[w].id # x.id
  BY DEF Typed
<1>4. QueueOK(n, hw'.last[w])
  BY <1>2, <1>3 DEF WayOK, QueueOK
<1>5. \A r : /\ Before(r, sched.die[w], hw.last[w], hw.fails[w])
                  <=> Before(r, sched'.die[w], hw'.last[w], hw'.fails[w])
             /\ After(r, sched.die[w], hw.last[w], hw.fails[w])
                  <=> After(r, sched'.die[w], hw'.last[w], hw'.fails[w])
  BY DEF Before, After
<1>6. IdleOK(w) => IdleOK(w)'
  <2>1. CASE q = << >>
    <3>1. sched.die[w].retry = RetryLimit => Before(x, sched'.die[w], hw'.last[w], hw'.fails[w])
      <4>1. x.code \in Codes /\ x.code # "READ_TRANSFER"
        BY DEF Req, KindSet
      <4> QED
        BY <1>3, <4>1, WaysAssumption DEF Before
    <3> QED
      BY <1>2, <2>1, <3>1 DEF IdleOK
  <2>2. CASE q # << >>
    BY <1>2, <1>5, <2>2 DEF IdleOK
  <2> QED
    BY <2>1, <2>2
<1>7. CheckOK(w) => CheckOK(w)'
  BY <1>2, <1>5 DEF CheckOK
<1>8. ReportOK(w) => ReportOK(w)'
  BY <1>2, <1>5 DEF ReportOK
<1> QED
  BY <1>2, <1>4, <1>6, <1>7, <1>8 DEF WayOK

LEMMA PutToNandReqQOK ==
    ASSUME Typed, NEW L \in [Ways -> Lists], NEW pos \in [Ways -> Nat], Inv(L, pos),
           NEW w \in Ways, PutToNandReqQ(w)
    PROVE  IInv' /\ QueueGrows
<1>1. PICK more \in Arrivals : sched' = ReleaseBlockedByRowAddrDepReq(sched, w, more)
  BY DEF PutToNandReqQ, ReleaseBlockedByRowAddrDepReq
<1>2. poll.stage \in {"out", "statusReport"} /\ sent' = sent + 1 /\ UNCHANGED <<poll, hw, faults>>
  BY DEF PutToNandReqQ
<1>3. PICK x \in Req : more = <<x>> /\ IsNew(x) /\ x.id = sent + 1 /\ x.code = x.kind.code
  BY ArrivalFields DEF IsNew
<1>4. AfterAdd(sched, sched', w, <<x>>)
  <2>1. <<x>> \in Seq(Req) /\ sched \in SchedType
    BY DEF Typed
  <2> QED
    BY <1>1, <1>3, <2>1, AddFields
<1>5. Typed'
  BY <1>2, <1>4 DEF Typed, AfterAdd
<1>6. LinksOK(sched', L, pos)
  BY <1>4, LinksSame DEF AfterAdd, Inv, Typed
<1>7. QueueStep(w, 0, 1)
  <2> DEFINE q == sched.queue[w]
             n == sched'.queue[w]
  <2>1. q \in Seq(Req) /\ n = q \o <<x>> /\ Len(q) \in Nat
    BY <1>4, HeadTyped DEF AfterAdd
  <2>2. Len(n) = Len(q) + 1 /\ n[Len(n)] = x /\ \A i \in 1 .. Len(q) : n[i] = q[i]
    BY <2>1, Grown
  <2>3. /\ Len(n) = Len(q) - 0 + 1 /\ 0 <= Len(q)
        /\ \A i \in 1 .. Len(q) - 0 : i \in 1 .. Len(q) /\ i + 0 = i
    BY <2>1, <2>2
  <2>4. sched'.marked = sched.marked /\ \A v \in Ways \ {w} : sched'.queue[v] = sched.queue[v]
    BY <1>4 DEF AfterAdd
  <2> HIDE DEF q, n
  <2> QED
    BY <1>2, <1>3, <2>2, <2>3, <2>4 DEF QueueStep, q, n
<1>8. IdsOK'
  <2>1. \A v \in Ways : hw'.last[v].id \in 0 .. sent'
    BY <1>2 DEF Inv, IdsOK, Typed
  <2> QED
    BY <1>5, <1>7, <2>1, IdsStep DEF Inv
<1>9. Others(w) /\ ChanOf(w)
  BY <1>2, <1>4 DEF Others, Same, ChanOf, AfterAdd
<1>10. WayOK(w, L[w])'
  BY <1>2, <1>3, <1>4, GrownOK DEF AfterAdd, Inv, IdsOK
<1>11. PollOK(L)'
  BY <1>2 DEF PollOK, Inv, Started
<1>12. IInv'
  BY <1>5, <1>6, <1>8, <1>9, <1>10, <1>11, OneWay
<1> QED
  BY <1>3, <1>4, <1>12 DEF QueueGrows, AfterAdd

(***************************************************************************)
(* An idle way is looked at                                                *)
(***************************************************************************)

LEMMA PriorityPut ==
    ASSUME NEW r \in SchedType, NEW w \in Ways, r.queue[w] # << >>
    PROVE  \E l \in {"readTrigger", "readTransfer", "erase", "write"} :
              /\ PutToNandWayPriorityTable(r, w) = PutTo(r, l, w)
              /\ r.queue[w][1].code \in ListCodes(l)
<1>1. r.queue[w] \in Seq(Req)
  BY DEF SchedType
<1>2. r.queue[w][1] \in Req /\ Head(r.queue[w]) = r.queue[w][1]
  BY <1>1
<1>3. r.queue[w][1].code \in Codes
  BY <1>2 DEF Req
<1> DEFINE c == r.queue[w][1].code
<1>4. CASE c = "READ"
  BY <1>2, <1>4 DEF PutToNandWayPriorityTable, PutToNandReadTriggerList, ListCodes
<1>5. CASE c = "READ_TRANSFER"
  BY <1>2, <1>5 DEF PutToNandWayPriorityTable, PutToNandReadTransferList, ListCodes
<1>6. CASE c = "ERASE"
  BY <1>2, <1>6 DEF PutToNandWayPriorityTable, PutToNandEraseList, ListCodes
<1>7. CASE c \in {"WRITE", "RESET"}
  BY <1>2, <1>7 DEF PutToNandWayPriorityTable, PutToNandWriteList, ListCodes
<1> QED
  BY <1>3, <1>4, <1>5, <1>6, <1>7 DEF Codes

\* The queue of w gets `more', of a length of at most one.
LEMMA GrownStep ==
    ASSUME Typed, NEW w \in Ways, NEW more \in Seq(Req),
           \/ more = << >>
           \/ \E x \in Req : more = <<x>> /\ x.id = sent + 1,
           sched'.queue[w] = sched.queue[w] \o more, sched'.marked = sched.marked,
           \A v \in Ways \ {w} : sched'.queue[v] = sched.queue[v],
           sent' = sent + Len(more)
    PROVE  QueueStep(w, 0, Len(more)) /\ Len(more) \in {0, 1}
<1> DEFINE q == sched.queue[w]
           n == sched'.queue[w]
<1>1. q \in Seq(Req) /\ n = q \o more /\ Len(q) \in Nat
  BY HeadTyped
<1>2. CASE more = << >>
  <2>1. Len(more) = 0 /\ n = q
    BY <1>1, <1>2
  <2>2. /\ Len(n) = Len(q) - 0 + 0 /\ 0 <= Len(q)
        /\ \A i \in 1 .. Len(q) - 0 : i \in 1 .. Len(q) /\ i + 0 = i
    BY <1>1, <2>1
  <2> HIDE DEF q, n
  <2> QED
    BY <2>1, <2>2 DEF QueueStep, q, n
<1>3. CASE \E x \in Req : more = <<x>> /\ x.id = sent + 1
  <2>1. PICK x \in Req : more = <<x>> /\ x.id = sent + 1
    BY <1>3
  <2>2. /\ Len(n) = Len(q) + 1 /\ n[Len(n)] = x /\ \A i \in 1 .. Len(q) : n[i] = q[i]
        /\ Len(more) = 1
    BY <1>1, <2>1, Grown
  <2>3. /\ Len(n) = Len(q) - 0 + 1 /\ 0 <= Len(q)
        /\ \A i \in 1 .. Len(q) - 0 : i \in 1 .. Len(q) /\ i + 0 = i
    BY <1>1, <2>2
  <2> HIDE DEF q, n
  <2> QED
    BY <2>1, <2>2, <2>3 DEF QueueStep, q, n
<1> QED
  BY <1>2, <1>3

LEMMA ReleasedFields ==
    ASSUME Typed, NEW s, NEW w, NEW more \in Released(s, w)
    PROVE  /\ more \in Seq(Req)
           /\ \/ more = << >>
              \/ /\ s.queue[w] = << >>
                 /\ \E x \in Req : more = <<x>> /\ IsNew(x)
<1>1. more = << >> \/ (s.queue[w] = << >> /\ more \in Arrivals)
  BY DEF Released
<1>2. CASE more = << >>
  BY <1>2
<1>3. CASE s.queue[w] = << >> /\ more \in Arrivals
  <2>1. PICK x \in Req : more = <<x>> /\ IsNew(x)
    BY <1>3, ArrivalFields
  <2>2. <<x>> \in Seq(Req)
    OBVIOUS
  <2> QED
    BY <1>3, <2>1, <2>2
<1> QED
  BY <1>1, <1>2, <1>3

LEMMA IdleWayOK ==
    ASSUME Typed, NEW L \in [Ways -> Lists], NEW pos \in [Ways -> Nat], Inv(L, pos), IdleWay
    PROVE  IInv' /\ hw' = hw /\ (QueuesKept \/ QueueGrows)
<1>1. PICK w \in Ways : poll.cur = w
  BY DEF IdleWay, Typed, PollType, Link
<1> DEFINE n == sched.die[w].next
<1>2. n \in Link /\ (n # None => n \in Ways /\ n # w /\ L[n] = L[w])
  BY NextWay
<1>3. PICK more \in Released(sched, w) :
         LET s == ReleaseBlockedByRowAddrDepReq(sched, w, more)
         IN  /\ sent' = sent + Len(more)
             /\ IF s.queue[w] # << >>
                THEN /\ sched' = PutToNandWayPriorityTable(GetFrom(s, "idle", w), w)
                     /\ poll' = [poll EXCEPT !.cur = s.die[w].next]
                ELSE /\ sched' = s
                     /\ poll' = [poll EXCEPT !.cur = s.die[w].next, !.wait = @ + 1]
  BY <1>1 DEF IdleWay, SelectivGetFromNandIdleList
<1>4. poll.stage = "idle" /\ UNCHANGED <<hw, faults>> /\ ~poll.test /\ L[w] = "idle"
  <2>1. poll.stage = "idle" /\ UNCHANGED <<hw, faults>>
    BY DEF IdleWay
  <2>2. ~poll.test
    BY <2>1 DEF Inv, PollOK, Started
  <2> QED
    BY <1>1, <2>1, <2>2, WayIsSome DEF Inv, PollOK
<1>5. /\ more \in Seq(Req)
      /\ \/ more = << >>
         \/ \E x \in Req : more = <<x>> /\ IsNew(x)
  BY ReleasedFields
<1> DEFINE s == ReleaseBlockedByRowAddrDepReq(sched, w, more)
<1>6. AfterAdd(sched, s, w, more)
  BY <1>5, AddFields DEF Typed
<1>7. s \in SchedType /\ s.die[w].next = n
  BY <1>6 DEF AfterAdd
<1>8. LinksOK(s, L, pos)
  BY <1>6, LinksSame DEF AfterAdd, Inv, Typed
<1> HIDE DEF s
\* Wherever the way goes, its queue and its die are those of s.
<1>9. ASSUME sched' \in SchedType, sched'.queue = s.queue, sched'.marked = s.marked,
             \A v \in Ways : /\ sched'.die[v].state = s.die[v].state
                             /\ sched'.die[v].opt = s.die[v].opt
                             /\ sched'.die[v].retry = s.die[v].retry,
             poll'.cur = n, poll' \in PollType, poll'.stage = "idle", poll'.test = FALSE
      PROVE  /\ Typed' /\ IdsOK' /\ Others(w) /\ ChanOf(w) /\ WayOK(w, "idle")'
             /\ \A l \in Lists : PollOK([L EXCEPT ![w] = l])'
             /\ QueuesKept \/ QueueGrows
  <2>1. sent' = sent + Len(more) /\ sent' \in Nat
    BY <1>3, <1>5 DEF Typed
  <2>2. Typed'
    BY <1>4, <1>9, <2>1 DEF Typed
  <2>3. /\ sched'.queue[w] = sched.queue[w] \o more /\ sched'.marked = sched.marked
        /\ \A v \in Ways \ {w} : sched'.queue[v] = sched.queue[v]
        /\ \A v \in Ways : /\ sched'.die[v].state = sched.die[v].state
                           /\ sched'.die[v].opt = sched.die[v].opt
                           /\ sched'.die[v].retry = sched.die[v].retry
    BY <1>6, <1>9 DEF AfterAdd
  <2>4. QueueStep(w, 0, Len(more)) /\ Len(more) \in {0, 1}
    BY <1>5, <2>1, <2>3, GrownStep DEF IsNew
  <2>5. IdsOK'
    <3>1. \A v \in Ways : hw'.last[v].id \in 0 .. sent'
      BY <1>4, <1>5, <2>1 DEF Inv, IdsOK, Typed
    <3> QED
      BY <2>2, <2>4, <3>1, IdsStep DEF Inv
  <2>6. Others(w) /\ ChanOf(w)
    BY <1>4, <2>3 DEF Others, Same, ChanOf
  <2>7. WayOK(w, "idle")'
    <3>1. WayOK(w, "idle") /\ "idle" \in Lists
      BY <1>4 DEF Inv
    <3>2. CASE more = << >>
      <4>1. sched'.queue[w] = sched.queue[w]
        BY <2>3, <3>2, HeadTyped
      <4>2. Same(w)
        BY <1>4, <2>3, <4>1 DEF Same
      <4> QED
        BY <1>4, <2>6, <3>1, <4>2, SameOK
    <3>3. CASE \E x \in Req : more = <<x>> /\ IsNew(x)
      BY <1>4, <2>3, <3>1, <3>3, GrownOK DEF Inv, IdsOK, IsNew
    <3> QED
      BY <1>5, <3>2, <3>3
  <2>8. \A l \in Lists : PollOK([L EXCEPT ![w] = l])'
    BY <1>2, <1>4, <1>9 DEF PollOK, Started
  <2>9. QueuesKept \/ QueueGrows
    <3>1. CASE more = << >>
      <4>1. sched'.queue[w] = sched.queue[w]
        BY <2>3, <3>1, HeadTyped
      <4>2. sched'.queue \in [Ways -> Seq(Req)] /\ sched.queue \in [Ways -> Seq(Req)]
        BY <1>9 DEF Typed, SchedType
      <4>3. \A v \in Ways : sched'.queue[v] = sched.queue[v]
        BY <2>3, <4>1
      <4> QED
        BY <2>3, <4>2, <4>3 DEF QueuesKept
    <3>2. CASE \E x \in Req : more = <<x>> /\ IsNew(x)
      BY <2>3, <3>2 DEF QueueGrows
    <3> QED
      BY <1>5, <3>1, <3>2
  <2> QED
    BY <2>2, <2>5, <2>6, <2>7, <2>8, <2>9
<1>10. CASE s.queue[w] # << >>
  <2> DEFINE g == GetFrom(s, "idle", w)
  <2>1. AfterGet(s, g, "idle", w)
    <3>1. s.die[w].prev # None => s.die[w].prev # s.die[w].next
      <4>1. s.die[w].prev \in Link
        BY <1>7 DEF SchedType, DieType
      <4>2. s.die[w].prev # None => s.die[w].prev \in Ways /\ pos[s.die[w].prev] < pos[w]
        BY <1>8, <4>1, WayIsSome DEF LinksOK, Link
      <4>3. n # None => pos[w] < pos[n] /\ n \in Ways
        BY <1>2, <1>7, <1>8 DEF LinksOK
      <4>4. pos[w] \in Nat
        OBVIOUS
      <4> QED
        BY <1>7, <4>2, <4>3, <4>4
    <3> QED
      BY <1>7, <3>1, GetFromFields DEF Lists
  <2>2. g \in SchedType /\ g.queue = s.queue /\ g.marked = s.marked
    BY <2>1 DEF AfterGet
  <2>3. PICK l \in {"readTrigger", "readTransfer", "erase", "write"} :
          /\ PutToNandWayPriorityTable(g, w) = PutTo(g, l, w)
          /\ g.queue[w][1].code \in ListCodes(l)
    BY <1>10, <2>2, PriorityPut
  <2> DEFINE u == PutTo(g, l, w)
             M == [L EXCEPT ![w] = l]
  <2>4. /\ u \in SchedType /\ u.queue = s.queue /\ u.marked = s.marked
        /\ \A v \in Ways : /\ u.die[v].state = s.die[v].state /\ u.die[v].opt = s.die[v].opt
                           /\ u.die[v].retry = s.die[v].retry
        /\ \E pos2 \in [Ways -> Nat] : LinksOK(u, M, pos2)
    <3>1. "idle" \in Lists /\ l \in Lists /\ l # "idle"
      BY DEF Lists
    <3>2. AfterMove(s, g, u, M, w)
      BY <1>4, <1>7, <1>8, <2>2, <3>1, Moved
    <3> HIDE DEF u, g, M
    <3> QED
      BY <2>2, <3>2 DEF AfterMove
  <2>5. sched' = u /\ poll' = [poll EXCEPT !.cur = n]
    BY <1>3, <1>7, <1>10, <2>3 DEF s
  <2>6. poll' \in PollType /\ poll'.cur = n /\ poll'.stage = "idle" /\ poll'.test = FALSE
    BY <1>2, <1>4, <2>5 DEF Typed, PollType
  <2> HIDE DEF u, g
  <2>7. /\ Typed' /\ IdsOK' /\ Others(w) /\ ChanOf(w) /\ WayOK(w, "idle")'
        /\ \A m \in Lists : PollOK([L EXCEPT ![w] = m])'
        /\ QueuesKept \/ QueueGrows
    BY <1>9, <2>4, <2>5, <2>6
  <2>8. WayOK(w, l)'
    BY <1>10, <2>2, <2>3, <2>4, <2>5, <2>7 DEF WayOK
  <2>9. M \in [Ways -> Lists] /\ M[w] = l /\ l \in Lists /\ \A v \in Ways \ {w} : M[v] = L[v]
    BY DEF Lists
  <2> HIDE DEF M
  <2>10. PICK pos2 \in [Ways -> Nat] : LinksOK(sched', M, pos2)
    BY <2>4, <2>5
  <2>11. PollOK(M)'
    BY <2>7, <2>9 DEF M
  <2> QED
    BY <1>4, <2>7, <2>8, <2>9, <2>10, <2>11, OneWay
<1>11. CASE s.queue[w] = << >>
  <2> DEFINE c == poll.wait + 1
  <2>1. sched' = s /\ poll' = [poll EXCEPT !.cur = n, !.wait = c]
    BY <1>3, <1>7, <1>11 DEF s
  <2>2. c \in Nat
    BY DEF Typed, PollType
  <2> HIDE DEF c
  <2>2a. poll' \in PollType /\ poll'.cur = n /\ poll'.stage = "idle" /\ poll'.test = FALSE
    BY <1>2, <1>4, <2>1, <2>2 DEF Typed, PollType
  <2>3. /\ Typed' /\ IdsOK' /\ Others(w) /\ ChanOf(w) /\ WayOK(w, "idle")'
        /\ \A l \in Lists : PollOK([L EXCEPT ![w] = l])'
        /\ QueuesKept \/ QueueGrows
    BY <1>7, <1>9, <2>1, <2>2a
  <2>4. [L EXCEPT ![w] = "idle"] = L
    BY <1>4
  <2>5. PollOK(L)'
    BY <2>3, <2>4 DEF Lists
  <2> QED
    BY <1>4, <1>8, <2>1, <2>3, <2>5, OneWay
<1> QED
  BY <1>10, <1>11

(***************************************************************************)
(* A command is sent                                                       *)
(***************************************************************************)

\* GetFrom in a state with sound lists.
LEMMA GotFrom ==
    ASSUME NEW s \in SchedType, NEW L \in [Ways -> Lists], NEW pos \in [Ways -> Nat],
           LinksOK(s, L, pos), NEW w \in Ways, NEW l \in Lists
    PROVE  AfterGet(s, GetFrom(s, l, w), l, w)
<1> DEFINE p == s.die[w].prev
           n == s.die[w].next
<1>1. p \in Link /\ n \in Link
  BY DEF SchedType, DieType
<1>2. p # None => p \in Ways /\ pos[p] < pos[w]
  BY <1>1, WayIsSome DEF LinksOK, Link
<1>3. n # None => pos[w] < pos[n] /\ n \in Ways
  BY <1>1, WayIsSome DEF LinksOK, Link
<1>4. pos[w] \in Nat
  OBVIOUS
<1>5. p # None => p # n
  BY <1>1, <1>2, <1>3, <1>4
<1> QED
  BY <1>5, GetFromFields

\* u is s with D for the die of w; the links are the same.
AfterDie(s, u, w, D) ==
    /\ u \in SchedType /\ u.queue = s.queue /\ u.marked = s.marked /\ u.list = s.list
    /\ u.die[w] = D /\ \A v \in Ways \ {w} : u.die[v] = s.die[v]
    /\ \A v \in Ways : u.die[v].prev = s.die[v].prev /\ u.die[v].next = s.die[v].next

LEMMA DieFields ==
    ASSUME NEW s \in SchedType, NEW w \in Ways, NEW D \in DieType,
           D.prev = s.die[w].prev, D.next = s.die[w].next
    PROVE  AfterDie(s, [s EXCEPT !.die[w] = D], w, D)
<1> DEFINE E == [s.die EXCEPT ![w] = D]
           u == [s EXCEPT !.die[w] = D]
<1>1. E \in [Ways -> DieType] /\ E[w] = D /\ \A v \in Ways \ {w} : E[v] = s.die[v]
  BY DEF SchedType
<1>2. u = [s EXCEPT !.die = E]
  BY DEF SchedType
<1> HIDE DEF E, u
<1>3. u \in SchedType /\ u.queue = s.queue /\ u.marked = s.marked /\ u.list = s.list /\ u.die = E
  BY <1>1, <1>2 DEF SchedType
<1> QED
  BY <1>1, <1>3 DEF AfterDie, u

\* h2 is h with a new command for way w.
AfterCommand(h, h2, w, op, id) ==
    /\ h2 \in HwType /\ h2.busy = h.busy /\ h2.array = h.array /\ h2.report = h.report
    /\ h2.flag = h.flag /\ h2.last = h.last /\ h2.fails = h.fails
    /\ h2.chan \in Commands /\ h2.chan # None
    /\ h2.chan.way = w /\ h2.chan.op = op /\ h2.chan.id = id

LEMMA CommandFields ==
    ASSUME NEW h \in HwType, NEW w \in Ways, NEW r \in Req,
           NEW op \in {"trigger", "transfer", "program", "erase", "status"}
    PROVE  AfterCommand(h, Command(h, w, op, r), w, op, r.id)
<1> DEFINE c == [way |-> w, op |-> op, id |-> r.id]
           h2 == [h EXCEPT !.chan = c]
<1>1. c \in Commands /\ c.way = w /\ c.op = op /\ c.id = r.id
  BY DEF Commands, Req
<1>2. c # None
  BY <1>1, NoneAssumption
<1> HIDE DEF c
<1>3. /\ h2 \in HwType /\ h2.busy = h.busy /\ h2.array = h.array /\ h2.report = h.report
      /\ h2.flag = h.flag /\ h2.last = h.last /\ h2.fails = h.fails /\ h2.chan = c
  BY <1>1 DEF HwType
<1>4. Command(h, w, op, r) = h2
  BY DEF Command, c
<1> HIDE DEF h2
<1> QED
  BY <1>1, <1>2, <1>3, <1>4 DEF AfterCommand

\* A way that is sent a command moves to another list; s is the scheduler before
\* the move.
LEMMA SentStep ==
    ASSUME Typed, NEW L \in [Ways -> Lists], NEW pos \in [Ways -> Nat], Inv(L, pos),
           NEW w \in Ways, NEW l \in Lists, l # L[w], NEW D, NEW s,
           AfterDie(sched, s, w, D), sched' = PutTo(GetFrom(s, L[w], w), l, w),
           D.retry = sched.die[w].retry,
           poll' = [poll EXCEPT !.test = TRUE], poll.cur = w, poll.stage \in Started,
           sent' = sent, faults' = faults, hw' \in HwType, hw'.last = hw.last,
           \A v \in Ways \ {w} : /\ hw'.array[v] = hw.array[v] /\ hw'.report[v] = hw.report[v]
                                 /\ hw'.flag[v] = hw.flag[v] /\ hw'.fails[v] = hw.fails[v]
                                 /\ v \in hw'.busy <=> v \in hw.busy,
           ChanOf(w),
           poll.stage = "statusCheck" =>
              hw'.busy = hw.busy /\ (hw'.chan # None => hw'.chan.op = "status"),
           sched'.queue[w] = sched.queue[w] /\ sched'.die[w].state = D.state
             /\ sched'.die[w].opt = D.opt /\ sched'.die[w].retry = D.retry
             => WayOK(w, l)'
    PROVE  IInv' /\ QueuesKept
<1> DEFINE g == GetFrom(s, L[w], w)
           M == [L EXCEPT ![w] = l]
<1>1. s \in SchedType /\ LinksOK(s, L, pos) /\ L[w] \in Lists
  <2>1. /\ s \in SchedType /\ s.list = sched.list
        /\ \A v \in Ways : s.die[v].prev = sched.die[v].prev /\ s.die[v].next = sched.die[v].next
    BY DEF AfterDie
  <2>2. sched \in SchedType /\ LinksOK(sched, L, pos)
    BY DEF Typed, Inv
  <2>3. LinksOK(s, L, pos)
    BY <2>1, <2>2, LinksSame
  <2> QED
    BY <2>1, <2>3
<1>2. AfterGet(s, g, L[w], w)
  BY <1>1, GotFrom
<1>3. g \in SchedType /\ g.queue = s.queue /\ g.marked = s.marked
  BY <1>2 DEF AfterGet
<1>4. AfterMove(s, g, sched', M, w)
  BY <1>1, <1>3, Moved
<1> HIDE DEF g, M
<1>5. /\ sched' \in SchedType /\ sched'.queue = sched.queue /\ sched'.marked = sched.marked
      /\ \A v \in Ways : /\ sched'.die[v].state = s.die[v].state
                         /\ sched'.die[v].opt = s.die[v].opt
                         /\ sched'.die[v].retry = s.die[v].retry
      /\ sched'.die[w].next = None /\ \E pos2 \in [Ways -> Nat] : LinksOK(sched', M, pos2)
  BY <1>3, <1>4 DEF AfterMove, AfterDie
<1>6. /\ s.die[w] = D /\ \A v \in Ways \ {w} : s.die[v] = sched.die[v]
  BY DEF AfterDie
<1>7. /\ poll' \in PollType /\ poll'.test = TRUE /\ poll'.cur = w /\ poll'.stage = poll.stage
      /\ poll'.ready = poll.ready
  BY DEF Typed, PollType
<1>8. Typed'
  BY <1>5, <1>7 DEF Typed
<1>9. IdsOK'
  BY <1>5 DEF IdsOK, Inv
<1>10. Others(w)
  BY <1>5, <1>6 DEF Others, Same
<1>11. M \in [Ways -> Lists] /\ M[w] = l /\ \A v \in Ways \ {w} : M[v] = L[v]
  BY DEF M
<1>12. WayOK(w, M[w])'
  BY <1>5, <1>6, <1>11
<1>13. PollOK(M)'
  BY <1>5, <1>7, WayIsSome DEF PollOK, Inv
<1>14. PICK pos2 \in [Ways -> Nat] : LinksOK(sched', M, pos2)
  BY <1>5
<1>15. IInv'
  BY <1>8, <1>9, <1>10, <1>11, <1>12, <1>13, <1>14, OneWay
<1> QED
  BY <1>5, <1>15 DEF QueuesKept

LEMMA CheckWayOK ==
    ASSUME Typed, NEW L \in [Ways -> Lists], NEW pos \in [Ways -> Nat], Inv(L, pos), CheckWay
    PROVE  IInv' /\ QueuesKept /\ WellTimed
<1>1. PICK w \in Ways : poll.cur = w
  BY DEF CheckWay, Typed, PollType, Link
<1> DEFINE r == sched.queue[w][1]
           d == sched.die[w]
           checked == CheckReqStatus(sched, hw, w)
<1>2. /\ poll.stage = "statusCheck" /\ ~poll.test /\ w \in poll.ready
      /\ hw' = checked.h /\ sched' = PutTo(GetFrom(checked.s, "statusCheck", w), "statusReport", w)
      /\ poll' = [poll EXCEPT !.test = TRUE] /\ sent' = sent /\ faults' = faults
  BY <1>1 DEF CheckWay, PutToNandStatusReportList, SelectiveGetFromNandStatusCheckList
<1>3. L[w] = "statusCheck" /\ hw.chan = None /\ w \notin hw.busy
  BY <1>1, <1>2, WayIsSome DEF Inv, PollOK, Started
<1>4. /\ d.state = "EXE" /\ sched.queue[w] # << >> /\ r.code # "READ_TRANSFER"
      /\ d.opt = (IF r.code = "RESET" THEN "NONE" ELSE "CHECK")
      /\ After(r, d, hw.last[w], hw.fails[w]) /\ QueueOK(sched.queue[w], hw.last[w])
  BY <1>3 DEF Inv, WayOK, CheckOK, Commanded
<1>5. /\ r \in Req /\ r.code \in Codes /\ d \in DieType /\ Head(sched.queue[w]) = r
  BY <1>4, HeadTyped
<1>6. /\ "statusCheck" \in Lists /\ "statusReport" \in Lists /\ poll.stage \in Started
  BY <1>2 DEF Lists, Started
<1>7. CASE r.code = "RESET"
  <2>1. checked.s = sched /\ checked.h = hw
    BY <1>4, <1>7 DEF CheckReqStatus
  <2>2. AfterDie(sched, sched, w, d)
    BY DEF AfterDie, Typed
  <2> HIDE DEF d, r
  <2>3. ASSUME sched'.queue[w] = sched.queue[w], sched'.die[w].state = d.state,
               sched'.die[w].opt = d.opt, sched'.die[w].retry = d.retry
        PROVE  WayOK(w, "statusReport")'
    <3>1. hw' = hw
      BY <1>2, <2>1
    <3>2. After(r, sched'.die[w], hw.last[w], hw.fails[w])
      BY <1>4, <2>3 DEF After
    <3>3. ReportOK(w)'
      BY <1>3, <1>4, <1>7, <2>3, <3>1, <3>2 DEF ReportOK, Uncommanded, r
    <3> QED
      BY <1>4, <2>3, <3>1, <3>3 DEF WayOK
  <2>4. hw' = hw /\ hw \in HwType
    BY <1>2, <2>1 DEF Typed
  <2>5. ChanOf(w) /\ d.retry = sched.die[w].retry
    BY <2>4 DEF ChanOf, d
  <2>6. IInv' /\ QueuesKept
    BY <1>1, <1>2, <1>3, <1>6, <2>1, <2>2, <2>3, <2>4, <2>5, SentStep
  <2> QED
    BY <2>4, <2>6 DEF WellTimed
<1>8. CASE r.code # "RESET"
  <2> DEFINE D == [d EXCEPT !.opt = "REPORT"]
             s == [sched EXCEPT !.die[w] = D]
             R == [hw.report EXCEPT ![w] = "0"]
             h == [hw EXCEPT !.report = R]
  <2>1. checked.s = s /\ checked.h = Command(h, w, "status", r)
    BY <1>4, <1>5, <1>8 DEF CheckReqStatus, V2FStatusCheckAsync, Typed, SchedType, HwType
  <2>2. /\ D \in DieType /\ D.prev = d.prev /\ D.next = d.next /\ D.state = d.state
        /\ D.opt = "REPORT" /\ D.retry = d.retry
    <3> HIDE DEF d
    <3> QED
      BY <1>5 DEF DieType
  <2> HIDE DEF D
  <2>3. AfterDie(sched, s, w, D)
    BY <2>2, DieFields DEF Typed
  <2>4. /\ R \in [Ways -> {"0", "pass", "fail", "warning", "busy"}]
        /\ R[w] = "0" /\ \A v \in Ways \ {w} : R[v] = hw.report[v]
    BY DEF Typed, HwType
  <2> HIDE DEF R
  <2>5. /\ h \in HwType /\ h.busy = hw.busy /\ h.array = hw.array /\ h.report = R
        /\ h.flag = hw.flag /\ h.last = hw.last /\ h.fails = hw.fails
    BY <2>4 DEF Typed, HwType
  <2> HIDE DEF h, s, checked
  <2>6. AfterCommand(h, hw', w, "status", r.id)
    BY <1>2, <1>5, <2>1, <2>5, CommandFields
  <2>7. /\ hw' \in HwType /\ hw'.busy = hw.busy /\ hw'.array = hw.array /\ hw'.report = R
        /\ hw'.flag = hw.flag /\ hw'.last = hw.last /\ hw'.fails = hw.fails
        /\ hw'.chan # None /\ hw'.chan.way = w /\ hw'.chan.op = "status" /\ hw'.chan.id = r.id
    BY <2>5, <2>6 DEF AfterCommand
  <2>8. ASSUME sched'.queue[w] = sched.queue[w], sched'.die[w].state = D.state,
               sched'.die[w].opt = D.opt, sched'.die[w].retry = D.retry
        PROVE  WayOK(w, "statusReport")'
    <3> HIDE DEF d, r
    <3>1. After(r, sched'.die[w], hw'.last[w], hw'.fails[w])
      BY <1>4, <2>2, <2>7, <2>8 DEF After
    <3>2. r.code \in {"READ", "WRITE", "ERASE"}
      BY <1>4, <1>5, <1>8 DEF Codes
    <3>3. Commanded(hw', w, "status", r.id) /\ hw'.report[w] = "0" /\ w \notin hw'.busy
      BY <1>3, <2>4, <2>7 DEF Commanded
    <3>4. ReportOK(w)'
      BY <1>4, <2>2, <2>8, <3>1, <3>2, <3>3 DEF ReportOK, r
    <3> QED
      BY <1>4, <2>7, <2>8, <3>4 DEF WayOK
  <2>9. ChanOf(w) /\ D.retry = sched.die[w].retry
    BY <1>3, <2>2, <2>7 DEF ChanOf
  <2>10. /\ \A v \in Ways \ {w} : /\ hw'.array[v] = hw.array[v] /\ hw'.report[v] = hw.report[v]
                                  /\ hw'.flag[v] = hw.flag[v] /\ hw'.fails[v] = hw.fails[v]
                                  /\ v \in hw'.busy <=> v \in hw.busy
    BY <2>4, <2>7
  <2> HIDE DEF d, r
  <2>11. IInv' /\ QueuesKept
    BY <1>1, <1>2, <1>3, <1>6, <2>1, <2>3, <2>7, <2>8, <2>9, <2>10, SentStep
  <2> QED
    BY <1>3, <2>7, <2>11 DEF WellTimed
<1> QED
  BY <1>7, <1>8

\* IssueNandReq for the head of the queue of way w.
AfterIssue(s, h, w) ==
    LET r == sched.queue[w][1]
    IN  /\ \E D \in DieType :
             /\ AfterDie(sched, s, w, D) /\ D.state = "EXE" /\ D.retry = sched.die[w].retry
             /\ D.opt = IF r.code = "RESET" THEN "NONE"
                        ELSE IF r.code = "READ_TRANSFER" THEN "COMPLETION_FLAG" ELSE "CHECK"
        /\ h \in HwType /\ h.last = hw.last /\ h.fails = hw.fails /\ h.report = hw.report
        /\ \A v \in Ways \ {w} : /\ h.array[v] = hw.array[v] /\ h.flag[v] = hw.flag[v]
                                 /\ v \in h.busy <=> v \in hw.busy
        /\ IF r.code = "RESET"
           THEN /\ h.chan = hw.chan /\ w \in h.busy
                /\ h.array[w].op = "reset" /\ h.array[w].id = r.id
           ELSE /\ Commanded(h, w, OpOf(r.code), r.id) /\ h.busy = hw.busy
                /\ r.code = "READ_TRANSFER" => h.flag[w] = "0"

LEMMA IssueFields ==
    ASSUME Typed, NEW w \in Ways, sched.queue[w] # << >>, sched.die[w].state = "IDLE"
    PROVE  LET exec == ExecuteNandReq(sched, hw, w, "RUNNING")
           IN  AfterIssue(exec.s, exec.h, w)
<1> DEFINE r == sched.queue[w][1]
           d == sched.die[w]
           exec == ExecuteNandReq(sched, hw, w, "RUNNING")
           o == IF r.code = "RESET" THEN "NONE"
                ELSE IF r.code = "READ_TRANSFER" THEN "COMPLETION_FLAG" ELSE "CHECK"
           D == [d EXCEPT !.opt = o, !.state = "EXE"]
<1>1. /\ r \in Req /\ r.code \in Codes /\ r.id \in Nat /\ d \in DieType /\ Head(sched.queue[w]) = r
      /\ sched \in SchedType /\ hw \in HwType
  BY HeadTyped DEF Typed
<1>2. o \in {"NONE", "CHECK", "COMPLETION_FLAG"}
  OBVIOUS
<1> HIDE DEF o
<1>3. /\ D \in DieType /\ D.prev = d.prev /\ D.next = d.next /\ D.state = "EXE"
      /\ D.opt = o /\ D.retry = d.retry
  <2> HIDE DEF d
  <2> QED
    BY <1>1, <1>2 DEF DieType
<1>4. exec.s = [sched EXCEPT !.die[w] = D]
  <2> DEFINE s1 == [sched EXCEPT !.die[w].opt = o]
             i == IssueNandReq(sched, hw, w)
  <2>1. i = [s |-> s1, h |-> i.h]
    BY <1>1 DEF IssueNandReq, Codes, o
  <2>2. exec = [i EXCEPT !.s.die[w].state = "EXE"]
    BY DEF ExecuteNandReq
  <2>3. s1 = [sched EXCEPT !.die[w] = [d EXCEPT !.opt = o]]
    BY <1>1 DEF SchedType, DieType
  <2> HIDE DEF i, s1
  <2>4. exec.s = [s1 EXCEPT !.die[w].state = "EXE"]
    BY <2>1, <2>2
  <2> QED
    BY <1>1, <2>3, <2>4 DEF SchedType, DieType
<1>5. exec.h = IssueNandReq(sched, hw, w).h
  <2> DEFINE i == IssueNandReq(sched, hw, w)
  <2>1. exec = [i EXCEPT !.s.die[w].state = "EXE"]
    BY DEF ExecuteNandReq
  <2>2. PICK a, b : i = [s |-> a, h |-> b]
    BY <1>1 DEF IssueNandReq, Codes
  <2> HIDE DEF i, exec
  <2>3. exec = [s |-> [a EXCEPT !.die[w].state = "EXE"], h |-> b]
    BY <2>1, <2>2
  <2>4. exec.h = b /\ i.h = b
    BY <2>2, <2>3
  <2> QED
    BY <2>4 DEF i
<1> HIDE DEF D
<1>6. AfterDie(sched, exec.s, w, D)
  BY <1>1, <1>3, <1>4, DieFields
<1> DEFINE h == exec.h
<1>7. CASE r.code \in {"READ", "WRITE", "ERASE"}
  <2>1. h = Command(hw, w, OpOf(r.code), r)
    BY <1>1, <1>5, <1>7 DEF IssueNandReq, OpOf
  <2>2. OpOf(r.code) \in {"trigger", "program", "erase"}
    BY <1>7 DEF OpOf
  <2> HIDE DEF h, r, d, exec
  <2>3. AfterCommand(hw, h, w, OpOf(r.code), r.id)
    BY <1>1, <2>1, <2>2, CommandFields
  <2> QED
    BY <1>3, <1>6, <1>7, <2>3 DEF AfterIssue, AfterCommand, Commanded, o, r, h, exec, d
<1>8. CASE r.code = "READ_TRANSFER"
  <2> DEFINE F == [hw.flag EXCEPT ![w] = "0"]
             h1 == [hw EXCEPT !.flag = F]
  <2>1. h = Command(h1, w, "transfer", r)
    BY <1>1, <1>5, <1>8 DEF IssueNandReq, V2FReadPageTransferAsync, HwType
  <2>2. /\ F \in [Ways -> {"0", "pass", "fail", "warning"}] /\ F[w] = "0"
        /\ \A v \in Ways \ {w} : F[v] = hw.flag[v]
    BY <1>1 DEF HwType
  <2> HIDE DEF F
  <2>3. /\ h1 \in HwType /\ h1.busy = hw.busy /\ h1.array = hw.array /\ h1.report = hw.report
        /\ h1.flag = F /\ h1.last = hw.last /\ h1.fails = hw.fails
    BY <1>1, <2>2 DEF HwType
  <2> HIDE DEF h1, h, r, d, exec
  <2>4. AfterCommand(h1, h, w, "transfer", r.id)
    BY <1>1, <2>1, <2>3, CommandFields
  <2>5. OpOf(r.code) = "transfer"
    BY <1>8 DEF OpOf
  <2> QED
    BY <1>3, <1>6, <1>8, <2>2, <2>3, <2>4, <2>5
    DEF AfterIssue, AfterCommand, Commanded, o, r, h, exec, d
<1>9. CASE r.code = "RESET"
  <2> DEFINE a == [op |-> "reset", id |-> r.id]
             A == [hw.array EXCEPT ![w] = a]
             B == hw.busy \cup {w}
  <2>1. h = [hw EXCEPT !.busy = B, !.array = A]
    BY <1>1, <1>5, <1>9 DEF IssueNandReq, V2FResetSync, HwType
  <2>2. a \in [op : Ops, id : Nat] /\ a.op = "reset" /\ a.id = r.id
    BY <1>1 DEF Ops
  <2> HIDE DEF a
  <2>3. /\ A \in [Ways -> [op : Ops, id : Nat]] /\ A[w] = a /\ B \in SUBSET Ways
        /\ \A v \in Ways \ {w} : A[v] = hw.array[v] /\ (v \in B <=> v \in hw.busy)
        /\ w \in B
    BY <1>1, <2>2 DEF HwType
  <2> HIDE DEF A, B
  <2>4. /\ h \in HwType /\ h.chan = hw.chan /\ h.busy = B /\ h.array = A /\ h.report = hw.report
        /\ h.flag = hw.flag /\ h.last = hw.last /\ h.fails = hw.fails
    BY <1>1, <2>1, <2>3 DEF HwType
  <2> HIDE DEF h, r, d, exec
  <2> QED
    BY <1>3, <1>6, <1>9, <2>2, <2>3, <2>4 DEF AfterIssue, o, r, h, exec, d
<1> QED
  BY <1>1, <1>7, <1>8, <1>9 DEF Codes

LEMMA StartWayOK ==
    ASSUME Typed, NEW L \in [Ways -> Lists], NEW pos \in [Ways -> Nat], Inv(L, pos), StartWay
    PROVE  IInv' /\ QueuesKept /\ WellTimed
<1>1. PICK w \in Ways : poll.cur = w
  BY DEF StartWay, Typed, PollType, Link
<1> DEFINE r == sched.queue[w][1]
           exec == ExecuteNandReq(sched, hw, w, "RUNNING")
           s == exec.s
<1>1a. PICK l \in Lists : l = IF poll.stage = "readTransfer" THEN "statusReport" ELSE "statusCheck"
  BY DEF Lists
<1>2. /\ poll.stage \in {"readTrigger", "erase", "write", "readTransfer"} /\ ~poll.test
      /\ hw' = exec.h /\ sched' = PutTo(GetFrom(s, poll.stage, w), l, w)
      /\ poll' = [poll EXCEPT !.test = TRUE] /\ sent' = sent /\ faults' = faults
  BY <1>1, <1>1a DEF StartWay, PutToNandStatusReportList, PutToNandStatusCheckList,
              SelectiveGetFromNandReadTriggerList, SelectiveGetFromNandEraseList,
              SelectiveGetFromNandWriteList, SelectiveGetFromNandReadTransferList
<1>3. L[w] = poll.stage /\ poll.stage \in Started /\ hw.chan = None
  BY <1>1, <1>2, WayIsSome DEF Inv, PollOK, Started
<1>4. /\ sched.die[w].state = "IDLE" /\ sched.queue[w] # << >> /\ w \notin hw.busy
      /\ Before(r, sched.die[w], hw.last[w], hw.fails[w])
      /\ QueueOK(sched.queue[w], hw.last[w]) /\ r.code \in ListCodes(poll.stage)
  BY <1>2, <1>3 DEF Inv, WayOK, IdleOK
<1>5. /\ r.code \in Codes /\ (poll.stage = "readTransfer" <=> r.code = "READ_TRANSFER")
      /\ l = (IF r.code = "READ_TRANSFER" THEN "statusReport" ELSE "statusCheck")
  BY <1>1a, <1>2, <1>4, HeadTyped DEF ListCodes
<1>6. AfterIssue(s, hw', w)
  BY <1>2, <1>4, IssueFields
<1> HIDE DEF exec, s, r
<1>7. PICK D \in DieType :
        /\ AfterDie(sched, s, w, D) /\ D.state = "EXE" /\ D.retry = sched.die[w].retry
        /\ D.opt = IF r.code = "RESET" THEN "NONE"
                   ELSE IF r.code = "READ_TRANSFER" THEN "COMPLETION_FLAG" ELSE "CHECK"
  BY <1>6 DEF AfterIssue, r
<1>8. /\ hw' \in HwType /\ hw'.last = hw.last /\ hw'.fails = hw.fails /\ hw'.report = hw.report
      /\ \A v \in Ways \ {w} : /\ hw'.array[v] = hw.array[v] /\ hw'.flag[v] = hw.flag[v]
                               /\ v \in hw'.busy <=> v \in hw.busy
      /\ r.code = "RESET" => /\ hw'.chan = hw.chan /\ w \in hw'.busy
                             /\ hw'.array[w].op = "reset" /\ hw'.array[w].id = r.id
      /\ r.code # "RESET" => /\ Commanded(hw', w, OpOf(r.code), r.id) /\ hw'.busy = hw.busy
                             /\ r.code = "READ_TRANSFER" => hw'.flag[w] = "0"
  BY <1>6 DEF AfterIssue, r
<1>9. ChanOf(w)
  BY <1>3, <1>8 DEF ChanOf, Commanded
<1>10. ASSUME sched'.queue[w] = sched.queue[w], sched'.die[w].state = D.state,
              sched'.die[w].opt = D.opt, sched'.die[w].retry = D.retry
       PROVE  WayOK(w, l)'
  <2>1. Before(r, sched'.die[w], hw'.last[w], hw'.fails[w])
    BY <1>4, <1>7, <1>8, <1>10 DEF Before
  <2>2. QueueOK(sched'.queue[w], hw'.last[w]) /\ sched'.queue[w][1] = r /\ sched'.queue[w] # << >>
    BY <1>4, <1>8, <1>10 DEF r
  <2>3. CASE r.code = "READ_TRANSFER"
    <3>1. /\ sched'.die[w].state = "EXE" /\ sched'.die[w].opt = "COMPLETION_FLAG"
          /\ Commanded(hw', w, "transfer", r.id) /\ hw'.flag[w] = "0" /\ w \notin hw'.busy
      BY <1>4, <1>7, <1>8, <1>10, <2>3 DEF OpOf
    <3>2. ReportOK(w)'
      BY <2>1, <2>2, <2>3, <3>1 DEF ReportOK
    <3> QED
      BY <1>5, <2>2, <2>3, <3>2 DEF WayOK
  <2>4. CASE r.code = "RESET"
    <3>1. /\ sched'.die[w].state = "EXE" /\ sched'.die[w].opt = "NONE"
          /\ Uncommanded(hw', w) /\ w \in hw'.busy
          /\ hw'.array[w].op = OpOf(r.code) /\ hw'.array[w].id = r.id
      BY <1>3, <1>7, <1>8, <1>10, <2>4 DEF OpOf, Uncommanded
    <3>2. CheckOK(w)'
      BY <2>1, <2>2, <2>4, <3>1 DEF CheckOK
    <3> QED
      BY <1>5, <2>2, <2>4, <3>2 DEF WayOK
  <2>5. CASE r.code \notin {"READ_TRANSFER", "RESET"}
    <3>1. /\ sched'.die[w].state = "EXE" /\ sched'.die[w].opt = "CHECK"
          /\ Commanded(hw', w, OpOf(r.code), r.id) /\ w \notin hw'.busy
      BY <1>4, <1>7, <1>8, <1>10, <2>5
    <3>2. CheckOK(w)'
      BY <2>1, <2>2, <2>5, <3>1 DEF CheckOK
    <3> QED
      BY <1>5, <2>2, <2>5, <3>2 DEF WayOK
  <2> QED
    BY <2>3, <2>4, <2>5
<1>11. l \in Lists /\ l # L[w] /\ poll.stage # "statusCheck"
  BY <1>1a, <1>2, <1>3
<1>12. \A v \in Ways \ {w} : /\ hw'.array[v] = hw.array[v] /\ hw'.report[v] = hw.report[v]
                             /\ hw'.flag[v] = hw.flag[v] /\ hw'.fails[v] = hw.fails[v]
                             /\ v \in hw'.busy <=> v \in hw.busy
  BY <1>8
<1>13. sched' = PutTo(GetFrom(s, L[w], w), l, w)
  BY <1>2, <1>3
<1>14. IInv' /\ QueuesKept
  BY <1>1, <1>2, <1>3, <1>7, <1>8, <1>9, <1>10, <1>11, <1>12, <1>13, SentStep
<1> QED
  BY <1>3, <1>4, <1>8, <1>14 DEF WellTimed, Commanded

(***************************************************************************)
(* A way of the status report list is looked at                            *)
(***************************************************************************)

\* What CheckReqStatus says of a way in the status report list: there is no
\* answer yet, the die was not ready, or the answer is that of the head.
NoAnswer(a, w) == a.status = "RUNNING" /\ a.s = sched /\ sched.die[w].opt # "CHECK"

Unready(a, w) ==
    LET r == sched.queue[w][1]
        d == sched.die[w]
    IN  /\ a.status = "RUNNING" /\ r.code \in {"READ", "WRITE", "ERASE"} /\ Uncommanded(hw, w)
        /\ After(r, d, hw.last[w], hw.fails[w])
        /\ \E D \in DieType : /\ AfterDie(sched, a.s, w, D) /\ D.state = "EXE"
                              /\ D.opt = "CHECK" /\ D.retry = d.retry

Answered(a, w) ==
    LET r == sched.queue[w][1]
        d == sched.die[w]
    IN  /\ a.status \in {"DONE", "FAIL", "WARNING"} /\ Uncommanded(hw, w)
        /\ After(r, d, hw.last[w], hw.fails[w])
        /\ a.status = "FAIL" <=> hw.last[w].res = "fail"
        /\ a.status = "WARNING" <=> hw.last[w].res = "warning" /\ r.kind.warning
        /\ \E D \in DieType : /\ AfterDie(sched, a.s, w, D) /\ D.state = "EXE"
                              /\ D.retry = d.retry

LEMMA StatusFields ==
    ASSUME Typed, NEW w \in Ways, ReportOK(w)
    PROVE  LET a == CheckReqStatus(sched, hw, w)
           IN  a.h = hw /\ (NoAnswer(a, w) \/ Unready(a, w) \/ Answered(a, w))
<1> DEFINE a == CheckReqStatus(sched, hw, w)
           r == sched.queue[w][1]
           d == sched.die[w]
           last == hw.last[w]
<1>1. /\ d.state = "EXE" /\ sched.queue[w] # << >> /\ w \notin hw.busy
      /\ r \in Req /\ r.code \in Codes /\ d \in DieType /\ Head(sched.queue[w]) = r
      /\ sched \in SchedType /\ hw \in HwType
  BY HeadTyped DEF ReportOK, Typed
<1>2. last.res \in {"pass", "fail", "warning"}
  BY <1>1 DEF HwType
<1>3. AfterDie(sched, sched, w, d)
  BY <1>1 DEF AfterDie
<1>4. ASSUME NEW o \in {"CHECK", "NONE"}
      PROVE  \E D \in DieType : /\ AfterDie(sched, [sched EXCEPT !.die[w].opt = o], w, D)
                                /\ D.state = "EXE" /\ D.opt = o /\ D.retry = d.retry
  <2> DEFINE D == [d EXCEPT !.opt = o]
  <2>1. /\ D \in DieType /\ D.prev = d.prev /\ D.next = d.next /\ D.state = "EXE"
        /\ D.opt = o /\ D.retry = d.retry
    <3> HIDE DEF d
    <3> QED
      BY <1>1 DEF DieType
  <2>2. [sched EXCEPT !.die[w].opt = o] = [sched EXCEPT !.die[w] = D]
    BY <1>1 DEF SchedType, DieType
  <2> HIDE DEF D
  <2>3. AfterDie(sched, [sched EXCEPT !.die[w] = D], w, D)
    BY <1>1, <2>1, DieFields
  <2> QED
    BY <2>1, <2>2, <2>3
<1>5. CASE r.code \in {"READ", "WRITE", "ERASE"}
  <2>1. /\ d.opt = "REPORT" /\ After(r, d, last, hw.fails[w])
        /\ \/ Commanded(hw, w, "status", r.id) /\ hw.report[w] = "0"
           \/ Uncommanded(hw, w) /\ hw.report[w] \in {last.res, "busy"}
    BY <1>5 DEF ReportOK
  <2>2. last.res \in {"pass", "fail"}
    BY <1>2, <1>5, <2>1 DEF After
  <2>3. CASE hw.report[w] = "0"
    <3>1. a = [status |-> "RUNNING", s |-> sched, h |-> hw]
      BY <2>1, <2>3 DEF CheckReqStatus
    <3> QED
      BY <2>1, <3>1 DEF NoAnswer
  <2>4. CASE hw.report[w] = "fail"
    <3>1. a = [status |-> "FAIL", s |-> sched, h |-> hw]
      BY <2>1, <2>4 DEF CheckReqStatus
    <3>2. Uncommanded(hw, w) /\ last.res = "fail"
      BY <2>1, <2>4
    <3> QED
      BY <1>1, <1>3, <2>1, <3>1, <3>2 DEF Answered
  <2>5. CASE hw.report[w] = "pass"
    <3> DEFINE s == [sched EXCEPT !.die[w].opt = "NONE"]
    <3>1. a = [status |-> "DONE", s |-> s, h |-> hw]
      BY <2>1, <2>5 DEF CheckReqStatus
    <3>2. Uncommanded(hw, w) /\ last.res = "pass"
      BY <2>1, <2>5
    <3>3. \E D \in DieType : AfterDie(sched, s, w, D) /\ D.state = "EXE" /\ D.retry = d.retry
      BY <1>4
    <3> HIDE DEF s, a
    <3> QED
      BY <2>1, <3>1, <3>2, <3>3 DEF Answered, a
  <2>6. CASE hw.report[w] = "busy"
    <3> DEFINE s == [sched EXCEPT !.die[w].opt = "CHECK"]
    <3>1. a = [status |-> "RUNNING", s |-> s, h |-> hw]
      BY <2>1, <2>6 DEF CheckReqStatus
    <3>2. Uncommanded(hw, w)
      BY <2>1, <2>2, <2>6
    <3>3. \E D \in DieType : AfterDie(sched, s, w, D) /\ D.state = "EXE" /\ D.opt = "CHECK"
                                /\ D.retry = d.retry
      BY <1>4
    <3> HIDE DEF s, a
    <3> QED
      BY <1>5, <2>1, <3>1, <3>2, <3>3 DEF Unready, a
  <2> QED
    BY <2>1, <2>2, <2>3, <2>4, <2>5, <2>6
<1>6. CASE r.code = "READ_TRANSFER"
  <2>1. /\ d.opt = "COMPLETION_FLAG"
        /\ \/ Commanded(hw, w, "transfer", r.id) /\ hw.flag[w] = "0"
           \/ Uncommanded(hw, w) /\ hw.flag[w] = last.res /\ After(r, d, last, hw.fails[w])
    BY <1>6 DEF ReportOK
  <2>2. CASE hw.flag[w] = "0"
    <3>1. a = [status |-> "RUNNING", s |-> sched, h |-> hw]
      BY <2>1, <2>2 DEF CheckReqStatus
    <3> QED
      BY <2>1, <3>1 DEF NoAnswer
  <2>3. CASE hw.flag[w] # "0"
    <3> DEFINE st == CheckEccErrorInfo(hw.flag[w], r)
    <3>1. a = [status |-> st, s |-> sched, h |-> hw]
      BY <1>1, <2>1, <2>3 DEF CheckReqStatus
    <3>2. Uncommanded(hw, w) /\ hw.flag[w] = last.res /\ After(r, d, last, hw.fails[w])
      BY <2>1, <2>3
    <3>3. /\ st \in {"DONE", "FAIL", "WARNING"} /\ (st = "FAIL" <=> last.res = "fail")
          /\ st = "WARNING" <=> last.res = "warning" /\ r.kind.warning
      BY <1>2, <3>2 DEF CheckEccErrorInfo
    <3> HIDE DEF st, a
    <3> QED
      BY <1>1, <1>3, <3>1, <3>2, <3>3 DEF Answered, a
  <2> QED
    BY <2>2, <2>3
<1>7. CASE r.code = "RESET"
  <2>1. /\ d.opt = "NONE" /\ Uncommanded(hw, w) /\ After(r, d, last, hw.fails[w])
        /\ last.res = "pass"
    BY <1>7 DEF ReportOK, After
  <2>2. a = [status |-> "DONE", s |-> sched, h |-> hw]
    BY <1>1, <2>1 DEF CheckReqStatus
  <2> QED
    BY <1>1, <1>3, <2>1, <2>2 DEF Answered
<1> QED
  BY <1>1, <1>5, <1>6, <1>7 DEF Codes

\* n is q with another code at its head.
Rewritten(q, n, code) ==
    /\ n \in Seq(Req) /\ Len(n) = Len(q) /\ n # << >>
    /\ n[1].id = q[1].id /\ n[1].kind = q[1].kind /\ n[1].code = code
    /\ \A i \in DOMAIN q : i > 1 => n[i] = q[i]

LEMMA RewriteHead ==
    ASSUME NEW q \in Seq(Req), q # << >>, NEW code \in Codes
    PROVE  Rewritten(q, [q EXCEPT ![1].code = code], code)
<1> DEFINE x == [q[1] EXCEPT !.code = code]
           n == [q EXCEPT ![1] = x]
<1>1. q[1] \in Req /\ 1 \in DOMAIN q /\ Len(q) \in Nat /\ DOMAIN q = 1 .. Len(q) /\ Len(q) > 0
  OBVIOUS
<1>2. x \in Req /\ x.id = q[1].id /\ x.kind = q[1].kind /\ x.code = code
  BY <1>1 DEF Req
<1> HIDE DEF x
<1>3. n \in Seq(Req) /\ Len(n) = Len(q) /\ n[1] = x /\ \A i \in DOMAIN q : i # 1 => n[i] = q[i]
  BY <1>1, <1>2
<1>4. n # << >>
  BY <1>1, <1>3
<1>5. [q EXCEPT ![1].code = code] = n
  BY DEF x
<1> HIDE DEF n
<1> QED
  BY <1>1, <1>2, <1>3, <1>4, <1>5 DEF Rewritten

\* u is s with n for the queue and D for the die of w; the links are the same.
AfterHead(s, u, w, n, D) ==
    /\ u \in SchedType /\ u.marked = s.marked /\ u.list = s.list
    /\ u.queue[w] = n /\ \A v \in Ways \ {w} : u.queue[v] = s.queue[v]
    /\ u.die[w] = D /\ \A v \in Ways \ {w} : u.die[v] = s.die[v]
    /\ \A v \in Ways : u.die[v].prev = s.die[v].prev /\ u.die[v].next = s.die[v].next

LEMMA HeadFields ==
    ASSUME NEW s \in SchedType, NEW w \in Ways, NEW n \in Seq(Req), NEW D \in DieType,
           D.prev = s.die[w].prev, D.next = s.die[w].next
    PROVE  AfterHead(s, [s EXCEPT !.queue[w] = n, !.die[w] = D], w, n, D)
<1> DEFINE E == [s.die EXCEPT ![w] = D]
           Q == [s.queue EXCEPT ![w] = n]
           u == [s EXCEPT !.queue[w] = n, !.die[w] = D]
<1>1. /\ E \in [Ways -> DieType] /\ E[w] = D /\ \A v \in Ways \ {w} : E[v] = s.die[v]
      /\ Q \in [Ways -> Seq(Req)] /\ Q[w] = n /\ \A v \in Ways \ {w} : Q[v] = s.queue[v]
  BY DEF SchedType
<1>2. u = [s EXCEPT !.queue = Q, !.die = E]
  BY DEF SchedType
<1> HIDE DEF E, Q, u
<1>3. u \in SchedType /\ u.queue = Q /\ u.marked = s.marked /\ u.list = s.list /\ u.die = E
  BY <1>1, <1>2 DEF SchedType
<1> QED
  BY <1>1, <1>3 DEF AfterHead, u

\* What the end of the operation means for the head of the queue of w: a read is
\* to be transferred, a read is repeated, or the request is over.
IsBad(w) ==
    \/ hw.last[w].res = "fail"
    \/ hw.last[w].res = "warning" /\ sched.queue[w][1].kind.warning

Transferred(c, w) ==
    /\ hw.last[w].res # "fail" /\ sched.queue[w][1].code = "READ"
    /\ c.marked = sched.marked /\ c.die[w].retry = sched.die[w].retry
    /\ Rewritten(sched.queue[w], c.queue[w], "READ_TRANSFER")

Repeated(c, w) ==
    /\ hw.last[w].res = "fail" /\ IsRead(sched.queue[w][1]) /\ sched.die[w].retry > 0
    /\ c.marked = sched.marked /\ c.die[w].retry = sched.die[w].retry - 1
    /\ Rewritten(sched.queue[w], c.queue[w], "READ")

Finished(c, w) ==
    LET r == sched.queue[w][1]
    IN  /\ c.queue[w] = Tail(sched.queue[w]) /\ c.die[w].retry = RetryLimit
        /\ c.marked = sched.marked \cup (IF IsBad(w) THEN {[id |-> r.id, kind |-> r.kind]} ELSE {})
        /\ hw.last[w].res = "fail" => ~(IsRead(r) /\ sched.die[w].retry > 0)
        /\ hw.last[w].res # "fail" => r.code # "READ"

AfterConclude(c, w) ==
    /\ c \in SchedType /\ c.list = sched.list
    /\ \A v \in Ways : c.die[v].prev = sched.die[v].prev /\ c.die[v].next = sched.die[v].next
    /\ \A v \in Ways \ {w} : c.die[v] = sched.die[v] /\ c.queue[v] = sched.queue[v]
    /\ c.die[w].state = "IDLE"
    /\ Transferred(c, w) \/ Repeated(c, w) \/ Finished(c, w)

\* k is the scheduler with n for the queue of w, R retries and m for the bookings.
ConcludedAs(k, w, n, R, m) ==
    /\ k \in SchedType /\ k.list = sched.list
    /\ \A v \in Ways : k.die[v].prev = sched.die[v].prev /\ k.die[v].next = sched.die[v].next
    /\ \A v \in Ways \ {w} : k.die[v] = sched.die[v] /\ k.queue[v] = sched.queue[v]
    /\ k.die[w].state = "IDLE" /\ k.die[w].retry = R /\ k.queue[w] = n /\ k.marked = m

LEMMA ConcludeFields ==
    ASSUME Typed, NEW w \in Ways, ReportOK(w), NEW a, Answered(a, w)
    PROVE  AfterConclude(ExecuteNandReq(a.s, hw, w, a.status).s, w)
<1> DEFINE q == sched.queue[w]
           r == q[1]
           d == sched.die[w]
           res == hw.last[w].res
           c == Conclude(a.s, w, a.status)
<1>1. PICK s : s = a.s
  OBVIOUS
<1>2. PICK st : st = a.status
  OBVIOUS
<1>3. /\ st \in {"DONE", "FAIL", "WARNING"} /\ (st = "FAIL" <=> res = "fail")
      /\ st = "WARNING" <=> res = "warning" /\ r.kind.warning
      /\ After(r, d, hw.last[w], hw.fails[w])
  BY <1>2 DEF Answered
<1>4. PICK D \in DieType : AfterDie(sched, s, w, D) /\ D.state = "EXE" /\ D.retry = d.retry
  BY <1>1 DEF Answered
<1>5. /\ q # << >> /\ q \in Seq(Req) /\ r \in Req /\ r.code \in Codes /\ Head(q) = r
      /\ r.id \in Nat /\ sched \in SchedType /\ r.kind \in KindSet /\ d.retry \in Nat
  <2>1. q # << >> /\ sched \in SchedType
    BY DEF ReportOK, Typed
  <2>2. q \in Seq(Req) /\ r \in Req /\ d \in DieType
    BY <2>1, HeadTyped
  <2> HIDE DEF q, d
  <2> QED
    BY <2>1, <2>2 DEF Req, DieType
<1>6. /\ s \in SchedType /\ s.queue = sched.queue /\ s.marked = sched.marked
      /\ s.list = sched.list /\ s.die[w] = D
      /\ \A v \in Ways \ {w} : s.die[v] = sched.die[v]
      /\ \A v \in Ways : s.die[v].prev = sched.die[v].prev /\ s.die[v].next = sched.die[v].next
  BY <1>4 DEF AfterDie
<1>7. ExecuteNandReq(a.s, hw, w, a.status).s = Conclude(s, w, st)
  BY <1>1, <1>2, <1>4, <1>6 DEF ExecuteNandReq
<1>8. ASSUME NEW n \in Seq(Req), NEW R \in Nat, NEW m, NEW u \in SchedType,
             u.queue = sched.queue, u.die = s.die, u.list = sched.list, u.marked = m,
             Conclude(s, w, st) = [u EXCEPT !.queue[w] = n, !.die[w].retry = R,
                                            !.die[w].state = "IDLE"]
      PROVE  ConcludedAs(Conclude(s, w, st), w, n, R, m)
  <2> DEFINE E == [D EXCEPT !.retry = R, !.state = "IDLE"]
             k == Conclude(s, w, st)
  <2>1. /\ E \in DieType /\ E.prev = D.prev /\ E.next = D.next /\ E.retry = R /\ E.state = "IDLE"
    BY DEF DieType
  <2>2. k = [u EXCEPT !.queue[w] = n, !.die[w] = E]
    <3>1. k = [u EXCEPT !.queue[w] = n, !.die[w].retry = R, !.die[w].state = "IDLE"]
      BY <1>8
    <3>2. u.die \in [Ways -> DieType] /\ u.die[w] = D
      BY <1>6, <1>8 DEF SchedType
    <3>3. [u.die EXCEPT ![w].retry = R, ![w].state = "IDLE"] = [u.die EXCEPT ![w] = E]
      BY <3>2
    <3> HIDE DEF k, E
    <3> QED
      BY <1>8, <3>1, <3>3 DEF SchedType
  <2> HIDE DEF E, k
  <2>3. AfterHead(u, [u EXCEPT !.queue[w] = n, !.die[w] = E], w, n, E)
    BY <1>6, <1>8, <2>1, HeadFields
  <2>4. AfterHead(u, k, w, n, E)
    BY <2>2, <2>3
  <2> QED
    BY <1>6, <1>8, <2>1, <2>4 DEF AfterHead, k, ConcludedAs
<1> HIDE DEF q, r, d, res
<1>9. CASE st = "DONE" /\ r.code = "READ"
  <2> DEFINE n == [q EXCEPT ![1].code = "READ_TRANSFER"]
  <2>1. Rewritten(q, n, "READ_TRANSFER") /\ n \in Seq(Req)
    BY <1>5, RewriteHead DEF Codes, Rewritten
  <2>2. Conclude(s, w, st) = [s EXCEPT !.queue[w] = n, !.die[w].state = "IDLE"]
    BY <1>5, <1>6, <1>9 DEF Conclude, q, SchedType
  <2> HIDE DEF n
  <2>3. [s EXCEPT !.queue[w] = n, !.die[w].state = "IDLE"]
          = [s EXCEPT !.queue[w] = n, !.die[w].retry = d.retry, !.die[w].state = "IDLE"]
    <3>1. [D EXCEPT !.state = "IDLE"] = [D EXCEPT !.retry = d.retry, !.state = "IDLE"]
      BY <1>4 DEF DieType
    <3> QED
      BY <1>6, <3>1 DEF SchedType
  <2>4. ConcludedAs(Conclude(s, w, st), w, n, d.retry, sched.marked)
    BY <1>5, <1>6, <1>8, <2>1, <2>2, <2>3
  <2>5. Transferred(Conclude(s, w, st), w)
    BY <1>3, <1>9, <2>1, <2>4 DEF ConcludedAs, Transferred, q, r, d, res
  <2> QED
    BY <1>7, <2>4, <2>5 DEF AfterConclude, ConcludedAs
<1>10. CASE st = "FAIL" /\ IsRead(r) /\ d.retry > 0
  <2> DEFINE n == [q EXCEPT ![1].code = "READ"]
             R == d.retry - 1
  <2>1. Rewritten(q, n, "READ") /\ n \in Seq(Req)
    BY <1>5, RewriteHead DEF Codes, Rewritten
  <2>1a. R \in Nat
    BY <1>5, <1>10
  <2>2. Conclude(s, w, st) = [s EXCEPT !.queue[w] = n, !.die[w].retry = R,
                                       !.die[w].state = "IDLE"]
    BY <1>4, <1>5, <1>6, <1>10 DEF Conclude, q, SchedType, DieType
  <2>3. R = sched.die[w].retry - 1
    BY DEF d
  <2> HIDE DEF n, R
  <2>4. ConcludedAs(Conclude(s, w, st), w, n, R, sched.marked)
    BY <1>6, <1>8, <2>1, <2>1a, <2>2
  <2>5. Repeated(Conclude(s, w, st), w)
    BY <1>3, <1>10, <2>1, <2>3, <2>4 DEF ConcludedAs, Repeated, q, r, d, res
  <2> QED
    BY <1>7, <2>4, <2>5 DEF AfterConclude, ConcludedAs
<1>11. CASE st = "DONE" /\ r.code # "READ"
  <2> DEFINE n == Tail(q)
  <2>1. n \in Seq(Req) /\ RetryLimit \in Nat
    BY <1>5, WaysAssumption
  <2>2. Conclude(s, w, st) = Finish(s, w)
    BY <1>5, <1>6, <1>11 DEF Conclude, q
  <2>3. Finish(s, w) = [s EXCEPT !.queue[w] = n, !.die[w].retry = RetryLimit,
                                       !.die[w].state = "IDLE"]
    BY <1>6 DEF Finish, q, SchedType
  <2>4. ~IsBad(w)
    BY <1>3, <1>11 DEF IsBad, res, r, q
  <2> HIDE DEF n
  <2>5. n = Tail(sched.queue[w])
    BY DEF n, q
  <2>6. ConcludedAs(Conclude(s, w, st), w, n, RetryLimit, sched.marked)
    BY <1>6, <1>8, <2>1, <2>2, <2>3
  <2>7. Finished(Conclude(s, w, st), w)
    BY <1>3, <1>11, <2>4, <2>5, <2>6 DEF ConcludedAs, Finished, q, r, d, res
  <2> QED
    BY <1>7, <2>6, <2>7 DEF AfterConclude, ConcludedAs
<1>12. CASE st = "WARNING" \/ (st = "FAIL" /\ ~(IsRead(r) /\ d.retry > 0))
  <2> DEFINE n == Tail(q)
             b == [id |-> r.id, kind |-> r.kind]
             m == sched.marked \cup {b}
             u == Mark(s, w)
  <2>1. n \in Seq(Req) /\ RetryLimit \in Nat /\ b \in [id : Nat, kind : KindSet]
    BY <1>5, WaysAssumption
  <2>2. Conclude(s, w, st) = Finish(u, w)
    BY <1>4, <1>5, <1>6, <1>12 DEF Conclude, q
  <2>3. u = [s EXCEPT !.marked = m]
    BY <1>5, <1>6 DEF Mark, q
  <2>4. m \in SUBSET [id : Nat, kind : KindSet]
    BY <1>5, <2>1 DEF SchedType
  <2> HIDE DEF m, b, u
  <2>5. /\ u \in SchedType /\ u.queue = sched.queue /\ u.die = s.die /\ u.list = sched.list
        /\ u.marked = m
    BY <1>6, <2>3, <2>4 DEF SchedType
  <2>6. Finish(u, w) = [u EXCEPT !.queue[w] = n, !.die[w].retry = RetryLimit,
                                       !.die[w].state = "IDLE"]
    BY <2>5 DEF Finish, q, SchedType
  <2>7. IsBad(w)
    BY <1>3, <1>12 DEF IsBad, res, r, q
  <2>8. res = "fail" => ~(IsRead(r) /\ d.retry > 0)
    BY <1>3, <1>12
  <2>9. res # "fail" => r.code # "READ"
    <3>1. res = "warning" => r.code = "READ_TRANSFER"
      BY <1>3 DEF After, res
    <3> QED
      BY <1>3, <1>12, <3>1
  <2>10. m = sched.marked \cup (IF IsBad(w) THEN {[id |-> r.id, kind |-> r.kind]} ELSE {})
    BY <2>7 DEF m, b
  <2> HIDE DEF n
  <2>11. n = Tail(sched.queue[w])
    BY DEF n, q
  <2>12. Conclude(s, w, st) = [u EXCEPT !.queue[w] = n, !.die[w].retry = RetryLimit,
                                       !.die[w].state = "IDLE"]
    BY <2>2, <2>6
  <2>13. ConcludedAs(Conclude(s, w, st), w, n, RetryLimit, m)
    BY <1>8, <2>1, <2>5, <2>12
  <2>14. Finished(Conclude(s, w, st), w)
    BY <2>8, <2>9, <2>10, <2>11, <2>13 DEF ConcludedAs, Finished, q, r, d, res
  <2> QED
    BY <1>7, <2>13, <2>14 DEF AfterConclude, ConcludedAs
<1> QED
  BY <1>3, <1>9, <1>10, <1>11, <1>12

\* The queue that is left after the head has gone.
LEMMA Shrunk ==
    ASSUME NEW q \in Seq(Req), q # << >>
    PROVE  LET t == Tail(q)
           IN  /\ t \in Seq(Req) /\ Len(t) = Len(q) - 1 /\ Len(q) \in Nat /\ Len(q) > 0
               /\ DOMAIN t = 1 .. Len(t)
               /\ \A i \in DOMAIN t : i + 1 \in DOMAIN q /\ i + 1 > 1 /\ t[i] = q[i + 1]
<1>1. Len(q) \in Nat /\ DOMAIN q = 1 .. Len(q) /\ Len(q) > 0
  OBVIOUS
<1>2. Tail(q) \in Seq(Req) /\ Len(Tail(q)) = Len(q) - 1
  BY <1>1
<1>3. \A i \in 1 .. Len(q) - 1 : Tail(q)[i] = q[i + 1]
  BY <1>1
<1>4. DOMAIN Tail(q) = 1 .. Len(q) - 1
  BY <1>2
<1> QED
  BY <1>1, <1>2, <1>3, <1>4

\* The way w of the status report list is done with an operation: c is what
\* ExecuteNandReq makes of it, and `more' is what is released for it.
Concluded(w, c, more) ==
    /\ AfterConclude(c, w) /\ After(sched.queue[w][1], sched.die[w], hw.last[w], hw.fails[w])
    /\ more \in Seq(Req)
    /\ more = << >> \/ (c.queue[w] = << >> /\ \E x \in Req : more = <<x>> /\ IsNew(x))
    /\ sched'.queue[w] = c.queue[w] \o more
    /\ \A v \in Ways \ {w} : sched'.queue[v] = sched.queue[v]
    /\ sched'.marked = c.marked /\ sent' = sent + Len(more)
    /\ sched'.die[w].state = "IDLE" /\ sched'.die[w].retry = c.die[w].retry /\ hw' = hw

\* The three ways it can go on, in terms of the queue.
LEMMA ConcludedQueue ==
    ASSUME Typed, NEW w \in Ways, sched.queue[w] # << >>, NEW c, NEW more, Concluded(w, c, more)
    PROVE  LET n == sched'.queue[w]
           IN  \/ /\ Transferred(c, w) /\ n = c.queue[w] /\ more = << >>
               \/ /\ Repeated(c, w) /\ n = c.queue[w] /\ more = << >>
               \/ /\ Finished(c, w) /\ n = Tail(sched.queue[w]) /\ more = << >>
               \/ /\ Finished(c, w) /\ Tail(sched.queue[w]) = << >> /\ n = more
                  /\ \E x \in Req : more = <<x>> /\ IsNew(x)
<1> DEFINE n == sched'.queue[w]
<1>1. /\ c \in SchedType
      /\ more \in Seq(Req)
      /\ more = << >> \/ (c.queue[w] = << >> /\ \E x \in Req : more = <<x>> /\ IsNew(x))
      /\ n = c.queue[w] \o more
  BY DEF Concluded, AfterConclude
<1>2. c.queue[w] \in Seq(Req)
  BY DEF Concluded, AfterConclude, SchedType
<1>3. (Transferred(c, w) \/ Repeated(c, w)) => c.queue[w] # << >>
  BY DEF Transferred, Repeated, Rewritten
<1>4. Finished(c, w) => c.queue[w] = Tail(sched.queue[w])
  BY DEF Finished
<1>5. more = << >> => n = c.queue[w]
  BY <1>1, <1>2
<1>6. c.queue[w] = << >> => n = more
  BY <1>1
<1>7. Transferred(c, w) \/ Repeated(c, w) \/ Finished(c, w)
  BY DEF Concluded, AfterConclude
<1> QED
  BY <1>1, <1>3, <1>4, <1>5, <1>6, <1>7

LEMMA ConcludedIds ==
    ASSUME Typed, NEW w \in Ways, sched.queue[w] # << >>, NEW c, NEW more, Concluded(w, c, more)
    PROVE  \E gone \in {0, 1} : QueueStep(w, gone, Len(more)) /\ Len(more) \in {0, 1}
<1> DEFINE q == sched.queue[w]
           n == sched'.queue[w]
<1>1. /\ sent' = sent + Len(more) /\ \A v \in Ways \ {w} : sched'.queue[v] = sched.queue[v]
      /\ sched'.marked = c.marked /\ sent \in Nat
  BY DEF Concluded, Typed
<1>2. q \in Seq(Req) /\ q # << >> /\ Len(q) \in Nat /\ DOMAIN q = 1 .. Len(q) /\ Len(q) > 0
  BY HeadTyped
<1>3. CASE (Transferred(c, w) \/ Repeated(c, w)) /\ n = c.queue[w] /\ more = << >>
  <2>1. PICK code : Rewritten(q, n, code)
    BY <1>3 DEF Transferred, Repeated
  <2>2. sched'.marked = sched.marked /\ Len(more) = 0
    BY <1>1, <1>3 DEF Transferred, Repeated
  <2>3. /\ Len(n) = Len(q) - 0 + 0 /\ 0 <= Len(q)
        /\ \A i \in 1 .. Len(q) - 0 : n[i].id = q[i + 0].id
    <3>1. Len(n) = Len(q) /\ n[1].id = q[1].id /\ \A i \in DOMAIN q : i > 1 => n[i] = q[i]
      BY <2>1 DEF Rewritten
    <3> HIDE DEF q, n
    <3>2. ASSUME NEW i \in 1 .. Len(q) - 0 PROVE n[i].id = q[i + 0].id
      <4>1. i + 0 = i /\ i \in DOMAIN q /\ (i = 1 \/ i > 1)
        BY <1>2
      <4> QED
        BY <3>1, <4>1
    <3> QED
      BY <1>2, <3>1, <3>2
  <2> HIDE DEF q, n
  <2>4. QueueStep(w, 0, 0)
    BY <1>1, <2>2, <2>3 DEF QueueStep, q, n
  <2> QED
    BY <2>2, <2>4
<1>4. ASSUME Finished(c, w)
      PROVE  \A b \in sched'.marked : b \in sched.marked \/ (1 = 1 /\ b.id = q[1].id)
  BY <1>1, <1>4 DEF Finished
<1>5. CASE Finished(c, w) /\ n = Tail(q) /\ more = << >>
  <2>1. Len(n) = Len(q) - 1 /\ DOMAIN n = 1 .. Len(n) /\ \A i \in DOMAIN n : n[i] = q[i + 1]
    BY <1>2, <1>5, Shrunk
  <2> HIDE DEF q, n
  <2>2. /\ Len(n) = Len(q) - 1 + 0 /\ 1 <= Len(q) /\ Len(more) = 0
        /\ \A i \in 1 .. Len(q) - 1 : n[i].id = q[i + 1].id
    BY <1>2, <1>5, <2>1
  <2>3. QueueStep(w, 1, 0)
    BY <1>1, <1>4, <1>5, <2>2 DEF QueueStep, q, n
  <2> QED
    BY <2>2, <2>3
<1>6. CASE /\ Finished(c, w) /\ Tail(q) = << >> /\ n = more
           /\ \E x \in Req : more = <<x>> /\ IsNew(x)
  <2>1. Len(q) = 1
    <3> DEFINE t == Tail(q)
    <3>1. Len(t) = Len(q) - 1
      BY <1>2, Shrunk
    <3>1a. t = << >>
      BY <1>6
    <3> HIDE DEF t
    <3>2. Len(t) = 0
      BY <3>1a
    <3>3. PICK k \in Nat : k = Len(q)
      BY <1>2
    <3>4. k - 1 = 0
      BY <3>1, <3>2, <3>3
    <3>5. k = 1
      BY <3>4
    <3> QED
      BY <3>3, <3>5
  <2>2. PICK x \in Req : more = <<x>> /\ x.id = sent + 1
    BY <1>6 DEF IsNew
  <2>3. Len(more) = 1 /\ n[Len(n)] = x /\ Len(n) = 1
    BY <1>6, <2>2
  <2> HIDE DEF q, n
  <2>4. /\ Len(n) = Len(q) - 1 + 1 /\ 1 <= Len(q)
        /\ \A i \in 1 .. Len(q) - 1 : n[i].id = q[i + 1].id
    BY <2>1, <2>3
  <2>5. n[Len(n)].id = sent'
    BY <1>1, <2>2, <2>3
  <2>6. QueueStep(w, 1, 1)
    BY <1>1, <1>4, <1>6, <2>3, <2>4, <2>5 DEF QueueStep, q, n
  <2> QED
    BY <2>3, <2>6
<1> QED
  BY <1>3, <1>5, <1>6, ConcludedQueue

LEMMA ConcludedWay ==
    ASSUME Typed, NEW w \in Ways, QueueOK(sched.queue[w], hw.last[w]), ReportOK(w),
           hw.last[w].id \in 0 .. sent, Uncommanded(hw, w), NEW c, NEW more, Concluded(w, c, more)
    PROVE  WayOK(w, "idle")'
<1> DEFINE q == sched.queue[w]
           n == sched'.queue[w]
           r == q[1]
           d == sched.die[w]
           e == sched'.die[w]
           last == hw.last[w]
           fails == hw.fails[w]
<1>1. /\ q # << >> /\ w \notin hw.busy /\ e.state = "IDLE" /\ hw' = hw /\ e.retry = c.die[w].retry
      /\ After(r, d, last, fails)
  BY DEF ReportOK, Concluded
<1>2. /\ q \in Seq(Req) /\ Len(q) \in Nat /\ DOMAIN q = 1 .. Len(q) /\ Len(q) > 0 /\ r \in Req
      /\ d.retry \in Nat /\ fails \in Nat /\ RetryLimit \in Nat /\ sent \in Nat
      /\ last.res \in {"pass", "fail", "warning"} /\ last.id \in Nat
  <2>1. q \in Seq(Req) /\ Len(q) \in Nat /\ DOMAIN q = 1 .. Len(q) /\ Len(q) > 0 /\ r \in Req
    BY <1>1, HeadTyped
  <2>2. d \in DieType /\ fails \in Nat /\ RetryLimit \in Nat /\ sent \in Nat
    BY HeadTyped, WaysAssumption DEF Typed
  <2>3. last \in [op : Ops, id : Nat, res : {"pass", "fail", "warning"}]
    BY DEF Typed, HwType
  <2> HIDE DEF q, d, last
  <2> QED
    BY <2>1, <2>2, <2>3 DEF DieType
<1>3. ASSUME QueueOK(n, last), n = << >> => e.retry = RetryLimit,
             n # << >> => Before(n[1], e, last, fails)
      PROVE  WayOK(w, "idle")'
  <2>1. IdleOK(w)'
    BY <1>1, <1>3 DEF IdleOK
  <2> QED
    BY <1>1, <1>3, <2>1 DEF WayOK
\* A request that has just got to the head, or into the queue.
<1>4. ASSUME NEW x \in Req, x.code = x.kind.code, last.id # x.id, e.retry = RetryLimit
      PROVE  Before(x, e, last, fails)
  <2>1. x.code \in Codes /\ x.code # "READ_TRANSFER"
    BY <1>4 DEF Req, KindSet
  <2> QED
    BY <1>2, <1>4, <2>1 DEF Before
<1>5. CASE (Transferred(c, w) \/ Repeated(c, w)) /\ n = c.queue[w]
  <2>1. PICK code \in {"READ", "READ_TRANSFER"} :
          \/ Rewritten(q, n, code) /\ Transferred(c, w) /\ code = "READ_TRANSFER"
          \/ Rewritten(q, n, code) /\ Repeated(c, w) /\ code = "READ"
    <3>1. \/ Transferred(c, w) /\ Rewritten(q, n, "READ_TRANSFER")
          \/ Repeated(c, w) /\ Rewritten(q, n, "READ")
      BY <1>5 DEF Transferred, Repeated
    <3> HIDE DEF q, n
    <3> QED
      BY <3>1
  <2>2. r.code \in {"READ", "READ_TRANSFER"}
    BY <2>1 DEF Transferred, Repeated, IsRead
  <2>3. r.kind.code = "READ"
    <3>1. r.kind.code # "READ_TRANSFER"
      BY <1>2 DEF Req, KindSet
    <3>2. r.code = r.kind.code \/ r.kind.code = "READ"
      BY <1>1 DEF QueueOK
    <3> QED
      BY <2>2, <3>1, <3>2
  <2>4. /\ n # << >> /\ Len(n) = Len(q) /\ n \in Seq(Req) /\ n[1].id = r.id
        /\ n[1].kind = r.kind /\ n[1].code = code
        /\ \A i \in DOMAIN q : i > 1 => n[i] = q[i]
    BY <2>1 DEF Rewritten
  <2>5. DOMAIN n = DOMAIN q
    BY <1>2, <2>4
  <2>6. QueueOK(n, last)
    BY <2>1, <2>3, <2>4, <2>5 DEF QueueOK
  <2>7. Before(n[1], e, last, fails)
    <3> HIDE DEF n, r, d, e, last, fails
    <3>1. CASE Transferred(c, w) /\ code = "READ_TRANSFER"
      <4>1. r.code = "READ" /\ last.res # "fail" /\ e.retry = d.retry
        BY <1>1, <3>1 DEF Transferred, r, last, d
      <4>2. last.id = r.id /\ last.op = "trigger" /\ last.res = "pass"
        BY <1>1, <1>2, <4>1 DEF After, OpOf
      <4>3. d.retry + fails = RetryLimit
        BY <1>1, <1>2, <4>1, <4>2 DEF After
      <4> QED
        BY <2>4, <3>1, <4>1, <4>2, <4>3 DEF Before
    <3>2. CASE Repeated(c, w) /\ code = "READ"
      <4>1. last.res = "fail" /\ e.retry = d.retry - 1
        BY <1>1, <3>2 DEF Repeated, last, d
      <4>2. last.id = r.id /\ d.retry + fails = RetryLimit + 1
        BY <1>1, <4>1 DEF After
      <4>3. e.retry + fails = RetryLimit
        BY <1>2, <4>1, <4>2
      <4> QED
        BY <2>4, <3>2, <4>2, <4>3 DEF Before
    <3> QED
      BY <2>1, <3>1, <3>2
  <2> QED
    BY <1>3, <2>4, <2>6, <2>7
<1>6. CASE Finished(c, w) /\ n = Tail(q)
  <2>1. /\ n \in Seq(Req) /\ DOMAIN n = 1 .. Len(n) /\ Len(n) \in Nat
        /\ \A i \in DOMAIN n : i + 1 \in DOMAIN q /\ i + 1 > 1 /\ n[i] = q[i + 1]
    BY <1>1, <1>2, <1>6, Shrunk
  <2>2. \A i \in DOMAIN n : n[i].code = n[i].kind.code /\ last.id # n[i].id
    BY <2>1 DEF QueueOK
  <2>3. e.retry = RetryLimit
    BY <1>1, <1>6 DEF Finished
  <2>4. n # << >> => 1 \in DOMAIN n /\ n[1] \in Req
    BY <2>1
  <2>5. QueueOK(n, last)
    BY <2>2, <2>4 DEF QueueOK
  <2>6. n # << >> => Before(n[1], e, last, fails)
    BY <1>4, <2>2, <2>3, <2>4
  <2> QED
    BY <1>3, <2>3, <2>5, <2>6
<1>7. CASE Finished(c, w) /\ \E x \in Req : n = <<x>> /\ IsNew(x)
  <2>1. PICK x \in Req : n = <<x>> /\ x.id = sent + 1 /\ x.code = x.kind.code
    BY <1>7 DEF IsNew
  <2>2. last.id # x.id
    BY <1>2, <2>1
  <2>3. e.retry = RetryLimit
    BY <1>1, <1>7 DEF Finished
  <2>4. n # << >> /\ n[1] = x /\ DOMAIN n = {1}
    BY <2>1
  <2>5. QueueOK(n, last)
    BY <2>1, <2>4 DEF QueueOK
  <2>6. Before(x, e, last, fails)
    BY <1>4, <2>1, <2>2, <2>3
  <2> QED
    BY <1>3, <2>3, <2>4, <2>5, <2>6
<1> QED
  BY <1>1, <1>5, <1>6, <1>7, ConcludedQueue

\* ... or the head of a queue is done with an operation.
HeadConcluded ==
    \E w \in Ways : sched.queue[w] # << >> /\ \E c, more : Concluded(w, c, more)

\* The second half of ReportWay: what is released, and where the way goes.
ReportMove(s, w, more) ==
    LET r == ReleaseBlockedByRowAddrDepReq(s, w, more)
    IN  /\ sent' = sent + Len(more)
        /\ IF r.queue[w] # << >>
           THEN /\ sched' = PutToNandWayPriorityTable(r, w)
                /\ poll' = [poll EXCEPT !.cur = s.die[w].next]
           ELSE /\ sched' = PutToNandIdleList(r, w)
                /\ poll' = [poll EXCEPT !.cur = s.die[w].next, !.wait = @ + 1]

LEMMA ReportMoves ==
    ASSUME ReportWay, CheckReqStatus(sched, hw, poll.cur).status # "RUNNING"
    PROVE  LET w == poll.cur
               a == CheckReqStatus(sched, hw, w)
               s == SelectivGetFromNandStatusReportList(
                        ExecuteNandReq(a.s, a.h, w, a.status).s, w)
           IN  \E more \in Released(s, w) : ReportMove(s, w, more)
BY ZenonT(30) DEF ReportWay, ReportMove

LEMMA ReportWayOK ==
    ASSUME Typed, NEW L \in [Ways -> Lists], NEW pos \in [Ways -> Nat], Inv(L, pos), ReportWay
    PROVE  IInv' /\ hw' = hw /\ (QueuesKept \/ HeadConcluded)
<1>1. PICK w \in Ways : poll.cur = w
  BY DEF ReportWay, Typed, PollType, Link
<1>2. poll.stage = "statusReport" /\ ~poll.test /\ L[w] = "statusReport"
  <2>1. poll.stage = "statusReport"
    BY DEF ReportWay
  <2>2. ~poll.test
    BY <2>1 DEF Inv, PollOK, Started
  <2> QED
    BY <1>1, <2>1, <2>2, WayIsSome DEF Inv, PollOK
<1>3. ReportOK(w) /\ QueueOK(sched.queue[w], hw.last[w]) /\ sched.queue[w] # << >>
  BY <1>2 DEF Inv, WayOK, ReportOK
<1>4. PICK n : n = sched.die[w].next
  OBVIOUS
<1>5. n \in Link /\ (n # None => n \in Ways /\ n # w /\ L[n] = "statusReport")
  BY <1>2, <1>4, NextWay
<1>6. PICK a : a = CheckReqStatus(sched, hw, w)
  OBVIOUS
<1>7. a.h = hw /\ (NoAnswer(a, w) \/ Unready(a, w) \/ Answered(a, w))
  BY <1>3, <1>6, StatusFields
<1>8. hw' = hw /\ faults' = faults
  BY <1>1, <1>6, <1>7 DEF ReportWay
<1>9. ASSUME poll' \in PollType, poll'.cur = n, poll'.stage = "statusReport", poll'.test = FALSE,
             NEW l \in Lists
      PROVE  PollOK([L EXCEPT ![w] = l])'
  BY <1>5, <1>9 DEF PollOK, Started
<1>10. CASE NoAnswer(a, w)
  <2> DEFINE c == poll.wait + 1
  <2>1. sched' = sched /\ poll' = [poll EXCEPT !.cur = n, !.wait = c] /\ sent' = sent
    BY <1>1, <1>4, <1>6, <1>10 DEF ReportWay, NoAnswer, ReportUnready
  <2>2. c \in Nat
    BY DEF Typed, PollType
  <2> HIDE DEF c
  <2>3. poll' \in PollType /\ poll'.cur = n /\ poll'.stage = "statusReport" /\ poll'.test = FALSE
    BY <1>2, <1>5, <2>1, <2>2 DEF Typed, PollType
  <2>4. PollOK(L)'
    BY <1>5, <2>3 DEF PollOK, Started
  <2> QED
    BY <1>8, <2>1, <2>3, <2>4, PollStep DEF QueuesKept
<1>11. CASE Unready(a, w)
  <2>1. PICK D \in DieType : /\ AfterDie(sched, a.s, w, D) /\ D.state = "EXE"
                             /\ D.opt = "CHECK" /\ D.retry = sched.die[w].retry
    BY <1>11 DEF Unready
  <2>2. PICK s : s = a.s
    OBVIOUS
  <2>3. /\ s \in SchedType /\ s.queue = sched.queue /\ s.marked = sched.marked /\ s.list = sched.list
        /\ s.die[w] = D /\ \A v \in Ways \ {w} : s.die[v] = sched.die[v]
        /\ \A v \in Ways : s.die[v].prev = sched.die[v].prev /\ s.die[v].next = sched.die[v].next
    BY <2>1, <2>2 DEF AfterDie
  <2> DEFINE g == GetFrom(s, "statusReport", w)
             M == [L EXCEPT ![w] = "statusCheck"]
  <2>4. /\ sched' = PutTo(g, "statusCheck", w) /\ poll' = [poll EXCEPT !.cur = n] /\ sent' = sent
    <3>1. a.status = "RUNNING" /\ s.die[w].opt = "CHECK" /\ s.die[w].next = n
      BY <1>4, <1>11, <2>1, <2>3 DEF Unready
    <3> QED
      BY <1>1, <1>6, <2>2, <3>1 DEF ReportWay, ReportUnready, PutToNandStatusCheckList,
         SelectivGetFromNandStatusReportList
  <2>5. LinksOK(s, L, pos) /\ "statusReport" \in Lists /\ "statusCheck" \in Lists
    <3>1. sched \in SchedType /\ LinksOK(sched, L, pos)
      BY DEF Typed, Inv
    <3> QED
      BY <2>3, <3>1, LinksSame DEF Lists
  <2>6. AfterGet(s, g, "statusReport", w)
    BY <2>3, <2>5, GotFrom
  <2>7. g \in SchedType /\ g.queue = s.queue /\ g.marked = s.marked
    BY <2>6 DEF AfterGet
  <2>8. AfterMove(s, g, sched', M, w)
    BY <1>2, <2>3, <2>4, <2>5, <2>7, Moved
  <2> HIDE DEF g, M
  <2>9. /\ sched' \in SchedType /\ sched'.queue = sched.queue /\ sched'.marked = sched.marked
        /\ \A v \in Ways : /\ sched'.die[v].state = s.die[v].state
                           /\ sched'.die[v].opt = s.die[v].opt
                           /\ sched'.die[v].retry = s.die[v].retry
        /\ \E pos2 \in [Ways -> Nat] : LinksOK(sched', M, pos2)
    BY <2>3, <2>7, <2>8 DEF AfterMove
  <2>10. poll' \in PollType /\ poll'.cur = n /\ poll'.stage = "statusReport" /\ poll'.test = FALSE
    BY <1>2, <1>5, <2>4 DEF Typed, PollType
  <2>11. Typed'
    BY <1>8, <2>4, <2>9, <2>10 DEF Typed
  <2>12. IdsOK'
    BY <1>8, <2>4, <2>9 DEF IdsOK, Inv
  <2>13. Others(w) /\ ChanOf(w)
    BY <1>8, <2>3, <2>9 DEF Others, Same, ChanOf
  <2>14. M \in [Ways -> Lists] /\ M[w] = "statusCheck" /\ \A v \in Ways \ {w} : M[v] = L[v]
    BY <2>5 DEF M
  <2>15. WayOK(w, "statusCheck")'
    <3> DEFINE r == sched.queue[w][1]
    <3>1. /\ r.code \in {"READ", "WRITE", "ERASE"} /\ Uncommanded(hw, w)
          /\ After(r, sched.die[w], hw.last[w], hw.fails[w]) /\ w \notin hw.busy
      BY <1>3, <1>11 DEF Unready, ReportOK
    <3>2. /\ sched'.die[w].state = "EXE" /\ sched'.die[w].opt = "CHECK"
          /\ sched'.die[w].retry = sched.die[w].retry
      BY <2>1, <2>3, <2>9
    <3> HIDE DEF r
    <3>3. After(r, sched'.die[w], hw.last[w], hw.fails[w])
      BY <3>1, <3>2 DEF After
    <3>4. CheckOK(w)'
      BY <1>3, <1>8, <2>9, <3>1, <3>2, <3>3 DEF CheckOK, r
    <3> QED
      BY <1>3, <1>8, <2>9, <3>4 DEF WayOK
  <2>16. PICK pos2 \in [Ways -> Nat] : LinksOK(sched', M, pos2)
    BY <2>9
  <2>17. PollOK(M)'
    BY <1>9, <2>5, <2>10 DEF M
  <2>18. IInv'
    BY <2>11, <2>12, <2>13, <2>14, <2>15, <2>16, <2>17, OneWay
  <2> QED
    BY <1>8, <2>9, <2>18 DEF QueuesKept
<1>12. CASE Answered(a, w)
  <2>1. PICK c : c = ExecuteNandReq(a.s, hw, w, a.status).s
    OBVIOUS
  <2>2. AfterConclude(c, w)
    BY <1>3, <1>12, <2>1, ConcludeFields
  <2>3. PICK g : g = GetFrom(c, "statusReport", w)
    OBVIOUS
  <2>4. PICK more \in Released(g, w) : ReportMove(g, w, more)
    <3>1. a.status # "RUNNING"
      BY <1>12 DEF Answered
    <3>2. g = SelectivGetFromNandStatusReportList(ExecuteNandReq(a.s, a.h, w, a.status).s, w)
      BY <1>7, <2>1, <2>3 DEF SelectivGetFromNandStatusReportList
    <3> QED
      BY <1>1, <1>6, <3>1, <3>2, ReportMoves
  <2>4a. /\ sent' = sent + Len(more)
         /\ LET r == ReleaseBlockedByRowAddrDepReq(g, w, more)
            IN  sched' = IF r.queue[w] # << >> THEN PutToNandWayPriorityTable(r, w)
                         ELSE PutToNandIdleList(r, w)
         /\ \/ poll' = [poll EXCEPT !.cur = g.die[w].next]
            \/ poll' = [poll EXCEPT !.cur = g.die[w].next, !.wait = @ + 1]
    BY <2>4, Zenon DEF ReportMove
  <2>5. /\ c \in SchedType /\ c.list = sched.list
        /\ \A v \in Ways : c.die[v].prev = sched.die[v].prev /\ c.die[v].next = sched.die[v].next
        /\ \A v \in Ways \ {w} : c.die[v] = sched.die[v] /\ c.queue[v] = sched.queue[v]
        /\ c.die[w].state = "IDLE"
    BY <2>2 DEF AfterConclude
  <2>6. LinksOK(c, L, pos) /\ "statusReport" \in Lists
    <3>1. sched \in SchedType /\ LinksOK(sched, L, pos)
      BY DEF Typed, Inv
    <3> QED
      BY <2>5, <3>1, LinksSame DEF Lists
  <2>7. AfterGet(c, g, "statusReport", w)
    BY <2>3, <2>5, <2>6, GotFrom
  <2>8. g \in SchedType /\ g.queue = c.queue /\ g.marked = c.marked
    BY <2>7 DEF AfterGet
  <2>9. g.die[w].next = n
    <3>1. c.die[w].prev # w
      <4> DEFINE p == c.die[w].prev
      <4>1. p # None => pos[p] < pos[w] /\ p \in Ways
        <5>1. p \in Link
          BY <2>5 DEF SchedType, DieType
        <5> QED
          BY <2>6, <5>1, WayIsSome DEF LinksOK, Link
      <4>2. pos[w] \in Nat
        OBVIOUS
      <4> QED
        BY <4>1, <4>2, WayIsSome
    <3> QED
      BY <1>4, <2>5, <2>7, <3>1 DEF AfterGet
  <2>10. /\ more \in Seq(Req)
         /\ more = << >> \/ (c.queue[w] = << >> /\ \E x \in Req : more = <<x>> /\ IsNew(x))
    BY <2>8, ReleasedFields
  <2>11. PICK r : r = ReleaseBlockedByRowAddrDepReq(g, w, more)
    OBVIOUS
  <2>12. AfterAdd(g, r, w, more)
    BY <2>8, <2>10, <2>11, AddFields
  <2>13. /\ r \in SchedType /\ r.die = g.die /\ r.list = g.list /\ r.marked = c.marked
         /\ r.queue[w] = c.queue[w] \o more /\ \A v \in Ways \ {w} : r.queue[v] = sched.queue[v]
    BY <2>5, <2>8, <2>12 DEF AfterAdd
  \* The list the way goes to, and the poll after that.
  <2>14. PICK l \in Lists :
           /\ sched' = PutTo(r, l, w) /\ l # "statusReport" /\ l # "statusCheck"
           /\ l # "idle" => r.queue[w] # << >> /\ r.queue[w][1].code \in ListCodes(l)
    <3>1. CASE r.queue[w] # << >>
      <4>1. sched' = PutToNandWayPriorityTable(r, w)
        BY <2>4a, <2>11, <3>1
      <4>2. PICK l \in {"readTrigger", "readTransfer", "erase", "write"} :
              /\ PutToNandWayPriorityTable(r, w) = PutTo(r, l, w)
              /\ r.queue[w][1].code \in ListCodes(l)
        BY <2>13, <3>1, PriorityPut
      <4> QED
        BY <3>1, <4>1, <4>2 DEF Lists
    <3>2. CASE r.queue[w] = << >>
      <4>1. sched' = PutTo(r, "idle", w)
        BY <2>4a, <2>11, <3>2 DEF PutToNandIdleList
      <4> QED
        BY <4>1 DEF Lists
    <3> QED
      BY <3>1, <3>2
  <2>15. poll' \in PollType /\ poll'.cur = n /\ poll'.stage = "statusReport" /\ poll'.test = FALSE
    <3> DEFINE k == poll.wait + 1
    <3>1. k \in Nat
      BY DEF Typed, PollType
    <3>2. poll' = [poll EXCEPT !.cur = n] \/ poll' = [poll EXCEPT !.cur = n, !.wait = k]
      BY <2>4a, <2>9
    <3> HIDE DEF k
    <3> QED
      BY <1>2, <1>5, <3>1, <3>2 DEF Typed, PollType
  <2> DEFINE M == [L EXCEPT ![w] = l]
  <2>16. AfterMove(c, r, sched', M, w)
    BY <1>2, <2>3, <2>5, <2>6, <2>13, <2>14, Moved
  <2> HIDE DEF M
  <2>17. /\ sched' \in SchedType /\ sched'.queue = r.queue /\ sched'.marked = c.marked
         /\ \A v \in Ways : /\ sched'.die[v].state = c.die[v].state
                            /\ sched'.die[v].opt = c.die[v].opt
                            /\ sched'.die[v].retry = c.die[v].retry
         /\ \E pos2 \in [Ways -> Nat] : LinksOK(sched', M, pos2)
    BY <2>13, <2>16 DEF AfterMove
  <2>18. Uncommanded(hw, w) /\ After(sched.queue[w][1], sched.die[w], hw.last[w], hw.fails[w])
    BY <1>12 DEF Answered
  <2>19. Concluded(w, c, more)
    BY <1>8, <2>2, <2>4a, <2>5, <2>10, <2>13, <2>17, <2>18 DEF Concluded
  <2>20. Typed'
    <3>1. sent' \in Nat
      BY <2>4a, <2>10 DEF Typed
    <3> QED
      BY <1>8, <2>15, <2>17, <3>1 DEF Typed
  <2>21. \A v \in Ways : hw.last[v].id \in 0 .. sent
    BY DEF Inv, IdsOK
  <2>22. IdsOK'
    <3>1. PICK gone \in {0, 1} : QueueStep(w, gone, Len(more)) /\ Len(more) \in {0, 1}
      BY <1>3, <2>19, ConcludedIds
    <3>2. \A v \in Ways : hw'.last[v].id \in 0 .. sent'
      BY <1>8, <2>4a, <2>21, <3>1 DEF Typed
    <3> QED
      BY <2>20, <3>1, <3>2, IdsStep DEF Inv
  <2>23. Others(w) /\ ChanOf(w)
    BY <1>8, <2>5, <2>13, <2>17, SMTT(30) DEF Others, Same, ChanOf
  <2>24. WayOK(w, "idle")'
    BY <1>3, <2>18, <2>19, <2>21, ConcludedWay
  <2>25. M \in [Ways -> Lists] /\ M[w] = l /\ \A v \in Ways \ {w} : M[v] = L[v]
    BY DEF M
  <2>26. WayOK(w, M[w])'
    BY <2>14, <2>17, <2>24, <2>25 DEF WayOK
  <2>27. PICK pos2 \in [Ways -> Nat] : LinksOK(sched', M, pos2)
    BY <2>17
  <2>28. PollOK(M)'
    BY <1>9, <2>15 DEF M
  <2>29. IInv'
    BY <2>20, <2>22, <2>23, <2>25, <2>26, <2>27, <2>28, OneWay
  <2> QED
    BY <1>3, <1>8, <2>19, <2>29 DEF HeadConcluded
<1> QED
  BY <1>7, <1>10, <1>11, <1>12

(***************************************************************************)
(* The invariant                                                           *)
(***************************************************************************)

LEMMA InitOK == Init => IInv
<1> SUFFICES ASSUME Init PROVE IInv
  OBVIOUS
<1> DEFINE L == [w \in Ways |-> "idle"]
           pos == [w \in Ways |-> w]
<1>1. L \in [Ways -> Lists] /\ pos \in [Ways -> Nat]
  BY WaysAssumption DEF Lists, Ways
<1>2. /\ NumWays \in Nat /\ NumWays > 0 /\ RetryLimit \in Nat
      /\ 0 \in Ways /\ NumWays - 1 \in Ways
      /\ \A w \in Ways : w \in Nat /\ (w # 0 => w - 1 \in Ways) /\ (w # NumWays - 1 => w + 1 \in Ways)
  BY WaysAssumption DEF Ways
<1> DEFINE D == [w \in Ways |->
                    [state |-> "IDLE", opt |-> "NONE", retry |-> RetryLimit,
                     prev |-> IF w = 0 THEN None ELSE w - 1,
                     next |-> IF w = NumWays - 1 THEN None ELSE w + 1]]
           T == [l \in Lists |-> IF l = "idle" THEN [head |-> 0, tail |-> NumWays - 1]
                                 ELSE [head |-> None, tail |-> None]]
           Q == [w \in Ways |-> << >>]
<1>3. sched = [queue |-> Q, die |-> D, list |-> T, marked |-> {}]
  BY DEF Init
<1>4. \A w \in Ways :
        /\ D[w] \in DieType /\ D[w].state = "IDLE" /\ D[w].retry = RetryLimit
        /\ D[w].prev = (IF w = 0 THEN None ELSE w - 1)
        /\ D[w].next = (IF w = NumWays - 1 THEN None ELSE w + 1)
  BY <1>2 DEF DieType, Link
<1>5. \A l \in Lists :
        /\ T[l] \in [head : Link, tail : Link]
        /\ T[l].head = (IF l = "idle" THEN 0 ELSE None)
        /\ T[l].tail = (IF l = "idle" THEN NumWays - 1 ELSE None)
  BY <1>2 DEF Link
<1>6. Q \in [Ways -> Seq(Req)] /\ \A w \in Ways : Q[w] = << >>
  OBVIOUS
<1>7. D \in [Ways -> DieType] /\ T \in [Lists -> [head : Link, tail : Link]]
  BY <1>4, <1>5
<1> HIDE DEF D, T, Q
<1>8. /\ sched \in SchedType /\ sched.queue = Q /\ sched.die = D /\ sched.list = T
      /\ sched.marked = {}
  BY <1>3, <1>6, <1>7 DEF SchedType
<1>9. /\ hw \in HwType /\ hw.chan = None /\ hw.busy = {}
      /\ \A w \in Ways : hw.last[w].id = 0
  BY DEF Init, HwType, NoOp, Ops
<1>10. /\ poll \in PollType /\ poll.cur = None /\ poll.test = FALSE /\ poll.stage = "out"
  BY DEF Init, Out, PollType, Link
<1>11. Typed
  BY <1>8, <1>9, <1>10 DEF Typed, Init
<1>12. LinksOK(sched, L, pos)
  <2>1. \A w \in Ways : L[w] = "idle" /\ pos[w] = w
    OBVIOUS
  <2> HIDE DEF L, pos
  <2>2. \A w \in Ways :
          /\ sched.die[w].next # None =>
               /\ L[sched.die[w].next] = L[w] /\ sched.die[sched.die[w].next].prev = w
               /\ pos[w] < pos[sched.die[w].next]
          /\ sched.die[w].prev # None =>
               L[sched.die[w].prev] = L[w] /\ sched.die[sched.die[w].prev].next = w
          /\ sched.die[w].next = None => sched.list[L[w]].tail = w
          /\ sched.die[w].prev = None => sched.list[L[w]].head = w
    <3> SUFFICES ASSUME NEW w \in Ways
                 PROVE  /\ sched.die[w].next # None =>
                             /\ L[sched.die[w].next] = L[w] /\ sched.die[sched.die[w].next].prev = w
                             /\ pos[w] < pos[sched.die[w].next]
                        /\ sched.die[w].prev # None =>
                             L[sched.die[w].prev] = L[w] /\ sched.die[sched.die[w].prev].next = w
                        /\ sched.die[w].next = None => sched.list[L[w]].tail = w
                        /\ sched.die[w].prev = None => sched.list[L[w]].head = w
      OBVIOUS
    <3>1. CASE w # NumWays - 1
      <4>1. w + 1 \in Ways /\ sched.die[w].next = w + 1 /\ w + 1 # 0 /\ (w + 1) - 1 = w /\ w < w + 1
        BY <1>2, <1>4, <1>8, <3>1
      <4>2. sched.die[w + 1].prev = w
        BY <1>4, <1>8, <4>1
      <4>3. w # 0 => /\ w - 1 \in Ways /\ sched.die[w].prev = w - 1 /\ w - 1 # NumWays - 1
                     /\ (w - 1) + 1 = w
        BY <1>2, <1>4, <1>8, <3>1 DEF Ways
      <4>4. w # 0 => sched.die[w - 1].next = w
        BY <1>4, <1>8, <4>3
      <4>5. w = 0 => sched.die[w].prev = None /\ sched.list["idle"].head = w
        BY <1>4, <1>5, <1>8 DEF Lists
      <4> QED
        BY <2>1, <4>1, <4>2, <4>3, <4>4, <4>5, WayIsSome
    <3>2. CASE w = NumWays - 1
      <4>1. sched.die[w].next = None /\ sched.list["idle"].tail = w
        BY <1>4, <1>5, <1>8, <3>2 DEF Lists
      <4>3. w # 0 => /\ w - 1 \in Ways /\ sched.die[w].prev = w - 1 /\ w - 1 # NumWays - 1
                     /\ (w - 1) + 1 = w
        BY <1>2, <1>4, <1>8, <3>2
      <4>4. w # 0 => sched.die[w - 1].next = w
        BY <1>4, <1>8, <4>3
      <4>5. w = 0 => sched.die[w].prev = None /\ sched.list["idle"].head = w
        BY <1>4, <1>5, <1>8 DEF Lists
      <4> QED
        BY <2>1, <4>1, <4>3, <4>4, <4>5, WayIsSome
    <3> QED
      BY <3>1, <3>2
  <2>3. \A l \in Lists :
          /\ sched.list[l].head # None =>
               L[sched.list[l].head] = l /\ sched.die[sched.list[l].head].prev = None
          /\ sched.list[l].tail # None =>
               L[sched.list[l].tail] = l /\ sched.die[sched.list[l].tail].next = None
          /\ sched.list[l].head = None <=> sched.list[l].tail = None
    BY <1>2, <1>4, <1>5, <1>8, <2>1, WayIsSome
  <2> QED
    BY <2>2, <2>3 DEF LinksOK
<1>13. IdsOK
  BY <1>6, <1>8, <1>9 DEF IdsOK, Init
<1>14. \A w \in Ways : WayOK(w, L[w])
  BY <1>4, <1>6, <1>8, <1>9 DEF WayOK, IdleOK, QueueOK, Uncommanded
<1>15. PollOK(L)
  BY <1>10 DEF PollOK, Started
<1> HIDE DEF L, pos
<1> QED
  BY <1>1, <1>11, <1>12, <1>13, <1>14, <1>15 DEF IInv, Inv

LEMMA StepOK ==
    ASSUME IInv, [Next]_vars
    PROVE  IInv' /\ WellTimed /\ (QueuesKept \/ QueueGrows \/ HeadConcluded)
<1>1. PICK L \in [Ways -> Lists], pos \in [Ways -> Nat] : Typed /\ Inv(L, pos)
  BY DEF IInv
<1>2. CASE UNCHANGED vars
  <2>1. Typed' /\ Inv(L, pos)'
    BY <1>1, <1>2 DEF vars, Typed, Inv, IdsOK, WayOK, PollOK, IdleOK, CheckOK, ReportOK
  <2> QED
    BY <1>2, <2>1 DEF IInv, vars, WellTimed, QueuesKept
<1>3. ASSUME NEW w \in Ways, PutToNandReqQ(w)
      PROVE  IInv' /\ WellTimed /\ QueueGrows
  <2>1. hw' = hw
    BY <1>3 DEF PutToNandReqQ
  <2> QED
    BY <1>1, <1>3, <2>1, PutToNandReqQOK DEF WellTimed
<1>4. ASSUME NEW w \in Ways, DieDone(w)
      PROVE  IInv' /\ WellTimed /\ QueuesKept
  BY <1>1, <1>4, DieDoneOK
<1>5. CASE CommandSent \/ StatusWritten \/ TransferDone
  BY <1>1, <1>5, CommandSentOK, StatusWrittenOK, TransferDoneOK
<1>6. CASE StartPoll \/ BusyWay \/ TestBusy \/ EndList
  <2>1. sched' = sched /\ hw' = hw
    BY <1>6 DEF StartPoll, BusyWay, TestBusy, EndList
  <2>2. IInv'
    BY <1>1, <1>6, StartPollOK, BusyWayOK, TestBusyOK, EndListOK
  <2> QED
    BY <2>1, <2>2 DEF WellTimed, QueuesKept
<1>7. CASE IdleWay
  BY <1>1, <1>7, IdleWayOK DEF WellTimed
<1>8. CASE ReportWay
  BY <1>1, <1>8, ReportWayOK DEF WellTimed
<1>9. CASE CheckWay \/ StartWay
  BY <1>1, <1>9, CheckWayOK, StartWayOK
<1> QED
  BY <1>2, <1>3, <1>4, <1>5, <1>6, <1>7, <1>8, <1>9 DEF Next, Poll, Controller

\* In every state a way is in one of the lists, which are well linked, and how
\* far its head has come is what the list says.
THEOREM ScheduleInvariant == Spec => []IInv
<1>1. IInv /\ [Next]_vars => IInv'
  BY StepOK
<1> QED
  BY <1>1, InitOK, PTL DEF Spec

\* SchedulingNandReqPerCh sends every command to a controller that is free and a
\* die that is idle (the driver does not wait), for any number of ways.
THEOREM CommandsAreWellTimed == Spec => CommandsWellTimed
<1>1. IInv /\ [Next]_vars =>
        [hw'.chan # hw.chan /\ hw'.chan # None =>
            hw.chan = None /\ hw'.chan.way \notin hw.busy]_vars
  BY StepOK DEF WellTimed
<1> QED
  BY <1>1, ScheduleInvariant, PTL DEF Spec, CommandsWellTimed

\* A request leaves the head of its queue by Finish alone.
LEMMA HeadLeaves ==
    ASSUME IInv, [Next]_vars, NEW v \in Ways, Leaves(v)
    PROVE  /\ \E c, more : Concluded(v, c, more) /\ Finished(c, v)
           /\ Head(sched.queue[v]) = sched.queue[v][1] /\ sched.queue[v][1] \in Req
<1> DEFINE q == sched.queue[v]
           n == sched'.queue[v]
<1>1. Typed
  BY DEF IInv
<1>2. q # << >> /\ q \in Seq(Req) /\ Head(q) = q[1] /\ q[1] \in Req
  BY <1>1, HeadTyped DEF Leaves
<1>3. ~(n # << >> /\ Head(n) = n[1] /\ n[1].id = q[1].id)
  BY <1>2 DEF Leaves
<1>4. n # q
  BY <1>2, <1>3
<1>5. ~QueuesKept
  BY <1>4 DEF QueuesKept
<1>6. ~QueueGrows
  <2> SUFFICES ASSUME NEW w \in Ways, NEW x \in Req, sched'.queue[w] = sched.queue[w] \o <<x>>,
                      \A u \in Ways \ {w} : sched'.queue[u] = sched.queue[u]
               PROVE  FALSE
    BY DEF QueueGrows
  <2>1. w = v
    BY <1>4
  <2>2. n \in Seq(Req) /\ n # << >> /\ n[1] = q[1]
    <3>1. n = q \o <<x>>
      BY <2>1
    <3> HIDE DEF n, q
    <3> QED
      BY <1>2, <3>1, Grown
  <2>3. Head(n) = n[1]
    BY <2>2
  <2> QED
    BY <1>3, <2>2, <2>3
<1>7. HeadConcluded
  BY <1>5, <1>6, StepOK
<1>8. PICK w \in Ways : sched.queue[w] # << >> /\ \E c, more : Concluded(w, c, more)
  BY <1>7 DEF HeadConcluded
<1>9. PICK c, more : Concluded(w, c, more)
  BY <1>8
<1>10. w = v
  BY <1>4, <1>9 DEF Concluded
<1>11. ASSUME Rewritten(q, n, "READ") \/ Rewritten(q, n, "READ_TRANSFER") PROVE FALSE
  <2>1. n \in Seq(Req) /\ n # << >> /\ n[1].id = q[1].id
    BY <1>11 DEF Rewritten
  <2>2. Head(n) = n[1]
    BY <2>1
  <2> QED
    BY <1>3, <2>1, <2>2
<1>12. \/ Transferred(c, v) /\ n = c.queue[v]
       \/ Repeated(c, v) /\ n = c.queue[v]
       \/ Finished(c, v)
  BY <1>1, <1>2, <1>9, <1>10, ConcludedQueue
<1>13. Finished(c, v)
  BY <1>11, <1>12 DEF Transferred, Repeated
<1> QED
  BY <1>2, <1>9, <1>10, <1>13

\* A request leaves its queue for what the die did with this very request, and
\* its block is booked as grown bad exactly when that failed (or the decoder gave
\* a warning that counts): ExecuteNandReq never takes the status word or the
\* completion flag of an earlier command for that of the head.
THEOREM RequestsCompletedForReal == Spec => CompletedForReal
<1>1. ASSUME IInv, [Next]_vars, NEW v \in Ways, Leaves(v) PROVE ForReal(v)
  <2> DEFINE r == sched.queue[v][1]
             last == hw.last[v]
  <2>1. /\ \E c, more : Concluded(v, c, more) /\ Finished(c, v)
        /\ Head(sched.queue[v]) = r /\ r \in Req
    BY <1>1, HeadLeaves
  <2>2. PICK c, more : Concluded(v, c, more) /\ Finished(c, v)
    BY <2>1
  <2>3. last.id = r.id /\ last.op = OpOf(r.code)
    BY <2>2 DEF Concluded, After
  <2>4. last.res # "fail" => last.op = FinalOp(r)
    <3>1. last.res # "fail" => r.code # "READ"
      BY <2>2 DEF Finished
    <3>2. r.code \in Codes
      BY <2>1 DEF Req
    <3> QED
      BY <2>3, <3>1, <3>2 DEF OpOf, FinalOp, IsRead, Codes
  <2>5. \A b \in sched.marked : b.id # r.id
    <3>1. 1 \in DOMAIN sched.queue[v]
      BY <1>1, HeadTyped DEF IInv, Leaves
    <3> QED
      BY <1>1, <3>1 DEF IInv, Inv, IdsOK
  <2>6. sched'.marked = sched.marked \cup (IF IsBad(v) THEN {[id |-> r.id, kind |-> r.kind]} ELSE {})
    BY <2>2 DEF Concluded, Finished
  <2>7. (\E b \in sched'.marked : b.id = r.id) <=> IsBad(v)
    <3> DEFINE b == [id |-> r.id, kind |-> r.kind]
    <3>1. b.id = r.id
      OBVIOUS
    <3>2. IsBad(v) => sched'.marked = sched.marked \cup {b}
      BY <2>6
    <3>3. ~IsBad(v) => sched'.marked = sched.marked
      BY <2>6
    <3> HIDE DEF r, b
    <3> QED
      BY <2>5, <3>1, <3>2, <3>3
  <2> QED
    BY <2>1, <2>3, <2>4, <2>7 DEF IsBad, ForReal
<1>2. IInv /\ [Next]_vars => [\A w \in Ways : Leaves(w) => ForReal(w)]_vars
  BY <1>1
<1> QED
  BY <1>2, ScheduleInvariant, PTL DEF Spec, CompletedForReal

\* A read that keeps failing is tried RETRY_LIMIT + 1 times and then given up, not
\* earlier and not later, whatever the requests before it met (retryLimitTable is
\* set back by every request that ends); a program or an erase is not repeated.
THEOREM RetriesAreExact == Spec => RetriesExact
<1>1. ASSUME IInv, [Next]_vars, NEW v \in Ways, Leaves(v) PROVE TriedEnough(v)
  <2> DEFINE r == sched.queue[v][1]
             last == hw.last[v]
             fails == hw.fails[v]
             retry == sched.die[v].retry
  <2>1. /\ \E c, more : Concluded(v, c, more) /\ Finished(c, v)
        /\ Head(sched.queue[v]) = r /\ r \in Req
    BY <1>1, HeadLeaves
  <2>2. PICK c, more : Concluded(v, c, more) /\ Finished(c, v)
    BY <2>1
  <2>3. /\ ~IsRead(r) => retry = RetryLimit
        /\ retry + fails = RetryLimit + (IF last.res = "fail" THEN 1 ELSE 0)
    BY <2>2 DEF Concluded, After, IsRead
  <2>4. last.res = "fail" => ~(IsRead(r) /\ retry > 0)
    BY <2>2 DEF Finished
  <2>5. retry \in Nat /\ fails \in Nat /\ RetryLimit \in Nat
    <3>1. sched.die[v] \in DieType /\ hw.fails[v] \in Nat
      BY <1>1, HeadTyped DEF IInv, Leaves
    <3> QED
      BY <3>1, WaysAssumption DEF DieType
  <2> HIDE DEF r, last, fails, retry
  <2>6. IF last.res = "fail" THEN fails = (IF IsRead(r) THEN RetryLimit + 1 ELSE 1)
        ELSE fails < (IF IsRead(r) THEN RetryLimit + 1 ELSE 1)
    BY <2>3, <2>4, <2>5
  <2> QED
    BY <2>1, <2>6 DEF r, last, fails, TriedEnough
<1>2. IInv /\ [Next]_vars => [\A w \in Ways : Leaves(w) => TriedEnough(w)]_vars
  BY <1>1
<1> QED
  BY <1>2, ScheduleInvariant, PTL DEF Spec, RetriesExact

(***************************************************************************)
(* The refinement of NandQueue                                             *)
(***************************************************************************)

\* A request and a queue as NandQueue sees them.
AbsReq(x) == [id |-> x.id, kind |-> x.kind]
Abs(q)    == [i \in DOMAIN q |-> [id |-> q[i].id, kind |-> q[i].kind]]

AbsReqs == [id : Nat, kind : KindSet]

LEMMA AbsFields ==
    ASSUME NEW q \in Seq(Req)
    PROVE  /\ Abs(q) \in Seq(AbsReqs) /\ Len(Abs(q)) = Len(q)
           /\ \A i \in 1 .. Len(q) : Abs(q)[i] = AbsReq(q[i])
<1>1. DOMAIN q = 1 .. Len(q) /\ Len(q) \in Nat
  OBVIOUS
<1>2. \A i \in 1 .. Len(q) : [id |-> q[i].id, kind |-> q[i].kind] \in AbsReqs
  <2>1. \A x \in Req : [id |-> x.id, kind |-> x.kind] \in AbsReqs
    BY DEF Req, AbsReqs
  <2>2. \A i \in 1 .. Len(q) : q[i] \in Req
    OBVIOUS
  <2> QED
    BY <2>1, <2>2
<1>3. Abs(q) \in [1 .. Len(q) -> AbsReqs]
  BY <1>1, <1>2 DEF Abs
<1>4. Abs(q) \in Seq(AbsReqs) /\ Len(Abs(q)) = Len(q)
  BY <1>1, <1>3
<1> QED
  BY <1>1, <1>4 DEF Abs, AbsReq

\* Sequences of the same length and with the same elements are the same.
LEMMA SameSeq ==
    ASSUME NEW S, NEW a \in Seq(S), NEW b \in Seq(S), Len(a) = Len(b),
           \A i \in 1 .. Len(a) : a[i] = b[i]
    PROVE  a = b
OBVIOUS

LEMMA AbsAppend ==
    ASSUME NEW q \in Seq(Req), NEW x \in Req
    PROVE  Abs(q \o <<x>>) = Append(Abs(q), AbsReq(x))
<1> DEFINE n == q \o <<x>>
           a == Abs(n)
           b == Append(Abs(q), AbsReq(x))
<1>1. /\ n \in Seq(Req) /\ Len(n) = Len(q) + 1 /\ n[Len(n)] = x
      /\ \A i \in 1 .. Len(q) : n[i] = q[i]
  BY Grown
<1>2. /\ a \in Seq(AbsReqs) /\ Len(a) = Len(n) /\ \A i \in 1 .. Len(n) : a[i] = AbsReq(n[i])
  BY <1>1, AbsFields
<1>3. /\ Abs(q) \in Seq(AbsReqs) /\ Len(Abs(q)) = Len(q)
      /\ \A i \in 1 .. Len(q) : Abs(q)[i] = AbsReq(q[i])
  BY AbsFields
<1>4. AbsReq(x) \in AbsReqs
  BY DEF AbsReq, AbsReqs, Req
<1> HIDE DEF n
<1>5. /\ b \in Seq(AbsReqs) /\ Len(b) = Len(q) + 1 /\ b[Len(q) + 1] = AbsReq(x)
      /\ \A i \in 1 .. Len(q) : b[i] = Abs(q)[i]
  BY <1>3, <1>4
<1> HIDE DEF a, b
<1>6. Len(q) \in Nat
  OBVIOUS
<1>7. ASSUME NEW i \in 1 .. Len(a) PROVE a[i] = b[i]
  <2>1. CASE i \in 1 .. Len(q)
    BY <1>1, <1>2, <1>3, <1>5, <2>1
  <2>2. CASE i = Len(q) + 1
    BY <1>1, <1>2, <1>5, <2>2
  <2> QED
    BY <1>1, <1>2, <1>6, <2>1, <2>2
<1>8. a = b
  BY <1>1, <1>2, <1>5, <1>7, SameSeq
<1> QED
  BY <1>8 DEF a, b, n

LEMMA AbsTail ==
    ASSUME NEW q \in Seq(Req), q # << >>
    PROVE  /\ Abs(Tail(q)) = Tail(Abs(q)) /\ Abs(q) # << >> /\ Head(Abs(q)) = AbsReq(q[1])
<1> DEFINE n == Tail(q)
           A == Abs(q)
<1>1. /\ n \in Seq(Req) /\ Len(n) = Len(q) - 1 /\ Len(q) \in Nat /\ Len(q) > 0
      /\ DOMAIN n = 1 .. Len(n) /\ \A i \in DOMAIN n : i + 1 \in DOMAIN q /\ n[i] = q[i + 1]
  BY Shrunk
<1>2. /\ Abs(n) \in Seq(AbsReqs) /\ Len(Abs(n)) = Len(n)
      /\ \A i \in 1 .. Len(n) : Abs(n)[i] = AbsReq(n[i])
  BY <1>1, AbsFields
<1>3. /\ A \in Seq(AbsReqs) /\ Len(A) = Len(q)
      /\ \A i \in 1 .. Len(q) : A[i] = AbsReq(q[i])
  BY AbsFields
<1> HIDE DEF n, A
<1>4. A # << >> /\ Head(A) = A[1]
  BY <1>1, <1>3
<1>5. /\ Tail(A) \in Seq(AbsReqs) /\ Len(Tail(A)) = Len(q) - 1
      /\ \A i \in 1 .. Len(q) - 1 : Tail(A)[i] = A[i + 1]
  BY <1>1, <1>3, <1>4
<1>6. ASSUME NEW i \in 1 .. Len(n) PROVE Abs(n)[i] = Tail(A)[i]
  <2>1. i \in 1 .. Len(q) - 1 /\ i + 1 \in 1 .. Len(q)
    BY <1>1
  <2> QED
    BY <1>1, <1>2, <1>3, <1>5, <2>1
<1>7. Abs(n) = Tail(A)
  <2> DEFINE a == Abs(n)
             b == Tail(A)
  <2>1. a \in Seq(AbsReqs) /\ b \in Seq(AbsReqs) /\ Len(a) = Len(b) /\ Len(a) = Len(n)
    BY <1>1, <1>2, <1>5
  <2>2. \A i \in 1 .. Len(a) : a[i] = b[i]
    BY <1>6, <2>1
  <2> HIDE DEF a, b
  <2>3. a = b
    BY <2>1, <2>2, SameSeq
  <2> QED
    BY <2>3 DEF a, b
<1>8. A[1] = AbsReq(q[1])
  BY <1>1, <1>3
<1> QED
  BY <1>4, <1>7, <1>8 DEF n, A

LEMMA AbsRewritten ==
    ASSUME NEW q \in Seq(Req), q # << >>, NEW n, NEW code, Rewritten(q, n, code)
    PROVE  Abs(n) = Abs(q)
<1>1. /\ n \in Seq(Req) /\ Len(n) = Len(q) /\ n[1].id = q[1].id /\ n[1].kind = q[1].kind
      /\ \A i \in DOMAIN q : i > 1 => n[i] = q[i]
  BY DEF Rewritten
<1>2. /\ Abs(n) \in Seq(AbsReqs) /\ Len(Abs(n)) = Len(q)
      /\ \A i \in 1 .. Len(q) : Abs(n)[i] = AbsReq(n[i])
  BY <1>1, AbsFields
<1>3. /\ Abs(q) \in Seq(AbsReqs) /\ Len(Abs(q)) = Len(q)
      /\ \A i \in 1 .. Len(q) : Abs(q)[i] = AbsReq(q[i])
  BY AbsFields
<1>4. \A i \in 1 .. Len(q) : AbsReq(n[i]) = AbsReq(q[i])
  <2> SUFFICES ASSUME NEW i \in 1 .. Len(q) PROVE AbsReq(n[i]) = AbsReq(q[i])
    OBVIOUS
  <2>1. i \in DOMAIN q /\ (i = 1 \/ i > 1)
    OBVIOUS
  <2> QED
    BY <1>1, <2>1 DEF AbsReq
<1> DEFINE a == Abs(n)
           b == Abs(q)
<1>5. a \in Seq(AbsReqs) /\ b \in Seq(AbsReqs) /\ Len(a) = Len(b)
  BY <1>2, <1>3
<1>6. \A i \in 1 .. Len(a) : a[i] = b[i]
  BY <1>2, <1>3, <1>4
<1> HIDE DEF a, b
<1>7. a = b
  BY <1>5, <1>6, SameSeq
<1> QED
  BY <1>7 DEF a, b

AbsQueue == [w \in Ways |-> Abs(sched.queue[w])]

\* A step of the scheduler, as NandQueue sees it.
AbsPut(w) ==
    /\ \E r \in Reqs : AbsQueue' = [AbsQueue EXCEPT ![w] = Append(@, r)]
    /\ sched'.marked = sched.marked

AbsComplete(w) ==
    /\ AbsQueue[w] # << >>
    /\ \E more \in {<< >>} \cup {<<r>> : r \in Reqs} :
          AbsQueue' = [AbsQueue EXCEPT ![w] = Tail(@) \o more]
    /\ sched'.marked \in {sched.marked, sched.marked \cup {Head(AbsQueue[w])}}

AbsSame == AbsQueue' = AbsQueue /\ sched'.marked = sched.marked

\* Only the queue of w has changed.
LEMMA AbsOne ==
    ASSUME NEW w \in Ways, \A v \in Ways \ {w} : sched'.queue[v] = sched.queue[v]
    PROVE  AbsQueue' = [AbsQueue EXCEPT ![w] = Abs(sched'.queue[w])]
<1> DEFINE A == AbsQueue
           B == AbsQueue'
           C == [A EXCEPT ![w] = Abs(sched'.queue[w])]
<1>1. /\ A = [v \in Ways |-> Abs(sched.queue[v])] /\ B = [v \in Ways |-> Abs(sched'.queue[v])]
  BY DEF AbsQueue
<1> HIDE DEF A, B
<1>2. \A v \in Ways : B[v] = C[v]
  BY <1>1
<1>3. DOMAIN B = Ways /\ DOMAIN C = Ways /\ B = [v \in Ways |-> B[v]] /\ C = [v \in Ways |-> C[v]]
  BY <1>1
<1>4. B = C
  BY <1>2, <1>3
<1> QED
  BY <1>4 DEF A, B

LEMMA AbsStep ==
    ASSUME IInv, [Next]_vars
    PROVE  AbsSame \/ \E w \in Ways : AbsPut(w) \/ AbsComplete(w)
<1>1. Typed
  BY DEF IInv
<1>2. CASE QueuesKept
  <2>1. \A v \in Ways : sched'.queue[v] = sched.queue[v]
    BY <1>2 DEF QueuesKept
  <2> QED
    BY <1>2, <2>1 DEF QueuesKept, AbsSame, AbsQueue
<1>3. CASE QueueGrows
  <2>1. PICK w \in Ways, x \in Req :
          /\ IsNew(x) /\ sched'.queue[w] = sched.queue[w] \o <<x>> /\ sched'.marked = sched.marked
          /\ \A v \in Ways \ {w} : sched'.queue[v] = sched.queue[v]
    BY <1>3 DEF QueueGrows
  <2>2. AbsReq(x) \in Reqs
    BY <2>1 DEF IsNew, AbsReq
  <2>3. Abs(sched'.queue[w]) = Append(Abs(sched.queue[w]), AbsReq(x))
    BY <1>1, <2>1, HeadTyped, AbsAppend
  <2>4. AbsQueue[w] = Abs(sched.queue[w])
    BY DEF AbsQueue
  <2>5. AbsQueue' = [AbsQueue EXCEPT ![w] = Append(AbsQueue[w], AbsReq(x))]
    BY <2>1, <2>3, <2>4, AbsOne
  <2> QED
    BY <2>1, <2>2, <2>5 DEF AbsPut
<1>4. CASE HeadConcluded
  <2>1. PICK w \in Ways : sched.queue[w] # << >> /\ \E c, more : Concluded(w, c, more)
    BY <1>4 DEF HeadConcluded
  <2>2. PICK c, more : Concluded(w, c, more)
    BY <2>1
  <2> DEFINE q == sched.queue[w]
             n == sched'.queue[w]
  <2>3. /\ sched'.marked = c.marked /\ \A v \in Ways \ {w} : sched'.queue[v] = sched.queue[v]
    BY <2>2 DEF Concluded
  <2>4. q \in Seq(Req) /\ q # << >> /\ q[1] \in Req
    BY <1>1, <2>1, HeadTyped
  <2>5. AbsQueue[w] = Abs(q) /\ AbsQueue' = [AbsQueue EXCEPT ![w] = Abs(n)]
    BY <2>3, AbsOne DEF AbsQueue
  <2>6. /\ Abs(Tail(q)) = Tail(Abs(q)) /\ Abs(q) # << >> /\ Head(Abs(q)) = AbsReq(q[1])
    BY <2>4, AbsTail
  <2>7. CASE (Transferred(c, w) \/ Repeated(c, w)) /\ n = c.queue[w]
    <3>1. PICK code : Rewritten(q, n, code) /\ c.marked = sched.marked
      BY <2>7 DEF Transferred, Repeated
    <3>2. Abs(n) = Abs(q)
      BY <2>4, <3>1, AbsRewritten
    <3>3. AbsQueue' = AbsQueue
      BY <2>5, <3>2 DEF AbsQueue
    <3> QED
      BY <2>3, <3>1, <3>3 DEF AbsSame
  <2>8. ASSUME Finished(c, w)
        PROVE  sched'.marked \in {sched.marked, sched.marked \cup {Head(AbsQueue[w])}}
    <3>1. c.marked = sched.marked \/ c.marked = sched.marked \cup {AbsReq(q[1])}
      BY <2>8 DEF Finished, AbsReq
    <3> QED
      BY <2>3, <2>5, <2>6, <3>1
  <2>9. CASE Finished(c, w) /\ n = Tail(q)
    <3>1. Tail(Abs(q)) \o << >> = Abs(n)
      <4> DEFINE A == Abs(q)
      <4>1. A \in Seq(AbsReqs) /\ A # << >>
        BY <2>4, <2>6, AbsFields
      <4>2. Tail(A) \o << >> = Tail(A)
        BY <4>1
      <4> QED
        BY <2>6, <2>9, <4>2
    <3>2. AbsQueue' = [AbsQueue EXCEPT ![w] = Tail(AbsQueue[w]) \o << >>]
      BY <2>5, <3>1
    <3> QED
      BY <2>5, <2>6, <2>8, <2>9, <3>2 DEF AbsComplete
  <2>10. CASE /\ Finished(c, w) /\ Tail(q) = << >>
              /\ \E x \in Req : n = <<x>> /\ IsNew(x)
    <3>1. PICK x \in Req : n = <<x>> /\ IsNew(x)
      BY <2>10
    <3>2. AbsReq(x) \in Reqs
      BY <3>1 DEF IsNew, AbsReq
    <3>3. Abs(<< >>) = << >>
      BY DEF Abs
    <3>4. Abs(n) = <<AbsReq(x)>>
      BY <3>1 DEF Abs, AbsReq
    <3>5. Tail(Abs(q)) = << >>
      BY <2>6, <2>10, <3>3
    <3>6. Tail(Abs(q)) \o <<AbsReq(x)>> = Abs(n)
      <4>1. PICK y : y = AbsReq(x)
        OBVIOUS
      <4>2. << >> \o <<y>> = <<y>>
        OBVIOUS
      <4> QED
        BY <3>4, <3>5, <4>1, <4>2
    <3>7. AbsQueue' = [AbsQueue EXCEPT ![w] = Tail(AbsQueue[w]) \o <<AbsReq(x)>>]
      BY <2>5, <3>6
    <3> QED
      BY <2>5, <2>6, <2>8, <2>10, <3>2, <3>7 DEF AbsComplete
  <2> QED
    BY <1>1, <2>1, <2>2, <2>7, <2>9, <2>10, ConcludedQueue
<1> QED
  BY <1>2, <1>3, <1>4, StepOK

\* The scheduler does what NandQueue says, step by step: every way works off its
\* queue in order, each request leaves it once, and no block but that of the
\* request that leaves is booked.  (That it leaves in the end is left to TLC.)
THEOREM SchedulerImplementsQueues ==
    Spec => Queues!Init /\ [][Queues!Next]_(Queues!queueVars)
<1>1. Init => Queues!Init
  BY DEF Init, Queues!Init
<1>2. IInv /\ [Next]_vars => [Queues!Next]_(Queues!queueVars)
  <2> SUFFICES ASSUME IInv, [Next]_vars PROVE [Queues!Next]_(Queues!queueVars)
    OBVIOUS
  <2>1. CASE AbsSame
    BY <2>1 DEF AbsSame, AbsQueue, Abs, Queues!queueVars
  <2>2. ASSUME NEW w \in Ways, AbsPut(w) PROVE Queues!Put(w)
    BY <2>2 DEF AbsPut, AbsQueue, Abs, Queues!Put
  <2>3. ASSUME NEW w \in Ways, AbsComplete(w) PROVE Queues!Complete(w)
    BY <2>3 DEF AbsComplete, AbsQueue, Abs, Queues!Complete
  <2> QED
    BY <2>1, <2>2, <2>3, AbsStep DEF Queues!Next
<1> QED
  BY <1>1, <1>2, ScheduleInvariant, PTL DEF Spec

-----------------------------------------------------------------------------
(* The walks of WaysListed meet the ways that L assigns to the list.       *)

LEMMA WaysFinite == IsFiniteSet(Ways) /\ Cardinality(Ways) = NumWays
<1>1. 0 \in Int /\ NumWays - 1 \in Int /\ NumWays \in Nat \ {0}
  BY WaysAssumption
<1> QED
  BY <1>1, FS_Interval DEF Ways

LEMMA ListIsWalked ==
    ASSUME Typed, NEW L \in [Ways -> Lists], NEW pos \in [Ways -> Nat],
           LinksOK(sched, L, pos), NEW l \in Lists
    PROVE  /\ Nodes(Forward(l)) = {w \in Ways : L[w] = l}
           /\ Nodes(Backward(l)) = {w \in Ways : L[w] = l}
           /\ Len(Forward(l)) <= NumWays
<1> DEFINE S == {w \in Ways : L[w] = l}
           next == [w \in Ways |-> sched.die[w].next]
           prev == [w \in Ways |-> sched.die[w].prev]
           head == sched.list[l].head
           tail == sched.list[l].tail
<1>0. /\ None \notin Ways /\ head \in Link /\ tail \in Link
      /\ \A w \in Ways : next[w] \in Link /\ prev[w] \in Link
  BY WayIsSome DEF Typed, SchedType, DieType
<1>1. IsFiniteSet(S) /\ Cardinality(S) <= NumWays /\ NumWays \in Nat
  <2>1. IsFiniteSet(S) /\ Cardinality(S) <= Cardinality(Ways)
    BY WaysFinite, FS_Subset
  <2> QED
    BY <2>1, WaysFinite, WaysAssumption
<1>2. /\ head # None => head \in S
      /\ tail # None => tail \in S
      /\ \A x \in S :
           /\ pos[x] \in Nat
           /\ next[x] # None => next[x] \in S /\ prev[next[x]] = x /\ pos[x] < pos[next[x]]
           /\ prev[x] # None => prev[x] \in S /\ next[prev[x]] = x
           /\ prev[x] = None => head = x
           /\ next[x] = None => tail = x
  BY <1>0 DEF LinksOK, Link
<1>3. LinkedIn(S, next, prev, head, pos, None)
  <2>1. None \notin S
    BY <1>0
  <2> HIDE DEF S, next, prev, head, tail
  <2> QED
    BY <1>2, <2>1 DEF LinkedIn
<1> HIDE DEF S, next, prev, head, tail
<1>4. /\ Enumerates(Chain(next, head, NumWays, None), S, next, head, None)
      /\ Len(Chain(next, head, NumWays, None)) <= NumWays
  BY <1>1, <1>3, ChainEnumerates
<1>5. \E q : LinkedIn(S, prev, next, tail, q, None)
  BY <1>2, <1>3, <1>4, Backwards
<1>6. Enumerates(Chain(prev, tail, NumWays, None), S, prev, tail, None)
  BY <1>1, <1>5, ChainEnumerates
<1> QED
  BY <1>4, <1>6 DEF Enumerates, Forward, Backward, S, next, prev, head, tail

\* The list of a way is the one that its die and its queue ask for.
LEMMA ListFits ==
    ASSUME Typed, NEW w \in Ways, NEW l \in Lists, WayOK(w, l)
    PROVE  Fits(l, w)
<1>1. sched.queue[w] \in Seq(Req) /\ sched.die[w] \in DieType
  BY DEF Typed, SchedType
<1>2. sched.queue[w] # << >> => /\ Head(sched.queue[w]) = sched.queue[w][1]
                                /\ sched.queue[w][1].code \in Codes
  <2>1. sched.queue[w] # << >> => /\ Head(sched.queue[w]) = sched.queue[w][1]
                                  /\ sched.queue[w][1] \in Req
    BY <1>1
  <2>2. \A r \in Req : r.code \in Codes
    BY DEF Req
  <2> QED
    BY <2>1, <2>2
<1>3. CASE l = "idle"
  BY <1>3 DEF WayOK, IdleOK, Fits
<1>4. CASE l \in {"readTrigger", "erase", "write", "readTransfer"}
  <2>1. /\ sched.die[w].state = "IDLE" /\ sched.queue[w] # << >>
        /\ sched.queue[w][1].code \in ListCodes(l)
    BY <1>4 DEF WayOK, IdleOK
  <2> QED
    BY <1>2, <1>4, <2>1 DEF ListCodes, Fits
<1>5. CASE l = "statusCheck"
  BY <1>2, <1>5 DEF WayOK, CheckOK, Fits, Codes
<1>6. CASE l = "statusReport"
  BY <1>2, <1>6 DEF WayOK, ReportOK, Fits, Codes
<1> QED
  BY <1>3, <1>4, <1>5, <1>6 DEF Lists

\* Every way is in exactly one way list, whose links agree in both directions and
\* which is the one the state of its die and the head of its queue ask for, for any
\* number of ways: PutTo...List and SelectivGetFrom...List lose no way, though a way
\* has one pair of links for the seven lists and a poll moves it while it walks.
THEOREM WaysAreListed == Spec => []WaysListed
<1>1. ASSUME IInv PROVE WaysListed
  <2>1. PICK L \in [Ways -> Lists], pos \in [Ways -> Nat] : Inv(L, pos)
    BY <1>1 DEF IInv
  <2>2. Typed /\ LinksOK(sched, L, pos) /\ \A w \in Ways : WayOK(w, L[w])
    BY <1>1, <2>1 DEF IInv, Inv
  <2>3. \A l \in Lists : /\ Nodes(Forward(l)) = {w \in Ways : L[w] = l}
                         /\ Nodes(Backward(l)) = {w \in Ways : L[w] = l}
                         /\ Len(Forward(l)) <= NumWays
    BY <2>2, ListIsWalked
  <2>4. \A l \in Lists : \A w \in Nodes(Forward(l)) : Fits(l, w)
    <3> SUFFICES ASSUME NEW l \in Lists, NEW w \in Nodes(Forward(l)) PROVE Fits(l, w)
      OBVIOUS
    <3>1. w \in Ways /\ WayOK(w, l)
      BY <2>2, <2>3
    <3> QED
      BY <3>1, <2>2, ListFits
  <2>5. \A l, k \in Lists : k # l => Nodes(Forward(l)) \cap Nodes(Forward(k)) = {}
    BY <2>3
  <2>6. UNION {Nodes(Forward(l)) : l \in Lists} = Ways
    BY <2>3
  <2> QED
    BY <2>3, <2>4, <2>5, <2>6 DEF WaysListed
<1> QED
  BY <1>1, ScheduleInvariant, PTL
=============================================================================
