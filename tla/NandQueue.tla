----------------------------- MODULE NandQueue -----------------------------
(***************************************************************************)
(* What the NAND scheduler promises the layers above it, without way       *)
(* lists, polls or hardware: every way works off its queue in order, every *)
(* request leaves it once, and the blocks of some requests are booked as   *)
(* grown bad when they leave.  NandSchedule is shown to implement this     *)
(* specification; RequestPath and GcPath build on it (NandExecute).        *)
(***************************************************************************)
EXTENDS Naturals, Sequences

CONSTANTS Ways,    \* the ways of a channel
          Reqs     \* NAND requests

VARIABLES queue,   \* nandReqQ of every way
          marked   \* the requests whose block is booked as grown bad

queueVars == <<queue, marked>>

Init ==
    /\ queue = [w \in Ways |-> << >>]
    /\ marked = {}

\* The layers above queue a request.
Put(w) ==
    /\ \E r \in Reqs : queue' = [queue EXCEPT ![w] = Append(@, r)]
    /\ UNCHANGED marked

\* The oldest request of a way is done; one that failed marks its block.  Where
\* the queue runs empty the scheduler looks for blocked requests, so that one
\* may enter in the same step.
Complete(w) ==
    /\ queue[w] # << >>
    /\ \E more \in {<< >>} \cup {<<r>> : r \in Reqs} :
          queue' = [queue EXCEPT ![w] = Tail(@) \o more]
    /\ marked' \in {marked, marked \cup {Head(queue[w])}}

Next == \E w \in Ways : Put(w) \/ Complete(w)

Spec == Init /\ [][Next]_queueVars /\ \A w \in Ways : WF_queueVars(Complete(w))
=============================================================================
