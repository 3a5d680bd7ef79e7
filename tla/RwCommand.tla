----------------------------- MODULE RwCommand -----------------------------
(***************************************************************************)
(* What the RW command promises its caller, without queues, buffers or     *)
(* hardware: the device first takes over the pages to be written, then     *)
(* hands out the pages to be read, then acknowledges the command, once.    *)
(* RequestPath is shown to implement this specification.                   *)
(***************************************************************************)
EXTENDS Naturals

CONSTANT Cmds   \* NVMe command slot tags

VARIABLES sent,     \* the RW commands the host has sent
          rxLeft,   \* write slices still to be taken over
          txLeft,   \* read slices still to be handed out
          acks      \* acknowledgements posted

rwVars == <<sent, rxLeft, txLeft, acks>>

Init ==
    /\ sent = {}
    /\ rxLeft = [c \in Cmds |-> 0]
    /\ txLeft = [c \in Cmds |-> 0]
    /\ acks = [c \in Cmds |-> 0]

\* The host sends a RW command with pages to write and pages to read.
Send(c) ==
    /\ c \notin sent
    /\ sent' = sent \cup {c}
    /\ rxLeft'[c] > 0 /\ txLeft'[c] > 0
    /\ rxLeft' = [rxLeft EXCEPT ![c] = rxLeft'[c]]
    /\ txLeft' = [txLeft EXCEPT ![c] = txLeft'[c]]
    /\ UNCHANGED acks

TakeOver(c) ==
    /\ rxLeft[c] > 0
    /\ rxLeft' = [rxLeft EXCEPT ![c] = @ - 1]
    /\ UNCHANGED <<sent, txLeft, acks>>

HandOut(c) ==
    /\ rxLeft[c] = 0 /\ txLeft[c] > 0
    /\ txLeft' = [txLeft EXCEPT ![c] = @ - 1]
    /\ UNCHANGED <<sent, rxLeft, acks>>

Acknowledge(c) ==
    /\ c \in sent /\ rxLeft[c] = 0 /\ txLeft[c] = 0 /\ acks[c] = 0
    /\ acks' = [acks EXCEPT ![c] = 1]
    /\ UNCHANGED <<sent, rxLeft, txLeft>>

Next == \E c \in Cmds : Send(c) \/ TakeOver(c) \/ HandOut(c) \/ Acknowledge(c)

Spec == Init /\ [][Next]_rwVars
=============================================================================
