--------------------------- MODULE MCNandSchedule ---------------------------
(***************************************************************************)
(* Requests for NandSchedule.  Host reads have nandEccWarning on, those of *)
(* the garbage collector off.                                              *)
(***************************************************************************)
EXTENDS NandSchedule

HostRead == [code |-> "READ", warning |-> TRUE]
GcRead   == [code |-> "READ", warning |-> FALSE]
Write    == [code |-> "WRITE", warning |-> FALSE]
Erase    == [code |-> "ERASE", warning |-> FALSE]
Reset    == [code |-> "RESET", warning |-> FALSE]

\* A request of any other kind, before or beside a host read.
Requests == <<{GcRead, Write, Erase, Reset}, {HostRead}>>
=============================================================================
