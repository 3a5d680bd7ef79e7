---------------------------- MODULE LinkedLists ----------------------------
(***************************************************************************)
(* Walks along the links of the firmware's intrusive lists: request_       *)
(* schedule.c links the ways, data_buffer.c the entries, and address_      *)
(* translation.c the blocks, each through the fields of the node itself,   *)
(* with one value (none) for the end.                                      *)
(***************************************************************************)
EXTENDS Naturals, Sequences, FiniteSets

\* The nodes from `from' along the links, n steps far, none after the last one.
Along(link, from, n, none) ==
    LET at[i \in 1 .. n + 1] ==
            IF i = 1 THEN from
            ELSE IF at[i - 1] = none THEN none ELSE link[at[i - 1]]
    IN  at

\* The list that begins at `from'.  One that does not end within n nodes, say
\* because it runs in a circle, shows by its length.
Chain(link, from, n, none) ==
    LET at == Along(link, from, n, none)
    IN  [i \in 1 .. Cardinality({j \in 1 .. n + 1 : at[j] # none}) |-> at[i]]

Nodes(chain) == {chain[i] : i \in DOMAIN chain}
=============================================================================
