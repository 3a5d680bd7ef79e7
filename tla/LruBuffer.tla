----------------------------- MODULE LruBuffer -----------------------------
(***************************************************************************)
(* What a data buffer promises the request transformation: entries in the  *)
(* order of their last use, a lookup that finds a slice exactly when some  *)
(* entry holds it, and the least recently used entry for a slice that none *)
(* holds.  RequestPath keeps its buffers in this form; DataBufList, with   *)
(* the links of the code, is shown to implement it.                        *)
(***************************************************************************)
EXTENDS Naturals, Sequences

CONSTANTS EntryCount,   \* AVAILABLE_DATA_BUFFER_ENTRY_COUNT
          Lsas,         \* logical slice addresses
          None          \* LSA_NONE, DATA_BUF_NONE

VARIABLES lru,          \* the entries, most recently used first
          hashed,       \* the entries a lookup can find
          lsa,          \* the slice of every entry
          cur           \* the slice that waits for the entry just allocated

bufferVars == <<lru, hashed, lsa, cur>>

Entries == 0 .. EntryCount - 1

Init ==
    /\ lru = [i \in 1 .. EntryCount |-> i - 1]
    /\ hashed = {}
    /\ lsa = [e \in Entries |-> None]
    /\ cur = None

Holders(l) == {e \in hashed : lsa[e] = l}

\* The entry moves to the front; those that were before it move one back.
Use(e) ==
    \E i \in DOMAIN lru :
        /\ lru[i] = e
        /\ lru' = [j \in DOMAIN lru |-> IF j = 1 THEN e ELSE IF j <= i THEN lru[j - 1] ELSE lru[j]]

Hit(l) ==
    /\ cur = None
    /\ \E e \in Holders(l) : Use(e)
    /\ UNCHANGED <<hashed, lsa, cur>>

Allocate(l) ==
    /\ cur = None /\ Holders(l) = {}
    /\ Use(lru[Len(lru)])
    /\ hashed' = hashed \ {lru[Len(lru)]}
    /\ cur' = l
    /\ UNCHANGED lsa

\* The entry at the head gets its slice, once its old contents are evicted.
Assign ==
    /\ cur # None
    /\ lsa' = [lsa EXCEPT ![Head(lru)] = cur]
    /\ hashed' = hashed \cup {Head(lru)}
    /\ cur' = None
    /\ UNCHANGED lru

Next == Assign \/ \E l \in Lsas : Hit(l) \/ Allocate(l)

Spec == Init /\ [][Next]_bufferVars
=============================================================================
