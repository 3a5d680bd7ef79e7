---------------------------- MODULE DataBufList ----------------------------
(***************************************************************************)
(* The lists of a data buffer, data_buffer.c: the doubly linked LRU list   *)
(* and the doubly linked hash lists, in one record `b' as the code keeps   *)
(* them.  data_buffer_ccmd.c has the same functions, with Ccmd in their    *)
(* names, for the read buffer.  Each C function is an operator on `b'.     *)
(***************************************************************************)
EXTENDS Naturals, Sequences, LinkedLists

CONSTANTS EntryCount,   \* AVAILABLE_DATA_BUFFER_ENTRY_COUNT
          Lsas,         \* logical slice addresses
          None          \* LSA_NONE, DATA_BUF_NONE, REQ_SLOT_TAG_NONE

ASSUME ConstantsAssumption ==
    /\ EntryCount \in Nat \ {0}
    /\ Lsas \subseteq Nat
    /\ None \notin Nat

VARIABLES b,            \* dataBufMap, dataBufLruList, dataBufHashTable
          cur           \* the slice whose entry is allocated and not hashed yet

vars == <<b, cur>>

Entries == 0 .. EntryCount - 1

InitDataBuf ==
    [lsa      |-> [e \in Entries |-> None],
     prev     |-> [e \in Entries |-> IF e = 0 THEN None ELSE e - 1],
     next     |-> [e \in Entries |-> IF e = EntryCount - 1 THEN None ELSE e + 1],
     head     |-> 0,
     tail     |-> EntryCount - 1,
     hashPrev |-> [e \in Entries |-> None],
     hashNext |-> [e \in Entries |-> None],
     hashHead |-> [e \in Entries |-> None],
     hashTail |-> [e \in Entries |-> None]]

FindDataBufHashTableEntry(l) == l % EntryCount

\* The entries of the list that begins at `from'.
List(link, from) == Chain(link, from, EntryCount, None)

(***************************************************************************)
(* The LRU list.                                                           *)
(***************************************************************************)

\* Mutant: the entry before the old tail does not become the tail.
UnlinkedKeepTail(e) ==
    LET p == b.prev[e]
        n == b.next[e]
    IN  CASE n # None /\ p # None -> [b EXCEPT !.next[p] = n, !.prev[n] = p]
          [] n = None /\ p # None -> [b EXCEPT !.next[p] = None]
          [] n # None /\ p = None -> [b EXCEPT !.prev[n] = None, !.head = n]
          [] OTHER                -> [b EXCEPT !.tail = None, !.head = None]

\* The four cases in which CheckDataBufHit takes an entry out of the list.
Unlinked(e) ==
    LET p == b.prev[e]
        n == b.next[e]
    IN  CASE n # None /\ p # None -> [b EXCEPT !.next[p] = n, !.prev[n] = p]
          [] n = None /\ p # None -> [b EXCEPT !.next[p] = None, !.tail = p]
          [] n # None /\ p = None -> [b EXCEPT !.prev[n] = None, !.head = n]
          [] OTHER                -> [b EXCEPT !.tail = None, !.head = None]

\* The entry becomes the head of the list x.
ToHead(x, e) ==
    IF x.head # None
    THEN [x EXCEPT !.prev = [@ EXCEPT ![x.head] = e, ![e] = None],
                   !.next[e] = x.head, !.head = e]
    ELSE [x EXCEPT !.prev[e] = None, !.next[e] = None, !.head = e, !.tail = e]

(***************************************************************************)
(* The hash lists.                                                         *)
(***************************************************************************)

PutToDataBufHashList(x, e) ==
    LET h == FindDataBufHashTableEntry(x.lsa[e])
        t == x.hashTail[h]
    IN  IF t # None
        THEN [x EXCEPT !.hashPrev[e] = t, !.hashNext = [@ EXCEPT ![e] = None, ![t] = e],
                       !.hashTail[h] = e]
        ELSE [x EXCEPT !.hashPrev[e] = None, !.hashNext[e] = None,
                       !.hashHead[h] = e, !.hashTail[h] = e]

\* Mutant: the neighbour behind the removed entry keeps its link back to it.
SelectiveGetKeepBackLink(x, e) ==
    LET p == x.hashPrev[e]
        n == x.hashNext[e]
        h == FindDataBufHashTableEntry(x.lsa[e])
    IN  IF x.lsa[e] = None THEN x
        ELSE CASE n # None /\ p # None -> [x EXCEPT !.hashNext[p] = n]
               [] n = None /\ p # None -> [x EXCEPT !.hashNext[p] = None, !.hashTail[h] = p]
               [] n # None /\ p = None -> [x EXCEPT !.hashPrev[n] = None, !.hashHead[h] = n]
               [] OTHER                -> [x EXCEPT !.hashHead[h] = None, !.hashTail[h] = None]

\* The removed entry keeps its own links until it is put into a list again.
SelectiveGetFromDataBufHashList(x, e) ==
    LET p == x.hashPrev[e]
        n == x.hashNext[e]
        h == FindDataBufHashTableEntry(x.lsa[e])
    IN  IF x.lsa[e] = None THEN x
        ELSE CASE n # None /\ p # None -> [x EXCEPT !.hashNext[p] = n, !.hashPrev[n] = p]
               [] n = None /\ p # None -> [x EXCEPT !.hashNext[p] = None, !.hashTail[h] = p]
               [] n # None /\ p = None -> [x EXCEPT !.hashPrev[n] = None, !.hashHead[h] = n]
               [] OTHER                -> [x EXCEPT !.hashHead[h] = None, !.hashTail[h] = None]

(***************************************************************************)
(* The operations.                                                         *)
(***************************************************************************)

\* The first entry on the hash list of l that holds l, None where none does.
Find(l) ==
    LET c       == List(b.hashNext, b.hashHead[FindDataBufHashTableEntry(l)])
        holding == {i \in DOMAIN c : b.lsa[c[i]] = l}
    IN  IF holding = {} THEN None ELSE c[CHOOSE i \in holding : \A j \in holding : i <= j]

CheckDataBufHit(l) ==
    /\ cur = None /\ Find(l) # None
    /\ b' = ToHead(Unlinked(Find(l)), Find(l))
    /\ UNCHANGED cur

\* The tail is moved to the head and leaves its hash list.  A list of one entry
\* keeps it at both ends.
AllocateDataBuf(l) ==
    /\ cur = None /\ Find(l) = None
    /\ b' = SelectiveGetFromDataBufHashList(ToHead(Unlinked(b.tail), b.tail), b.tail)
    /\ cur' = l

\* ReqTransSliceToLowLevel, after the eviction: the entry gets its new slice.
ReqTransSliceToLowLevel ==
    /\ cur # None
    /\ b' = PutToDataBufHashList([b EXCEPT !.lsa[b.head] = cur], b.head)
    /\ cur' = None

Init == b = InitDataBuf /\ cur = None

Next ==
    \/ ReqTransSliceToLowLevel
    \/ \E l \in Lsas : CheckDataBufHit(l) \/ AllocateDataBuf(l)

Spec == Init /\ [][Next]_vars

(***************************************************************************)
(* Properties.                                                             *)
(***************************************************************************)

\* The links of a list with these ends run back the way they run forth.
TwoWay(next, prev, head, tail) ==
    LET c == List(next, head)
    IN  IF c = << >> THEN head = None /\ tail = None
        ELSE /\ prev[c[1]] = None /\ c[Len(c)] = tail
             /\ \A i \in 2 .. Len(c) : prev[c[i]] = c[i - 1]

\* Every entry but the one being refilled is on the hash list of its slice.
Members == {e \in Entries : b.lsa[e] # None /\ (cur = None \/ e # b.head)}

\* The backward links, which only the removals use, agree with the forward ones
\* in the LRU list and in every hash list, both ends included; no entry is lost
\* from the LRU list, and the hash list of an address has exactly the entries whose
\* slice hashes to it, whatever order of hits, evictions and collisions led here
\* (CheckDataBufHit, AllocateDataBuf, PutToDataBufHashList,
\* SelectiveGetFromDataBufHashList).
LinksExact ==
    /\ TwoWay(b.next, b.prev, b.head, b.tail)
    /\ Nodes(List(b.next, b.head)) = Entries
    /\ \A h \in Entries :
          /\ TwoWay(b.hashNext, b.hashPrev, b.hashHead[h], b.hashTail[h])
          /\ Nodes(List(b.hashNext, b.hashHead[h])) =
                {e \in Members : FindDataBufHashTableEntry(b.lsa[e]) = h}

OnHashList == UNION {Nodes(List(b.hashNext, b.hashHead[h])) : h \in Entries}

Buffer == INSTANCE LruBuffer
              WITH lru <- List(b.next, b.head), hashed <- OnHashList, lsa <- b.lsa

\* The linked lists implement the buffer that RequestPath works with: a lookup
\* finds a slice exactly when an entry holds it, a use moves the entry to the
\* front, and the entry handed out is the one used least recently.
ImplementsLruBuffer == Buffer!Spec
=============================================================================
