------------------------- MODULE DataBufListProofs -------------------------
(***************************************************************************)
(* The linked lists of a data buffer, for any number of entries and any    *)
(* slices: LinksExact holds, and they implement LruBuffer.                 *)
(***************************************************************************)
EXTENDS DataBufList, LinkedListProofs

Link   == Entries \cup {None}
Slices == Lsas \cup {None}

BufType ==
    [lsa : [Entries -> Slices], prev : [Entries -> Link], next : [Entries -> Link],
     head : Entries, tail : Entries,
     hashPrev : [Entries -> Link], hashNext : [Entries -> Link],
     hashHead : [Entries -> Link], hashTail : [Entries -> Link]]

Hash(x, e) == FindDataBufHashTableEntry(x.lsa[e])

\* Every entry is in the LRU list, and pos grows from its head to its tail.
LruOK(x, pos) ==
    /\ x.prev[x.head] = None /\ x.next[x.tail] = None
    /\ \A e \in Entries :
         /\ x.next[e] # None => x.prev[x.next[e]] = e /\ pos[e] < pos[x.next[e]]
         /\ x.prev[e] # None => x.next[x.prev[e]] = e
         /\ x.prev[e] = None => x.head = e
         /\ x.next[e] = None => x.tail = e

\* The entries of M are on the hash lists of their slices.
HashOK(x, M, pos) ==
    /\ \A e \in M :
         /\ x.lsa[e] # None
         /\ x.hashNext[e] # None => /\ x.hashNext[e] \in M
                                    /\ Hash(x, x.hashNext[e]) = Hash(x, e)
                                    /\ x.hashPrev[x.hashNext[e]] = e
                                    /\ pos[e] < pos[x.hashNext[e]]
         /\ x.hashPrev[e] # None => /\ x.hashPrev[e] \in M
                                    /\ Hash(x, x.hashPrev[e]) = Hash(x, e)
                                    /\ x.hashNext[x.hashPrev[e]] = e
         /\ x.hashPrev[e] = None => x.hashHead[Hash(x, e)] = e
         /\ x.hashNext[e] = None => x.hashTail[Hash(x, e)] = e
    /\ \A h \in Entries :
         /\ x.hashHead[h] # None => /\ x.hashHead[h] \in M
                                    /\ Hash(x, x.hashHead[h]) = h
                                    /\ x.hashPrev[x.hashHead[h]] = None
         /\ x.hashTail[h] # None => /\ x.hashTail[h] \in M
                                    /\ Hash(x, x.hashTail[h]) = h
                                    /\ x.hashNext[x.hashTail[h]] = None
         /\ x.hashHead[h] = None <=> x.hashTail[h] = None

Typed == b \in BufType /\ cur \in Slices

IInv ==
    /\ Typed
    /\ \E pos \in [Entries -> Nat] : LruOK(b, pos)
    /\ \E pos \in [Entries -> Nat] : HashOK(b, Members, pos)

-----------------------------------------------------------------------------

LEMMA NoneIsNoEntry == None \notin Entries /\ None \notin Lsas /\ EntryCount \in Nat \ {0}
<1>1. Entries \subseteq Nat
  BY DEF Entries
<1> QED
  BY <1>1, ConstantsAssumption

LEMMA HashIsEntry == \A l \in Lsas : FindDataBufHashTableEntry(l) \in Entries
<1> SUFFICES ASSUME NEW l \in Lsas PROVE FindDataBufHashTableEntry(l) \in Entries
  OBVIOUS
<1>1. l \in Nat /\ EntryCount \in Nat /\ EntryCount > 0
  BY ConstantsAssumption
<1>2. l % EntryCount \in 0 .. EntryCount - 1
  BY <1>1
<1> QED
  BY <1>2 DEF FindDataBufHashTableEntry, Entries

LEMMA EntriesFinite == IsFiniteSet(Entries) /\ Cardinality(Entries) = EntryCount
<1>1. 0 \in Int /\ EntryCount - 1 \in Int /\ EntryCount \in Nat \ {0}
  BY ConstantsAssumption
<1> QED
  BY <1>1, FS_Interval DEF Entries

\* What CheckDataBufHit and AllocateDataBuf make of the LRU list, field by field:
\* y is x with e at its head.
AfterMove(x, y, e) ==
    /\ y \in BufType
    /\ y.lsa = x.lsa /\ y.hashPrev = x.hashPrev /\ y.hashNext = x.hashNext
    /\ y.hashHead = x.hashHead /\ y.hashTail = x.hashTail
    /\ y.head = e
    /\ y.tail = IF e = x.tail /\ e # x.head THEN x.prev[e] ELSE x.tail
    /\ \A v \in Entries :
         /\ y.next[v] = IF e = x.head THEN x.next[v]
                        ELSE IF v = e THEN x.head
                        ELSE IF v = x.prev[e] THEN x.next[e] ELSE x.next[v]
         /\ y.prev[v] = IF e = x.head THEN x.prev[v]
                        ELSE IF v = e THEN None
                        ELSE IF v = x.head THEN e
                        ELSE IF v = x.next[e] THEN x.prev[e] ELSE x.prev[v]

LEMMA MoveFields ==
    ASSUME b \in BufType, NEW pos \in [Entries -> Nat], LruOK(b, pos), NEW e \in Entries
    PROVE  AfterMove(b, ToHead(Unlinked(e), e), e)
<1> DEFINE p == b.prev[e]
           n == b.next[e]
           u == Unlinked(e)
           y == ToHead(u, e)
<1>0. /\ p \in Link /\ n \in Link /\ None \notin Entries
      /\ p # None => b.next[p] = e /\ p # e
      /\ n # None => b.prev[n] = e /\ n # e
      /\ p = None <=> e = b.head
      /\ n = None <=> e = b.tail
      /\ p # None /\ n # None => p # n
  BY NoneIsNoEntry DEF LruOK, BufType, Link
<1>t. /\ b.next \in [Entries -> Link] /\ b.prev \in [Entries -> Link]
      /\ b.head \in Entries /\ b.tail \in Entries /\ None \in Link /\ Entries \subseteq Link
      /\ b.prev[b.head] = None
  BY DEF BufType, Link, LruOK
<1> DEFINE N == [v \in Entries |-> IF e = b.head THEN b.next[v]
                                  ELSE IF v = e THEN b.head
                                  ELSE IF v = p THEN n ELSE b.next[v]]
           P == [v \in Entries |-> IF e = b.head THEN b.prev[v]
                                  ELSE IF v = e THEN None
                                  ELSE IF v = b.head THEN e
                                  ELSE IF v = n THEN p ELSE b.prev[v]]
           t == IF e = b.tail /\ e # b.head THEN p ELSE b.tail
<1>n. N \in [Entries -> Link] /\ P \in [Entries -> Link] /\ t \in Entries
  BY <1>0, <1>t DEF Link
<1>y. y = [b EXCEPT !.next = N, !.prev = P, !.head = e, !.tail = t]
  <2>1. CASE p # None /\ n # None
    <3>1. u = [b EXCEPT !.next[p] = n, !.prev[n] = p]
      BY <2>1 DEF Unlinked
    <3>2. y = [u EXCEPT !.prev = [@ EXCEPT ![u.head] = e, ![e] = None],
                        !.next[e] = u.head, !.head = e]
      BY <1>t, <1>0, <3>1 DEF ToHead, BufType
    <3>3. N = [[b.next EXCEPT ![p] = n] EXCEPT ![e] = b.head]
      BY <1>0, <1>t, <2>1 DEF Link
    <3>4. P = [[b.prev EXCEPT ![n] = p] EXCEPT ![b.head] = e, ![e] = None]
      BY <1>0, <1>t, <2>1 DEF Link
    <3>5. t = b.tail
      BY <1>0, <2>1
    <3> HIDE DEF u, y, N, P, t
    <3> QED
      BY <3>1, <3>2, <3>3, <3>4, <3>5 DEF BufType
  <2>2. CASE p # None /\ n = None
    <3>1. u = [b EXCEPT !.next[p] = None, !.tail = p]
      BY <2>2 DEF Unlinked
    <3>2. y = [u EXCEPT !.prev = [@ EXCEPT ![u.head] = e, ![e] = None],
                        !.next[e] = u.head, !.head = e]
      BY <1>t, <1>0, <3>1 DEF ToHead, BufType
    <3>3. N = [[b.next EXCEPT ![p] = None] EXCEPT ![e] = b.head]
      BY <1>0, <1>t, <2>2 DEF Link
    <3>4. P = [b.prev EXCEPT ![b.head] = e, ![e] = None]
      BY <1>0, <1>t, <2>2 DEF Link
    <3>5. t = p
      BY <1>0, <2>2
    <3> HIDE DEF u, y, N, P, t
    <3> QED
      BY <3>1, <3>2, <3>3, <3>4, <3>5 DEF BufType
  <2>3. CASE p = None /\ n # None
    <3>1. u = [b EXCEPT !.prev[n] = None, !.head = n]
      BY <2>3 DEF Unlinked
    <3>2. y = [u EXCEPT !.prev = [@ EXCEPT ![u.head] = e, ![e] = None],
                        !.next[e] = u.head, !.head = e]
      BY <2>3, <3>1 DEF ToHead, BufType
    <3>3. N = [b.next EXCEPT ![e] = n]
      BY <1>0, <1>t, <2>3 DEF Link
    <3>4. P = [[b.prev EXCEPT ![n] = None] EXCEPT ![n] = e, ![e] = None]
      BY <1>0, <1>t, <2>3 DEF Link
    <3>5. t = b.tail
      BY <1>0, <2>3
    <3> HIDE DEF u, y, N, P, t
    <3> QED
      BY <3>1, <3>2, <3>3, <3>4, <3>5 DEF BufType
  <2>4. CASE p = None /\ n = None
    <3>1. u = [b EXCEPT !.tail = None, !.head = None]
      BY <2>4 DEF Unlinked
    <3>2. y = [u EXCEPT !.prev[e] = None, !.next[e] = None, !.head = e, !.tail = e]
      BY <3>1 DEF ToHead, BufType
    <3>3. N = [b.next EXCEPT ![e] = None]
      BY <1>0, <1>t, <2>4 DEF Link
    <3>4. P = [b.prev EXCEPT ![e] = None]
      BY <1>0, <1>t, <2>4 DEF Link
    <3>5. t = e
      BY <1>0, <2>4
    <3> HIDE DEF u, y, N, P, t
    <3> QED
      BY <3>1, <3>2, <3>3, <3>4, <3>5 DEF BufType
  <2> QED
    BY <2>1, <2>2, <2>3, <2>4
<1> HIDE DEF N, P, t, y
<1>f. /\ y \in BufType /\ y.next = N /\ y.prev = P /\ y.head = e /\ y.tail = t
      /\ y.lsa = b.lsa /\ y.hashPrev = b.hashPrev /\ y.hashNext = b.hashNext
      /\ y.hashHead = b.hashHead /\ y.hashTail = b.hashTail
  BY <1>n, <1>y DEF BufType
<1> QED
  BY <1>f DEF AfterMove, N, P, t, y

\* The moved entry comes before all others.
LEMMA MoveOK ==
    ASSUME NEW x \in BufType, NEW y, NEW pos \in [Entries -> Nat], NEW e \in Entries,
           LruOK(x, pos), AfterMove(x, y, e)
    PROVE  \E q \in [Entries -> Nat] : LruOK(y, q)
<1>0. /\ \A v \in Entries : x.next[v] \in Link /\ x.prev[v] \in Link
      /\ \A v \in Entries : y.next[v] \in Link /\ y.prev[v] \in Link
      /\ x.head \in Entries /\ x.tail \in Entries /\ y.head \in Entries /\ y.tail \in Entries
      /\ None \notin Entries
  BY NoneIsNoEntry DEF AfterMove, BufType
<1>1. CASE e = x.head
  <2>1. LruOK(y, pos)
    BY <1>0, <1>1 DEF LruOK, AfterMove, Link
  <2> QED
    BY <2>1
<1>2. CASE e # x.head
  <2> DEFINE q == [v \in Entries |-> IF v = e THEN 0 ELSE pos[v] + 1]
             p == x.prev[e]
             n == x.next[e]
  <2>1. q \in [Entries -> Nat]
    OBVIOUS
  <2>2. /\ p \in Entries /\ x.next[p] = e /\ p # e
        /\ n # None => n \in Entries /\ x.prev[n] = e /\ n # e /\ pos[p] < pos[n]
        /\ pos[p] < pos[e]
    BY <1>0, <1>2 DEF LruOK, Link
  <2>3. /\ y.head = e /\ y.tail = (IF e = x.tail THEN p ELSE x.tail)
        /\ \A v \in Entries :
             /\ y.next[v] = IF v = e THEN x.head ELSE IF v = p THEN n ELSE x.next[v]
             /\ y.prev[v] = IF v = e THEN None ELSE IF v = x.head THEN e
                            ELSE IF v = n THEN p ELSE x.prev[v]
    BY <1>2 DEF AfterMove
  <2>4. /\ x.prev[x.head] = None /\ x.next[x.tail] = None
        /\ \A v \in Entries :
             /\ x.next[v] # None => /\ x.prev[x.next[v]] = v /\ pos[v] < pos[x.next[v]]
                                    /\ x.next[v] \in Entries
             /\ x.prev[v] # None => x.next[x.prev[v]] = v /\ x.prev[v] \in Entries
             /\ x.prev[v] = None => x.head = v
             /\ x.next[v] = None => x.tail = v
    BY <1>0 DEF LruOK, Link
  <2>5. \A v \in Entries : q[v] = IF v = e THEN 0 ELSE pos[v] + 1
    OBVIOUS
  <2> HIDE DEF q, p, n
  <2>6. y.prev[y.head] = None /\ y.next[y.tail] = None
    BY <1>0, <1>2, <2>2, <2>3, <2>4
  <2>7. ASSUME NEW v \in Entries
        PROVE  /\ y.next[v] # None => y.prev[y.next[v]] = v /\ q[v] < q[y.next[v]]
               /\ y.prev[v] # None => y.next[y.prev[v]] = v
               /\ y.prev[v] = None => y.head = v
               /\ y.next[v] = None => y.tail = v
    <3>0. \A w \in Entries : pos[w] \in Nat
      OBVIOUS
    <3>1. y.next[v] # None => y.prev[y.next[v]] = v /\ q[v] < q[y.next[v]]
      BY <3>0, <1>0, <1>2, <2>2, <2>3, <2>4, <2>5 DEF n, p
    <3>2. y.prev[v] # None => y.next[y.prev[v]] = v
      BY <1>0, <1>2, <2>2, <2>3, <2>4 DEF n, p
    <3>3. y.prev[v] = None => y.head = v
      BY <1>0, <1>2, <2>2, <2>3, <2>4 DEF n, p
    <3>4. y.next[v] = None => y.tail = v
      BY <1>0, <1>2, <2>2, <2>3, <2>4 DEF n, p
    <3> QED
      BY <3>1, <3>2, <3>3, <3>4
  <2>8. LruOK(y, q)
    BY <2>6, <2>7 DEF LruOK
  <2> QED
    BY <2>1, <2>8
<1> QED
  BY <1>1, <1>2

\* What SelectiveGetFromDataBufHashList changes: y is x without e on its hash list.
\* The links of e itself stay.
AfterGet(x, y, e) ==
    /\ y \in BufType /\ y.lsa = x.lsa /\ y.next = x.next /\ y.prev = x.prev
    /\ y.head = x.head /\ y.tail = x.tail
    /\ \A v \in Entries :
         /\ y.hashNext[v] = IF v = x.hashPrev[e] THEN x.hashNext[e] ELSE x.hashNext[v]
         /\ y.hashPrev[v] = IF v = x.hashNext[e] THEN x.hashPrev[e] ELSE x.hashPrev[v]
         /\ y.hashHead[v] = IF v = Hash(x, e) /\ x.hashPrev[e] = None THEN x.hashNext[e]
                            ELSE x.hashHead[v]
         /\ y.hashTail[v] = IF v = Hash(x, e) /\ x.hashNext[e] = None THEN x.hashPrev[e]
                            ELSE x.hashTail[v]

LEMMA GetFields ==
    ASSUME NEW x \in BufType, NEW e \in Entries, x.lsa[e] # None
    PROVE  AfterGet(x, SelectiveGetFromDataBufHashList(x, e), e)
<1> DEFINE p == x.hashPrev[e]
           n == x.hashNext[e]
           h == Hash(x, e)
           y == SelectiveGetFromDataBufHashList(x, e)
           N == [v \in Entries |-> IF v = p THEN n ELSE x.hashNext[v]]
           P == [v \in Entries |-> IF v = n THEN p ELSE x.hashPrev[v]]
           H == [v \in Entries |-> IF v = h /\ p = None THEN n ELSE x.hashHead[v]]
           T == [v \in Entries |-> IF v = h /\ n = None THEN p ELSE x.hashTail[v]]
<1>0. /\ p \in Link /\ n \in Link /\ None \notin Entries /\ x.lsa[e] \in Lsas
      /\ x.hashNext \in [Entries -> Link] /\ x.hashPrev \in [Entries -> Link]
      /\ x.hashHead \in [Entries -> Link] /\ x.hashTail \in [Entries -> Link]
  BY NoneIsNoEntry DEF BufType, Slices
<1>1. h \in Entries
  BY <1>0, HashIsEntry DEF Hash
<1>2. /\ N \in [Entries -> Link] /\ P \in [Entries -> Link]
      /\ H \in [Entries -> Link] /\ T \in [Entries -> Link]
  BY <1>0
<1>3. y = [x EXCEPT !.hashNext = N, !.hashPrev = P, !.hashHead = H, !.hashTail = T]
  <2>1. CASE p # None /\ n # None
    <3>1. y = [x EXCEPT !.hashNext[p] = n, !.hashPrev[n] = p]
      BY <2>1 DEF SelectiveGetFromDataBufHashList
    <3>2. N = [x.hashNext EXCEPT ![p] = n] /\ P = [x.hashPrev EXCEPT ![n] = p]
      BY <1>0, <2>1 DEF Link
    <3>3. H = x.hashHead /\ T = x.hashTail
      BY <1>0, <2>1
    <3> HIDE DEF y, N, P, H, T
    <3> QED
      BY <3>1, <3>2, <3>3 DEF BufType
  <2>2. CASE p # None /\ n = None
    <3>1. y = [x EXCEPT !.hashNext[p] = None, !.hashTail[h] = p]
      BY <2>2 DEF SelectiveGetFromDataBufHashList, Hash
    <3>2. N = [x.hashNext EXCEPT ![p] = None] /\ P = x.hashPrev
      BY <1>0, <2>2 DEF Link
    <3>3. H = x.hashHead /\ T = [x.hashTail EXCEPT ![h] = p]
      BY <1>0, <1>1, <2>2
    <3> HIDE DEF y, N, P, H, T, h
    <3> QED
      BY <3>1, <3>2, <3>3 DEF BufType
  <2>3. CASE p = None /\ n # None
    <3>1. y = [x EXCEPT !.hashPrev[n] = None, !.hashHead[h] = n]
      BY <2>3 DEF SelectiveGetFromDataBufHashList, Hash
    <3>2. N = x.hashNext /\ P = [x.hashPrev EXCEPT ![n] = None]
      BY <1>0, <2>3 DEF Link
    <3>3. H = [x.hashHead EXCEPT ![h] = n] /\ T = x.hashTail
      BY <1>0, <1>1, <2>3
    <3> HIDE DEF y, N, P, H, T, h
    <3> QED
      BY <3>1, <3>2, <3>3 DEF BufType
  <2>4. CASE p = None /\ n = None
    <3>1. y = [x EXCEPT !.hashHead[h] = None, !.hashTail[h] = None]
      BY <2>4 DEF SelectiveGetFromDataBufHashList, Hash
    <3>2. N = x.hashNext /\ P = x.hashPrev
      BY <1>0, <2>4
    <3>3. H = [x.hashHead EXCEPT ![h] = None] /\ T = [x.hashTail EXCEPT ![h] = None]
      BY <1>0, <1>1, <2>4
    <3> HIDE DEF y, N, P, H, T, h
    <3> QED
      BY <3>1, <3>2, <3>3 DEF BufType
  <2> QED
    BY <2>1, <2>2, <2>3, <2>4
<1> HIDE DEF y, N, P, H, T
<1>4. /\ y \in BufType /\ y.lsa = x.lsa /\ y.next = x.next /\ y.prev = x.prev
      /\ y.head = x.head /\ y.tail = x.tail
      /\ y.hashNext = N /\ y.hashPrev = P /\ y.hashHead = H /\ y.hashTail = T
  BY <1>2, <1>3 DEF BufType
<1> QED
  BY <1>4 DEF AfterGet, y, N, P, H, T

LEMMA GetOK ==
    ASSUME NEW x \in BufType, NEW y, NEW M, M \subseteq Entries, NEW pos \in [Entries -> Nat],
           NEW e \in M, HashOK(x, M, pos), AfterGet(x, y, e)
    PROVE  HashOK(y, M \ {e}, pos)
<1> DEFINE p == x.hashPrev[e]
           n == x.hashNext[e]
<1>0. /\ \A v \in Entries : /\ x.hashNext[v] \in Link /\ x.hashPrev[v] \in Link
                            /\ x.hashHead[v] \in Link /\ x.hashTail[v] \in Link
                            /\ pos[v] \in Nat
      /\ None \notin M /\ e \in Entries
  BY NoneIsNoEntry DEF BufType
<1>1. \A v \in Entries : Hash(y, v) = Hash(x, v)
  BY DEF AfterGet, Hash
<1>h. \A v \in M : Hash(x, v) \in Entries
  <2> SUFFICES ASSUME NEW v \in M PROVE Hash(x, v) \in Entries
    OBVIOUS
  <2>1. x.lsa[v] \in Lsas
    BY DEF HashOK, BufType, Slices
  <2> QED
    BY <2>1, HashIsEntry DEF Hash
<1>2. /\ p # None => p \in M /\ Hash(x, p) = Hash(x, e) /\ x.hashNext[p] = e /\ pos[p] < pos[e]
      /\ n # None => n \in M /\ Hash(x, n) = Hash(x, e) /\ x.hashPrev[n] = e /\ pos[e] < pos[n]
      /\ p = None => x.hashHead[Hash(x, e)] = e
      /\ n = None => x.hashTail[Hash(x, e)] = e
  <2>1. /\ p # None => p \in M /\ Hash(x, p) = Hash(x, e) /\ x.hashNext[p] = e
        /\ n # None => n \in M /\ Hash(x, n) = Hash(x, e) /\ x.hashPrev[n] = e /\ pos[e] < pos[n]
        /\ p = None => x.hashHead[Hash(x, e)] = e
        /\ n = None => x.hashTail[Hash(x, e)] = e
    BY DEF HashOK
  <2>2. p # None => pos[p] < pos[e]
    <3> HIDE DEF p
    <3> QED
      BY <2>1, <1>0 DEF HashOK
  <2> QED
    BY <2>1, <2>2
<1>3. /\ y.lsa = x.lsa
      /\ \A v \in Entries :
         /\ y.hashNext[v] = IF v = p THEN n ELSE x.hashNext[v]
         /\ y.hashPrev[v] = IF v = n THEN p ELSE x.hashPrev[v]
         /\ y.hashHead[v] = IF v = Hash(x, e) /\ p = None THEN n ELSE x.hashHead[v]
         /\ y.hashTail[v] = IF v = Hash(x, e) /\ n = None THEN p ELSE x.hashTail[v]
  BY DEF AfterGet
<1>p. (p # None => p # e) /\ (n # None => n # e) /\ (p # None /\ n # None => pos[p] < pos[n])
  BY <1>0, <1>2
<1> HIDE DEF p, n
<1>4. ASSUME NEW v \in M \ {e}
      PROVE  /\ y.lsa[v] # None
             /\ y.hashNext[v] # None => /\ y.hashNext[v] \in M \ {e}
                                        /\ Hash(y, y.hashNext[v]) = Hash(y, v)
                                        /\ y.hashPrev[y.hashNext[v]] = v
                                        /\ pos[v] < pos[y.hashNext[v]]
             /\ y.hashPrev[v] # None => /\ y.hashPrev[v] \in M \ {e}
                                        /\ Hash(y, y.hashPrev[v]) = Hash(y, v)
                                        /\ y.hashNext[y.hashPrev[v]] = v
             /\ y.hashPrev[v] = None => y.hashHead[Hash(y, v)] = v
             /\ y.hashNext[v] = None => y.hashTail[Hash(y, v)] = v
  <2>0. v \in Entries /\ v \in M /\ v # e /\ Hash(y, v) = Hash(x, v) /\ Hash(x, v) \in Entries
    BY <1>1, <1>h
  <2>1. /\ x.lsa[v] # None
        /\ x.hashNext[v] # None => /\ x.hashNext[v] \in M /\ Hash(x, x.hashNext[v]) = Hash(x, v)
                                   /\ x.hashPrev[x.hashNext[v]] = v
                                   /\ pos[v] < pos[x.hashNext[v]]
        /\ x.hashPrev[v] # None => /\ x.hashPrev[v] \in M /\ Hash(x, x.hashPrev[v]) = Hash(x, v)
                                   /\ x.hashNext[x.hashPrev[v]] = v
        /\ x.hashPrev[v] = None => x.hashHead[Hash(x, v)] = v
        /\ x.hashNext[v] = None => x.hashTail[Hash(x, v)] = v
    BY <2>0 DEF HashOK
  <2>2. /\ v # n => x.hashPrev[v] # e
        /\ v # p => x.hashNext[v] # e
    BY <2>0, <2>1, <1>0 DEF p, n
  <2>3. CASE v = p
    BY <2>0, <2>1, <2>2, <2>3, <1>0, <1>1, <1>2, <1>3, <1>p
  <2>4. CASE v = n
    BY <2>0, <2>1, <2>2, <2>4, <1>0, <1>1, <1>2, <1>3, <1>p
  <2>5. CASE v # p /\ v # n
    BY <2>0, <2>1, <2>2, <2>5, <1>0, <1>1, <1>2, <1>3, <1>p
  <2> QED
    BY <2>3, <2>4, <2>5
<1>5. ASSUME NEW h \in Entries
      PROVE  /\ y.hashHead[h] # None => /\ y.hashHead[h] \in M \ {e}
                                        /\ Hash(y, y.hashHead[h]) = h
                                        /\ y.hashPrev[y.hashHead[h]] = None
             /\ y.hashTail[h] # None => /\ y.hashTail[h] \in M \ {e}
                                        /\ Hash(y, y.hashTail[h]) = h
                                        /\ y.hashNext[y.hashTail[h]] = None
             /\ y.hashHead[h] = None <=> y.hashTail[h] = None
  <2>1. /\ x.hashHead[h] # None => /\ x.hashHead[h] \in M /\ Hash(x, x.hashHead[h]) = h
                                   /\ x.hashPrev[x.hashHead[h]] = None
        /\ x.hashTail[h] # None => /\ x.hashTail[h] \in M /\ Hash(x, x.hashTail[h]) = h
                                   /\ x.hashNext[x.hashTail[h]] = None
        /\ x.hashHead[h] = None <=> x.hashTail[h] = None
    BY DEF HashOK
  <2>2. /\ x.hashHead[h] = e => p = None /\ Hash(x, e) = h
        /\ x.hashTail[h] = e => n = None /\ Hash(x, e) = h
    BY <2>1, <1>0 DEF p, n
  <2>3. CASE h = Hash(x, e)
    BY <2>1, <2>2, <2>3, <1>0, <1>1, <1>2, <1>3, <1>p
  <2>4. CASE h # Hash(x, e)
    BY <2>1, <2>2, <2>4, <1>0, <1>1, <1>2, <1>3, <1>p
  <2> QED
    BY <2>3, <2>4
<1> QED
  BY <1>4, <1>5 DEF HashOK

\* What PutToDataBufHashList changes: y is x with e at the end of the hash list of
\* its slice.
AfterPut(x, y, e) ==
    /\ y \in BufType /\ y.lsa = x.lsa /\ y.next = x.next /\ y.prev = x.prev
    /\ y.head = x.head /\ y.tail = x.tail
    /\ \A v \in Entries :
         /\ y.hashNext[v] = IF v = e THEN None
                            ELSE IF v = x.hashTail[Hash(x, e)] THEN e ELSE x.hashNext[v]
         /\ y.hashPrev[v] = IF v = e THEN x.hashTail[Hash(x, e)] ELSE x.hashPrev[v]
         /\ y.hashHead[v] = IF v = Hash(x, e) /\ x.hashTail[v] = None THEN e ELSE x.hashHead[v]
         /\ y.hashTail[v] = IF v = Hash(x, e) THEN e ELSE x.hashTail[v]

LEMMA PutFields ==
    ASSUME NEW x \in BufType, NEW e \in Entries, x.lsa[e] # None,
           x.hashTail[Hash(x, e)] # e
    PROVE  AfterPut(x, PutToDataBufHashList(x, e), e)
<1> DEFINE h == Hash(x, e)
           t == x.hashTail[h]
           y == PutToDataBufHashList(x, e)
           N == [v \in Entries |-> IF v = e THEN None
                                   ELSE IF v = t THEN e ELSE x.hashNext[v]]
           P == [v \in Entries |-> IF v = e THEN t ELSE x.hashPrev[v]]
           H == [v \in Entries |-> IF v = h /\ x.hashTail[v] = None THEN e ELSE x.hashHead[v]]
           T == [v \in Entries |-> IF v = h THEN e ELSE x.hashTail[v]]
<1>0. /\ None \notin Entries /\ x.lsa[e] \in Lsas
      /\ x.hashNext \in [Entries -> Link] /\ x.hashPrev \in [Entries -> Link]
      /\ x.hashHead \in [Entries -> Link] /\ x.hashTail \in [Entries -> Link]
      /\ None \in Link /\ e \in Link
  BY NoneIsNoEntry DEF BufType, Slices, Link
<1>1. h \in Entries
  BY <1>0, HashIsEntry DEF Hash
<1>2. /\ N \in [Entries -> Link] /\ P \in [Entries -> Link]
      /\ H \in [Entries -> Link] /\ T \in [Entries -> Link] /\ t \in Link
  BY <1>0, <1>1
<1>3. y = [x EXCEPT !.hashNext = N, !.hashPrev = P, !.hashHead = H, !.hashTail = T]
  <2>1. CASE t # None
    <3>1. y = [x EXCEPT !.hashPrev[e] = t, !.hashNext = [@ EXCEPT ![e] = None, ![t] = e],
                        !.hashTail[h] = e]
      BY <2>1 DEF PutToDataBufHashList, Hash
    <3>2. N = [x.hashNext EXCEPT ![e] = None, ![t] = e] /\ P = [x.hashPrev EXCEPT ![e] = t]
      BY <1>0, <1>2, <2>1 DEF Link
    <3>3. H = x.hashHead /\ T = [x.hashTail EXCEPT ![h] = e]
      BY <1>0, <1>1, <2>1
    <3> HIDE DEF y, N, P, H, T, h, t
    <3> QED
      BY <3>1, <3>2, <3>3 DEF BufType
  <2>2. CASE t = None
    <3>1. y = [x EXCEPT !.hashPrev[e] = None, !.hashNext[e] = None,
                        !.hashHead[h] = e, !.hashTail[h] = e]
      BY <2>2 DEF PutToDataBufHashList, Hash
    <3>2. N = [x.hashNext EXCEPT ![e] = None] /\ P = [x.hashPrev EXCEPT ![e] = None]
      BY <1>0, <1>2, <2>2
    <3>3. H = [x.hashHead EXCEPT ![h] = e] /\ T = [x.hashTail EXCEPT ![h] = e]
      BY <1>0, <1>1, <2>2
    <3> HIDE DEF y, N, P, H, T, h, t
    <3> QED
      BY <3>1, <3>2, <3>3 DEF BufType
  <2> QED
    BY <2>1, <2>2
<1> HIDE DEF y, N, P, H, T
<1>4. /\ y \in BufType /\ y.lsa = x.lsa /\ y.next = x.next /\ y.prev = x.prev
      /\ y.head = x.head /\ y.tail = x.tail
      /\ y.hashNext = N /\ y.hashPrev = P /\ y.hashHead = H /\ y.hashTail = T
  BY <1>2, <1>3 DEF BufType
<1> QED
  BY <1>4 DEF AfterPut, y, N, P, H, T

LEMMA PutOK ==
    ASSUME NEW x \in BufType, NEW y, NEW M, M \subseteq Entries, NEW pos \in [Entries -> Nat],
           NEW e \in Entries \ M, x.lsa[e] # None, HashOK(x, M, pos), AfterPut(x, y, e)
    PROVE  \E q \in [Entries -> Nat] : HashOK(y, M \cup {e}, q)
<1> DEFINE h == Hash(x, e)
           t == x.hashTail[h]
           q == [v \in Entries |-> IF v = e THEN (IF t = None THEN 0 ELSE pos[t] + 1) ELSE pos[v]]
<1>0. /\ \A v \in Entries : /\ x.hashNext[v] \in Link /\ x.hashPrev[v] \in Link
                            /\ x.hashHead[v] \in Link /\ x.hashTail[v] \in Link
                            /\ pos[v] \in Nat
      /\ None \notin Entries /\ None \notin M /\ e \in Entries /\ e \notin M
  BY NoneIsNoEntry DEF BufType
<1>h. \A v \in M \cup {e} : Hash(x, v) \in Entries
  <2> SUFFICES ASSUME NEW v \in M \cup {e} PROVE Hash(x, v) \in Entries
    OBVIOUS
  <2>1. x.lsa[v] \in Lsas
    BY DEF HashOK, BufType, Slices
  <2> QED
    BY <2>1, HashIsEntry DEF Hash
<1>1. \A v \in Entries : Hash(y, v) = Hash(x, v)
  BY DEF AfterPut, Hash
<1>2. /\ h \in Entries /\ t # e
      /\ t # None => t \in M /\ Hash(x, t) = h /\ x.hashNext[t] = None
      /\ t = None <=> x.hashHead[h] = None
  BY <1>h, <1>0 DEF HashOK
<1>3. q \in [Entries -> Nat]
  BY <1>2
<1>4. /\ y.lsa = x.lsa
      /\ \A v \in Entries :
         /\ y.hashNext[v] = IF v = e THEN None ELSE IF v = t THEN e ELSE x.hashNext[v]
         /\ y.hashPrev[v] = IF v = e THEN t ELSE x.hashPrev[v]
         /\ y.hashHead[v] = IF v = h /\ t = None THEN e ELSE x.hashHead[v]
         /\ y.hashTail[v] = IF v = h THEN e ELSE x.hashTail[v]
  BY DEF AfterPut
<1>5. /\ \A v \in M : q[v] = pos[v]
      /\ t # None => q[t] < q[e]
  BY <1>0, <1>2
<1> HIDE DEF h, t, q
<1>6. ASSUME NEW v \in M
      PROVE  /\ y.lsa[v] # None
             /\ y.hashNext[v] # None => /\ y.hashNext[v] \in M \cup {e}
                                        /\ Hash(y, y.hashNext[v]) = Hash(y, v)
                                        /\ y.hashPrev[y.hashNext[v]] = v
                                        /\ q[v] < q[y.hashNext[v]]
             /\ y.hashPrev[v] # None => /\ y.hashPrev[v] \in M \cup {e}
                                        /\ Hash(y, y.hashPrev[v]) = Hash(y, v)
                                        /\ y.hashNext[y.hashPrev[v]] = v
             /\ y.hashPrev[v] = None => y.hashHead[Hash(y, v)] = v
             /\ y.hashNext[v] = None => y.hashTail[Hash(y, v)] = v
  <2>0. v \in Entries /\ v # e /\ Hash(y, v) = Hash(x, v) /\ Hash(x, v) \in Entries
    BY <1>0, <1>1, <1>h
  <2>1. /\ x.lsa[v] # None
        /\ x.hashNext[v] # None => /\ x.hashNext[v] \in M /\ Hash(x, x.hashNext[v]) = Hash(x, v)
                                   /\ x.hashPrev[x.hashNext[v]] = v
                                   /\ pos[v] < pos[x.hashNext[v]]
        /\ x.hashPrev[v] # None => /\ x.hashPrev[v] \in M /\ Hash(x, x.hashPrev[v]) = Hash(x, v)
                                   /\ x.hashNext[x.hashPrev[v]] = v
        /\ x.hashPrev[v] = None => x.hashHead[Hash(x, v)] = v
        /\ x.hashNext[v] = None => x.hashTail[Hash(x, v)] = v
    BY DEF HashOK
  <2>2. v # t => (x.hashNext[v] = None => Hash(x, v) # h)
    BY <2>0, <2>1 DEF t
  <2>3. CASE v = t
    BY <2>0, <2>1, <2>3, <1>0, <1>1, <1>2, <1>4, <1>5 DEF h
  <2>4. CASE v # t
    BY <2>0, <2>1, <2>2, <2>4, <1>0, <1>1, <1>2, <1>4, <1>5
  <2> QED
    BY <2>3, <2>4
<1>7. /\ y.lsa[e] # None /\ y.hashNext[e] = None /\ y.hashTail[Hash(y, e)] = e
      /\ y.hashPrev[e] # None => /\ y.hashPrev[e] \in M \cup {e}
                                 /\ Hash(y, y.hashPrev[e]) = Hash(y, e)
                                 /\ y.hashNext[y.hashPrev[e]] = e
      /\ y.hashPrev[e] = None => y.hashHead[Hash(y, e)] = e
  BY <1>0, <1>1, <1>2, <1>4 DEF h
<1>8. ASSUME NEW k \in Entries
      PROVE  /\ y.hashHead[k] # None => /\ y.hashHead[k] \in M \cup {e}
                                        /\ Hash(y, y.hashHead[k]) = k
                                        /\ y.hashPrev[y.hashHead[k]] = None
             /\ y.hashTail[k] # None => /\ y.hashTail[k] \in M \cup {e}
                                        /\ Hash(y, y.hashTail[k]) = k
                                        /\ y.hashNext[y.hashTail[k]] = None
             /\ y.hashHead[k] = None <=> y.hashTail[k] = None
  <2>1. /\ x.hashHead[k] # None => /\ x.hashHead[k] \in M /\ Hash(x, x.hashHead[k]) = k
                                   /\ x.hashPrev[x.hashHead[k]] = None
        /\ x.hashTail[k] # None => /\ x.hashTail[k] \in M /\ Hash(x, x.hashTail[k]) = k
                                   /\ x.hashNext[x.hashTail[k]] = None
        /\ x.hashHead[k] = None <=> x.hashTail[k] = None
    BY DEF HashOK
  <2>2. CASE k = h
    BY <2>1, <2>2, <1>0, <1>1, <1>2, <1>4, <1>7 DEF h
  <2>3. CASE k # h
    <3>1. x.hashTail[k] # t \/ t = None
      BY <2>1, <2>3, <1>2
    <3> QED
      BY <2>1, <2>3, <3>1, <1>0, <1>1, <1>2, <1>4
  <2> QED
    BY <2>2, <2>3
<1>9. HashOK(y, M \cup {e}, q)
  BY <1>6, <1>7, <1>8 DEF HashOK
<1> QED
  BY <1>3, <1>9

(***************************************************************************)
(* The lists as sequences                                                  *)
(***************************************************************************)

LEMMA LruChain ==
    ASSUME b \in BufType, NEW pos \in [Entries -> Nat], LruOK(b, pos)
    PROVE  /\ Enumerates(List(b.next, b.head), Entries, b.next, b.head, None)
           /\ Len(List(b.next, b.head)) <= EntryCount
<1>1. /\ \A v \in Entries : b.next[v] \in Link /\ b.prev[v] \in Link /\ pos[v] \in Nat
      /\ b.head \in Entries /\ None \notin Entries
  BY NoneIsNoEntry DEF BufType
<1>2. LinkedIn(Entries, b.next, b.prev, b.head, pos, None)
  BY <1>1 DEF LinkedIn, LruOK, Link
<1>3. IsFiniteSet(Entries) /\ Cardinality(Entries) <= EntryCount /\ EntryCount \in Nat
  BY EntriesFinite, ConstantsAssumption
<1> DEFINE c == Chain(b.next, b.head, EntryCount, None)
<1>4. Enumerates(c, Entries, b.next, b.head, None) /\ Len(c) <= EntryCount
  BY <1>2, <1>3, ChainEnumerates
<1> QED
  BY <1>4 DEF List

LEMMA HashChain ==
    ASSUME b \in BufType, NEW M, M \subseteq Entries, NEW pos \in [Entries -> Nat],
           HashOK(b, M, pos), NEW h \in Entries
    PROVE  Enumerates(List(b.hashNext, b.hashHead[h]), {e \in M : Hash(b, e) = h},
                      b.hashNext, b.hashHead[h], None)
<1> DEFINE S == {e \in M : Hash(b, e) = h}
           head == b.hashHead[h]
<1>1. /\ \A v \in Entries : b.hashNext[v] \in Link /\ b.hashPrev[v] \in Link /\ pos[v] \in Nat
      /\ head \in Link /\ None \notin M
  BY NoneIsNoEntry DEF BufType
<1>2. /\ None \notin S
      /\ head # None => head \in S
      /\ \A x \in S :
         /\ pos[x] \in Nat
         /\ b.hashNext[x] # None => /\ b.hashNext[x] \in S /\ b.hashPrev[b.hashNext[x]] = x
                                    /\ pos[x] < pos[b.hashNext[x]]
         /\ b.hashPrev[x] # None => b.hashPrev[x] \in S /\ b.hashNext[b.hashPrev[x]] = x
         /\ b.hashPrev[x] = None => head = x
  BY <1>1 DEF HashOK
<1>3. IsFiniteSet(S) /\ Cardinality(S) <= EntryCount /\ EntryCount \in Nat
  <2>1. S \subseteq Entries
    OBVIOUS
  <2> HIDE DEF S
  <2>2. IsFiniteSet(S) /\ Cardinality(S) <= Cardinality(Entries)
    BY <2>1, EntriesFinite, FS_Subset
  <2> QED
    BY <2>2, EntriesFinite, ConstantsAssumption
<1> HIDE DEF S, head
<1>4. LinkedIn(S, b.hashNext, b.hashPrev, head, pos, None)
  BY <1>2 DEF LinkedIn
<1> DEFINE c == Chain(b.hashNext, head, EntryCount, None)
<1>5. Enumerates(c, S, b.hashNext, head, None)
  BY <1>3, <1>4, ChainEnumerates
<1> QED
  BY <1>5 DEF List, S, head

\* A lookup finds an entry that holds the slice, if there is one.
LEMMA FindOK ==
    ASSUME b \in BufType, NEW M, M \subseteq Entries, NEW pos \in [Entries -> Nat],
           HashOK(b, M, pos), NEW l \in Lsas
    PROVE  /\ Find(l) # None => Find(l) \in M /\ b.lsa[Find(l)] = l
           /\ Find(l) = None => \A e \in M : b.lsa[e] # l
<1> DEFINE h == FindDataBufHashTableEntry(l)
           c == List(b.hashNext, b.hashHead[h])
           S == {e \in M : Hash(b, e) = h}
           holding == {i \in DOMAIN c : b.lsa[c[i]] = l}
<1>1. h \in Entries /\ None \notin M
  BY HashIsEntry, NoneIsNoEntry
<1>2. Enumerates(c, S, b.hashNext, b.hashHead[h], None)
  BY <1>1, HashChain
<1>3. /\ c \in Seq(S) /\ Nodes(c) = S /\ \A i \in DOMAIN c : i \in Nat /\ c[i] \in S
  BY <1>2 DEF Enumerates
<1>4. Find(l) = IF holding = {} THEN None
                ELSE c[CHOOSE i \in holding : \A j \in holding : i <= j]
  BY DEF Find
<1>5. CASE holding = {}
  <2>1. \A e \in M : b.lsa[e] # l
    <3> SUFFICES ASSUME NEW e \in M, b.lsa[e] = l PROVE FALSE
      OBVIOUS
    <3>1. e \in S
      BY DEF Hash
    <3>2. PICK i \in DOMAIN c : c[i] = e
      BY <3>1, <1>3 DEF Nodes
    <3> QED
      BY <3>2, <1>5
  <2> QED
    BY <2>1, <1>4, <1>5
<1>6. CASE holding # {}
  <2> DEFINE i == CHOOSE i \in holding : \A j \in holding : i <= j
  <2>1. holding \subseteq Nat
    BY <1>3
  <2>2. \E k \in holding : \A j \in holding : k <= j
    <3> HIDE DEF holding
    <3> QED
      BY <1>6, <2>1, LeastNat
  <2>3. i \in holding
    BY <2>2
  <2>4. i \in DOMAIN c /\ b.lsa[c[i]] = l /\ Find(l) = c[i]
    BY <2>3, <1>4, <1>6
  <2>5. c[i] \in S
    BY <2>4, <1>3
  <2> QED
    BY <2>4, <2>5, <1>1
<1> QED
  BY <1>5, <1>6

\* The links back agree with the chain.
LEMMA TwoWayOK ==
    ASSUME NEW S, NEW next, NEW prev, NEW head, NEW tail,
           Enumerates(List(next, head), S, next, head, None),
           \A x \in S : /\ next[x] # None => prev[next[x]] = x
                        /\ next[x] = None => tail = x,
           head # None => prev[head] = None,
           head = None => tail = None
    PROVE  TwoWay(next, prev, head, tail)
<1> DEFINE c == List(next, head)
<1>1. /\ c \in Seq(S) /\ Follows(c, next, head, None) /\ Len(c) \in Nat
      /\ DOMAIN c = 1 .. Len(c) /\ \A i \in DOMAIN c : c[i] \in S
  BY DEF Enumerates
<1> HIDE DEF c
<1>2. c = << >> => head = None /\ tail = None
  BY <1>1 DEF Follows
<1>3. c # << >> => prev[c[1]] = None /\ c[Len(c)] = tail
  <2> SUFFICES ASSUME c # << >> PROVE prev[c[1]] = None /\ c[Len(c)] = tail
    OBVIOUS
  <2>1. 1 \in DOMAIN c /\ Len(c) \in DOMAIN c
    BY <1>1
  <2>2. head = c[1] /\ c[1] # None /\ next[c[Len(c)]] = None /\ c[Len(c)] \in S
    BY <1>1, <2>1 DEF Follows
  <2> QED
    BY <2>2
<1>4. ASSUME NEW i \in 2 .. Len(c) PROVE prev[c[i]] = c[i - 1]
  <2>1. i - 1 \in 1 .. Len(c) - 1 /\ i - 1 \in DOMAIN c /\ i \in DOMAIN c /\ (i - 1) + 1 = i
    BY <1>1
  <2>2. next[c[i - 1]] = c[i] /\ c[i] # None /\ c[i - 1] \in S
    BY <1>1, <2>1 DEF Follows
  <2> QED
    BY <2>2
<1> QED
  BY <1>2, <1>3, <1>4 DEF TwoWay, c

(***************************************************************************)
(* The steps                                                               *)
(***************************************************************************)

LEMMA InitOK == Init => IInv
<1> SUFFICES ASSUME Init PROVE IInv
  OBVIOUS
<1>0. /\ EntryCount \in Nat /\ EntryCount > 0 /\ None \notin Entries /\ None \in Link
      /\ Entries \subseteq Link /\ 0 \in Entries /\ EntryCount - 1 \in Entries
      /\ \A e \in Entries : /\ e \in Nat
                            /\ e # 0 => e - 1 \in Entries
                            /\ e # EntryCount - 1 => e + 1 \in Entries
  BY NoneIsNoEntry DEF Entries, Link
<1>1. /\ cur = None
      /\ b.lsa = [e \in Entries |-> None]
      /\ b.prev = [e \in Entries |-> IF e = 0 THEN None ELSE e - 1]
      /\ b.next = [e \in Entries |-> IF e = EntryCount - 1 THEN None ELSE e + 1]
      /\ b.head = 0 /\ b.tail = EntryCount - 1
      /\ b.hashPrev = [e \in Entries |-> None] /\ b.hashNext = [e \in Entries |-> None]
      /\ b.hashHead = [e \in Entries |-> None] /\ b.hashTail = [e \in Entries |-> None]
  BY DEF Init, InitDataBuf
<1>2. Typed
  <2>1. /\ [e \in Entries |-> None] \in [Entries -> Link]
        /\ [e \in Entries |-> None] \in [Entries -> Slices]
    BY <1>0 DEF Slices
  <2>2. /\ b.prev \in [Entries -> Link] /\ b.next \in [Entries -> Link]
    BY <1>0, <1>1
  <2>3. b = InitDataBuf
    BY DEF Init
  <2> QED
    BY <1>0, <1>1, <2>1, <2>2, <2>3 DEF Typed, BufType, InitDataBuf, Slices
<1> DEFINE pos == [e \in Entries |-> e]
<1>3. pos \in [Entries -> Nat]
  BY <1>0
<1>4. LruOK(b, pos)
  <2>1. ASSUME NEW e \in Entries
        PROVE  /\ e = 0 => b.prev[e] = None
               /\ e # 0 => b.prev[e] = e - 1
               /\ e = EntryCount - 1 => b.next[e] = None
               /\ e # EntryCount - 1 => b.next[e] = e + 1
               /\ pos[e] = e
    <3>1. b.prev[e] = IF e = 0 THEN None ELSE e - 1
      BY <1>1
    <3>2. b.next[e] = IF e = EntryCount - 1 THEN None ELSE e + 1
      BY <1>1
    <3> QED
      BY <3>1, <3>2, Zenon
  <2> HIDE DEF pos
  <2>2. b.prev[b.head] = None /\ b.next[b.tail] = None
    BY <1>0, <1>1, <2>1
  <2>3. ASSUME NEW e \in Entries, b.next[e] # None
        PROVE  b.prev[b.next[e]] = e /\ pos[e] < pos[b.next[e]]
    <3>1. PICK n \in Entries : n = e + 1
      BY <1>0, <2>1, <2>3
    <3>2. b.next[e] = n /\ n # 0 /\ n - 1 = e /\ e < n
      BY <1>0, <2>1, <2>3, <3>1
    <3>3. b.prev[n] = e /\ pos[n] = n /\ pos[e] = e
      BY <2>1, <3>2
    <3> QED
      BY <3>2, <3>3
  <2>4. ASSUME NEW e \in Entries, b.prev[e] # None
        PROVE  b.next[b.prev[e]] = e
    <3>1. PICK n \in Entries : n = e - 1
      BY <1>0, <2>1, <2>4
    <3>2. b.prev[e] = n /\ n # EntryCount - 1 /\ n + 1 = e
      BY <1>0, <2>1, <2>4, <3>1 DEF Entries
    <3>3. b.next[n] = e
      BY <2>1, <3>2
    <3> QED
      BY <3>2, <3>3
  <2>5. \A e \in Entries : (b.prev[e] = None => b.head = e) /\ (b.next[e] = None => b.tail = e)
    <3>1. \A e \in Entries : (e # 0 => e - 1 # None) /\ (e # EntryCount - 1 => e + 1 # None)
      BY <1>0
    <3> QED
      BY <1>1, <2>1, <3>1
  <2> QED
    BY <2>2, <2>3, <2>4, <2>5 DEF LruOK
<1>5. Members = {}
  BY <1>1 DEF Members
<1>6. HashOK(b, Members, pos)
  BY <1>1, <1>5 DEF HashOK
<1> QED
  BY <1>2, <1>3, <1>4, <1>6 DEF IInv

\* HashOK does not look at the LRU list.
LEMMA HashKept ==
    ASSUME NEW x, NEW y, NEW M, NEW pos, HashOK(x, M, pos),
           y.lsa = x.lsa, y.hashPrev = x.hashPrev, y.hashNext = x.hashNext,
           y.hashHead = x.hashHead, y.hashTail = x.hashTail
    PROVE  HashOK(y, M, pos)
  BY DEF HashOK, Hash

LEMMA LruKept ==
    ASSUME NEW x, NEW y, NEW pos, LruOK(x, pos), y.next = x.next, y.prev = x.prev,
           y.head = x.head, y.tail = x.tail
    PROVE  LruOK(y, pos)
  BY DEF LruOK

LEMMA HitStep ==
    ASSUME IInv, NEW l \in Lsas, CheckDataBufHit(l)
    PROVE  /\ Find(l) \in Members /\ b.lsa[Find(l)] = l
           /\ AfterMove(b, b', Find(l)) /\ cur = None /\ cur' = None
<1>1. PICK pos \in [Entries -> Nat] : LruOK(b, pos)
  BY DEF IInv
<1>2. PICK q \in [Entries -> Nat] : HashOK(b, Members, q)
  BY DEF IInv
<1>3. b \in BufType /\ Members \subseteq Entries /\ Find(l) # None /\ cur = None /\ cur' = cur
  BY DEF IInv, Typed, Members, CheckDataBufHit
<1>4. Find(l) \in Members /\ b.lsa[Find(l)] = l
  BY <1>2, <1>3, FindOK
<1>5. b' = ToHead(Unlinked(Find(l)), Find(l)) /\ Find(l) \in Entries
  BY <1>3, <1>4 DEF CheckDataBufHit
<1>6. AfterMove(b, ToHead(Unlinked(Find(l)), Find(l)), Find(l))
  BY <1>1, <1>3, <1>5, MoveFields
<1> QED
  BY <1>3, <1>4, <1>5, <1>6

LEMMA HitOK ==
    ASSUME IInv, NEW l \in Lsas, CheckDataBufHit(l)
    PROVE  IInv'
<1>1. PICK e \in Entries : AfterMove(b, b', e) /\ cur = None /\ cur' = None
  BY HitStep DEF Members
<1>2. PICK pos \in [Entries -> Nat] : LruOK(b, pos)
  BY DEF IInv
<1>3. PICK q \in [Entries -> Nat] : HashOK(b, Members, q)
  BY DEF IInv
<1>4. b \in BufType /\ b' \in BufType
  BY <1>1 DEF IInv, Typed, AfterMove
<1>5. \E p \in [Entries -> Nat] : LruOK(b', p)
  BY <1>1, <1>2, <1>4, MoveOK
<1>6. Members' = Members
  BY <1>1 DEF Members, AfterMove
<1>7. HashOK(b', Members', q)
  BY <1>1, <1>3, <1>6, HashKept DEF AfterMove
<1>8. Typed'
  BY <1>1, <1>4 DEF Typed, Slices
<1>9. (\E p \in [Entries -> Nat] : LruOK(b, p))' /\ (\E p \in [Entries -> Nat] : HashOK(b, Members, p))'
  BY <1>5, <1>7
<1> QED
  BY <1>8, <1>9 DEF IInv

\* The tail, at the head of the list and on no hash list.
LEMMA AllocateStep ==
    ASSUME IInv, NEW l \in Lsas, AllocateDataBuf(l)
    PROVE  /\ \A e \in Members : b.lsa[e] # l
           /\ cur = None /\ cur' = l /\ b.tail \in Entries
           /\ \E y : /\ AfterMove(b, y, b.tail)
                     /\ IF b.lsa[b.tail] = None THEN b' = y ELSE AfterGet(y, b', b.tail)
<1>1. PICK pos \in [Entries -> Nat] : LruOK(b, pos)
  BY DEF IInv
<1>2. PICK q \in [Entries -> Nat] : HashOK(b, Members, q)
  BY DEF IInv
<1>3. /\ b \in BufType /\ Members \subseteq Entries /\ Find(l) = None /\ cur = None /\ cur' = l
      /\ b.tail \in Entries
  BY DEF IInv, Typed, Members, AllocateDataBuf, BufType
<1>4. \A e \in Members : b.lsa[e] # l
  BY <1>2, <1>3, FindOK
<1> DEFINE y == ToHead(Unlinked(b.tail), b.tail)
<1>5. AfterMove(b, y, b.tail)
  BY <1>1, <1>3, MoveFields
<1>6. b' = SelectiveGetFromDataBufHashList(y, b.tail)
  BY DEF AllocateDataBuf
<1> HIDE DEF y
<1>7. y \in BufType /\ y.lsa = b.lsa
  BY <1>5 DEF AfterMove
<1>8. b.lsa[b.tail] = None => b' = y
  BY <1>6, <1>7 DEF SelectiveGetFromDataBufHashList
<1>9. b.lsa[b.tail] # None => AfterGet(y, b', b.tail)
  BY <1>3, <1>6, <1>7, GetFields
<1> QED
  BY <1>3, <1>4, <1>5, <1>8, <1>9

LEMMA AllocateOK ==
    ASSUME IInv, NEW l \in Lsas, AllocateDataBuf(l)
    PROVE  IInv'
<1>1. /\ cur = None /\ cur' = l /\ b.tail \in Entries
      /\ \E y : /\ AfterMove(b, y, b.tail)
                /\ IF b.lsa[b.tail] = None THEN b' = y ELSE AfterGet(y, b', b.tail)
  BY AllocateStep
<1>2. PICK y : /\ AfterMove(b, y, b.tail)
               /\ IF b.lsa[b.tail] = None THEN b' = y ELSE AfterGet(y, b', b.tail)
  BY <1>1
<1>3. PICK pos \in [Entries -> Nat] : LruOK(b, pos)
  BY DEF IInv
<1>4. PICK q \in [Entries -> Nat] : HashOK(b, Members, q)
  BY DEF IInv
<1>5. b \in BufType /\ y \in BufType /\ y.lsa = b.lsa /\ y.head = b.tail
  BY <1>2 DEF IInv, Typed, AfterMove
<1>6. PICK p \in [Entries -> Nat] : LruOK(y, p)
  BY <1>1, <1>2, <1>3, <1>5, MoveOK
<1>7. HashOK(y, Members, q)
  BY <1>2, <1>4, HashKept DEF AfterMove
<1>8. /\ b' \in BufType /\ b'.lsa = b.lsa /\ b'.head = b.tail
      /\ b'.next = y.next /\ b'.prev = y.prev /\ b'.head = y.head /\ b'.tail = y.tail
  BY <1>2, <1>5 DEF AfterGet
<1>9. LruOK(b', p)
  BY <1>6, <1>8, LruKept
<1>10. Members' = Members \ {b.tail} /\ Members \subseteq Entries
  BY <1>1, <1>8, NoneIsNoEntry DEF Members
<1>11. HashOK(b', Members \ {b.tail}, q)
  <2>1. CASE b.lsa[b.tail] = None
    <3>1. Members \ {b.tail} = Members
      BY <2>1 DEF Members
    <3> QED
      BY <1>2, <1>7, <2>1, <3>1
  <2>2. CASE b.lsa[b.tail] # None
    <3>1. b.tail \in Members /\ AfterGet(y, b', b.tail)
      BY <1>1, <1>2, <2>2 DEF Members
    <3> QED
      BY <1>5, <1>7, <1>10, <3>1, GetOK
  <2> QED
    BY <2>1, <2>2
<1>12. Typed'
  BY <1>1, <1>8 DEF Typed, Slices
<1>13. (\E r \in [Entries -> Nat] : LruOK(b, r))' /\ (\E r \in [Entries -> Nat] : HashOK(b, Members, r))'
  BY <1>9, <1>10, <1>11
<1> QED
  BY <1>12, <1>13 DEF IInv

\* The entry at the head holds the slice that was asked for.
LEMMA AssignStep ==
    ASSUME IInv, ReqTransSliceToLowLevel
    PROVE  /\ cur \in Lsas /\ cur' = None /\ b.head \in Entries \ Members
           /\ \E x : /\ x \in BufType /\ x = [b EXCEPT !.lsa[b.head] = cur]
                     /\ AfterPut(x, b', b.head)
<1>1. b \in BufType /\ cur \in Lsas /\ cur' = None /\ b.head \in Entries \ Members
  BY DEF IInv, Typed, Slices, ReqTransSliceToLowLevel, BufType, Members
<1>2. PICK q \in [Entries -> Nat] : HashOK(b, Members, q)
  BY DEF IInv
<1> DEFINE x == [b EXCEPT !.lsa[b.head] = cur]
<1>3. /\ x \in BufType /\ x.hashTail = b.hashTail /\ x.lsa = [b.lsa EXCEPT ![b.head] = cur]
  BY <1>1 DEF BufType, Slices
<1>4. b' = PutToDataBufHashList(x, b.head)
  BY DEF ReqTransSliceToLowLevel
<1> HIDE DEF x
<1>5. x.lsa[b.head] = cur /\ cur # None
  BY <1>1, <1>3, NoneIsNoEntry DEF BufType
<1>6. Hash(x, b.head) \in Entries
  BY <1>1, <1>5, HashIsEntry DEF Hash
<1>7. x.hashTail[Hash(x, b.head)] # b.head
  BY <1>1, <1>2, <1>3, <1>6, NoneIsNoEntry DEF HashOK
<1>8. AfterPut(x, b', b.head)
  BY <1>1, <1>3, <1>4, <1>5, <1>7, PutFields
<1> QED
  BY <1>1, <1>3, <1>8 DEF x

LEMMA AssignOK ==
    ASSUME IInv, ReqTransSliceToLowLevel
    PROVE  IInv'
<1>1. /\ cur \in Lsas /\ cur' = None /\ b.head \in Entries \ Members
      /\ \E x : /\ x \in BufType /\ x = [b EXCEPT !.lsa[b.head] = cur]
                /\ AfterPut(x, b', b.head)
  BY AssignStep
<1>2. PICK x : /\ x \in BufType /\ x = [b EXCEPT !.lsa[b.head] = cur]
               /\ AfterPut(x, b', b.head)
  BY <1>1
<1>3. PICK pos \in [Entries -> Nat] : LruOK(b, pos)
  BY DEF IInv
<1>4. PICK q \in [Entries -> Nat] : HashOK(b, Members, q)
  BY DEF IInv
<1>5. /\ b \in BufType /\ x.lsa = [b.lsa EXCEPT ![b.head] = cur]
      /\ x.next = b.next /\ x.prev = b.prev /\ x.head = b.head /\ x.tail = b.tail
      /\ x.hashPrev = b.hashPrev /\ x.hashNext = b.hashNext
      /\ x.hashHead = b.hashHead /\ x.hashTail = b.hashTail
  BY <1>2 DEF IInv, Typed, BufType
<1>6. /\ b' \in BufType /\ b'.lsa = x.lsa /\ b'.next = b.next /\ b'.prev = b.prev
      /\ b'.head = b.head /\ b'.tail = b.tail
  BY <1>2, <1>5 DEF AfterPut
<1>7. LruOK(b', pos)
  BY <1>3, <1>6, LruKept
<1>8. HashOK(x, Members, q)
  <2>1. \A e \in Entries : e # b.head => x.lsa[e] = b.lsa[e]
    BY <1>5 DEF BufType
  <2>2. \A e \in Members : e \in Entries /\ x.lsa[e] = b.lsa[e] /\ Hash(x, e) = Hash(b, e)
    BY <1>1, <2>1 DEF Hash, Members
  <2> QED
    BY <1>4, <1>5, <2>2 DEF HashOK
<1>9. x.lsa[b.head] # None
  BY <1>1, <1>5, NoneIsNoEntry DEF BufType
<1>10. Members \subseteq Entries
  BY DEF Members
<1>11. \E p \in [Entries -> Nat] : HashOK(b', Members \cup {b.head}, p)
  <2> DEFINE M == Members
             e == b.head
             y == b'
  <2>1. e \in Entries \ M /\ M \subseteq Entries /\ x.lsa[e] # None /\ AfterPut(x, y, e) /\ HashOK(x, M, q)
    BY <1>1, <1>2, <1>8, <1>9, <1>10
  <2> HIDE DEF M, e, y
  <2>2. \E p \in [Entries -> Nat] : HashOK(y, M \cup {e}, p)
    BY <1>2, <2>1, PutOK
  <2> QED
    BY <2>2 DEF M, e, y
<1>12. Members' = Members \cup {b.head}
  <2>1. cur # None
    BY <1>1, NoneIsNoEntry
  <2>2. \A e \in Entries : b'.lsa[e] # None <=> b.lsa[e] # None \/ e = b.head
    BY <1>1, <1>5, <1>6, <2>1 DEF BufType
  <2> QED
    BY <1>1, <2>1, <2>2 DEF Members
<1>13. Typed'
  BY <1>1, <1>6 DEF Typed, Slices
<1>14. (\E r \in [Entries -> Nat] : LruOK(b, r))' /\ (\E r \in [Entries -> Nat] : HashOK(b, Members, r))'
  BY <1>7, <1>11, <1>12
<1> QED
  BY <1>13, <1>14 DEF IInv

\* In every state the LRU list holds every entry, and the hash lists those that
\* hold a slice, each in a definite order.
THEOREM ListInvariant == Spec => []IInv
<1>1. ASSUME IInv, [Next]_vars PROVE IInv'
  <2>1. CASE ReqTransSliceToLowLevel
    BY <1>1, <2>1, AssignOK
  <2>2. ASSUME NEW l \in Lsas, CheckDataBufHit(l) \/ AllocateDataBuf(l) PROVE IInv'
    BY <1>1, <2>2, HitOK, AllocateOK
  <2>3. CASE UNCHANGED vars
    BY <1>1, <2>3 DEF vars, IInv, Typed, Members
  <2> QED
    BY <1>1, <2>1, <2>2, <2>3 DEF Next
<1> QED
  BY <1>1, InitOK, PTL DEF Spec

\* The lists of the data buffers are well linked in every state, for any number of
\* entries and any slices: no entry is lost from the LRU list, and every entry with a
\* slice is on the hash list of that slice and on no other.
THEOREM LinksAreExact == Spec => []LinksExact
<1>1. ASSUME IInv PROVE LinksExact
  <2>0. b \in BufType /\ Members \subseteq Entries /\ b.head \in Entries /\ None \notin Entries
    BY <1>1, NoneIsNoEntry DEF IInv, Typed, Members, BufType
  <2>1. PICK pos \in [Entries -> Nat] : LruOK(b, pos)
    BY <1>1 DEF IInv
  <2>2. PICK q \in [Entries -> Nat] : HashOK(b, Members, q)
    BY <1>1 DEF IInv
  <2>3. Enumerates(List(b.next, b.head), Entries, b.next, b.head, None)
    BY <2>0, <2>1, LruChain
  <2>4. TwoWay(b.next, b.prev, b.head, b.tail)
    <3>1. /\ \A x \in Entries : /\ b.next[x] # None => b.prev[b.next[x]] = x
                                /\ b.next[x] = None => b.tail = x
          /\ b.head # None => b.prev[b.head] = None
          /\ b.head = None => b.tail = None
      BY <2>0, <2>1 DEF LruOK
    <3> QED
      BY <2>3, <3>1, TwoWayOK
  <2>5. ASSUME NEW h \in Entries
        PROVE  /\ TwoWay(b.hashNext, b.hashPrev, b.hashHead[h], b.hashTail[h])
               /\ Nodes(List(b.hashNext, b.hashHead[h])) =
                     {e \in Members : FindDataBufHashTableEntry(b.lsa[e]) = h}
    <3> DEFINE S == {e \in Members : Hash(b, e) = h}
    <3>1. Enumerates(List(b.hashNext, b.hashHead[h]), S, b.hashNext, b.hashHead[h], None)
      BY <2>0, <2>2, HashChain
    <3>2. /\ \A x \in S : /\ b.hashNext[x] # None => b.hashPrev[b.hashNext[x]] = x
                          /\ b.hashNext[x] = None => b.hashTail[h] = x
          /\ b.hashHead[h] # None => b.hashPrev[b.hashHead[h]] = None
          /\ b.hashHead[h] = None => b.hashTail[h] = None
      BY <2>2 DEF HashOK
    <3>3. S = {e \in Members : FindDataBufHashTableEntry(b.lsa[e]) = h}
      BY DEF Hash
    <3> HIDE DEF S
    <3>4. TwoWay(b.hashNext, b.hashPrev, b.hashHead[h], b.hashTail[h])
      BY <3>1, <3>2, TwoWayOK
    <3> QED
      BY <3>1, <3>3, <3>4 DEF Enumerates
  <2>6. Nodes(List(b.next, b.head)) = Entries
    BY <2>3 DEF Enumerates
  <2> QED
    BY <2>4, <2>5, <2>6 DEF LinksExact
<1> QED
  BY <1>1, ListInvariant, PTL

-----------------------------------------------------------------------------
(* The refinement of LruBuffer.                                            *)

LEMMA HashedAre == IInv => OnHashList = Members
<1> SUFFICES ASSUME IInv PROVE OnHashList = Members
  OBVIOUS
<1>1. PICK q \in [Entries -> Nat] : HashOK(b, Members, q)
  BY DEF IInv
<1>2. b \in BufType /\ Members \subseteq Entries
  BY DEF IInv, Typed, Members
<1>3. ASSUME NEW h \in Entries
      PROVE  Nodes(List(b.hashNext, b.hashHead[h])) = {e \in Members : Hash(b, e) = h}
  BY <1>1, <1>2, HashChain DEF Enumerates
<1>4. \A e \in Members : Hash(b, e) \in Entries
  <2> SUFFICES ASSUME NEW e \in Members PROVE Hash(b, e) \in Entries
    OBVIOUS
  <2>1. b.lsa[e] \in Lsas
    BY <1>1, <1>2 DEF HashOK, BufType, Slices
  <2> QED
    BY <2>1, HashIsEntry DEF Hash
<1> QED
  BY <1>3, <1>4 DEF OnHashList

LEMMA HashedAreNext == (IInv => OnHashList = Members)'
  BY HashedAre, PTL

\* The sequence c with its i-th element at the front.
Moved(c, i) == [j \in DOMAIN c |-> IF j = 1 THEN c[i] ELSE IF j <= i THEN c[j - 1] ELSE c[j]]

\* The list of the links after a move is the list before it, with the entry moved.
LEMMA MovedChain ==
    ASSUME b \in BufType, NEW pos \in [Entries -> Nat], LruOK(b, pos),
           NEW y, NEW e \in Entries, AfterMove(b, y, e),
           NEW i \in DOMAIN List(b.next, b.head), List(b.next, b.head)[i] = e
    PROVE  List(y.next, y.head) = Moved(List(b.next, b.head), i)
<1> DEFINE c == List(b.next, b.head)
           m == Len(c)
           d == Moved(c, i)
<1>1. Enumerates(c, Entries, b.next, b.head, None) /\ Len(c) <= EntryCount
  BY LruChain
<1>2. /\ c \in Seq(Entries) /\ m \in Nat /\ DOMAIN c = 1 .. m /\ i \in 1 .. m /\ m >= 1
      /\ \A j \in 1 .. m : c[j] \in Entries
      /\ \A j, k \in 1 .. m : c[j] = c[k] => j = k
  BY <1>1 DEF Enumerates
<1>3. /\ b.head = c[1] /\ b.next[c[m]] = None
      /\ \A j \in 1 .. m - 1 : b.next[c[j]] = c[j + 1]
  <2>1. c # << >>
    BY <1>2
  <2> QED
    BY <1>1, <2>1 DEF Enumerates, Follows
<1>4. c[i] = e /\ None \notin Entries /\ m <= EntryCount /\ EntryCount \in Nat
  BY <1>1, NoneIsNoEntry
<1> HIDE DEF c, m, d
<1>5. /\ d = [j \in 1 .. m |-> IF j = 1 THEN c[i] ELSE IF j <= i THEN c[j - 1] ELSE c[j]]
  BY <1>2 DEF d, Moved
<1>6. /\ \A j \in 1 .. m : d[j] = (IF j = 1 THEN e ELSE IF j <= i THEN c[j - 1] ELSE c[j])
      /\ DOMAIN d = 1 .. m
  BY <1>4, <1>5
<1>7. \A j \in 1 .. m : d[j] \in Entries
  <2> SUFFICES ASSUME NEW j \in 1 .. m PROVE d[j] \in Entries
    OBVIOUS
  <2>1. j # 1 => j - 1 \in 1 .. m
    BY <1>2
  <2> QED
    BY <1>2, <1>6, <2>1
<1>8. d \in Seq(Entries) /\ Len(d) = m
  BY <1>2, <1>5, <1>6, <1>7
<1>9. Follows(d, y.next, y.head, None)
  <2>1. CASE i = 1
    <3>1. e = b.head
      BY <2>1, <1>3, <1>4
    <3>2. y.head = e /\ \A v \in Entries : y.next[v] = b.next[v]
      BY <3>1 DEF AfterMove
    <3>3. \A j \in 1 .. m : d[j] = c[j]
      BY <2>1, <1>2, <1>4, <1>6
    <3>4. \A j \in 1 .. m - 1 : j \in 1 .. m /\ j + 1 \in 1 .. m
      BY <1>2
    <3>5. ASSUME NEW j \in 1 .. m - 1 PROVE y.next[d[j]] = d[j + 1]
      <4>1. d[j] = c[j] /\ d[j + 1] = c[j + 1] /\ c[j] \in Entries
        BY <1>2, <3>3, <3>4
      <4>2. b.next[c[j]] = c[j + 1]
        BY <1>3
      <4> QED
        BY <4>1, <4>2, <3>2
    <3>6. d # << >> /\ d[1] = y.head /\ y.next[d[m]] = None
      <4>1. m \in 1 .. m /\ 1 \in 1 .. m
        BY <1>2
      <4>2. d[m] = c[m] /\ c[m] \in Entries /\ d[1] = e
        BY <4>1, <1>2, <1>6, <3>3
      <4>3. d # << >>
        BY <1>2, <1>8
      <4> QED
        BY <4>2, <4>3, <1>3, <3>2
    <3> QED
      BY <1>4, <1>6, <1>7, <1>8, <3>5, <3>6 DEF Follows
  <2>2. CASE i # 1
    <3>1. e # b.head /\ i - 1 \in 1 .. m - 1 /\ i - 1 \in 1 .. m /\ 1 \in 1 .. m
      BY <2>2, <1>2, <1>3, <1>4
    <3>2. b.prev[e] = c[i - 1]
      <4>1. b.next[c[i - 1]] = e /\ c[i - 1] \in Entries
        BY <1>2, <1>3, <1>4, <3>1
      <4> QED
        BY <4>1, <1>4 DEF LruOK
    <3>3. /\ y.head = e
          /\ \A v \in Entries :
               y.next[v] = IF v = e THEN c[1] ELSE IF v = c[i - 1] THEN b.next[e] ELSE b.next[v]
      BY <3>1, <3>2, <1>3 DEF AfterMove
    <3>4. ASSUME NEW j \in 1 .. m - 1 PROVE y.next[d[j]] = d[j + 1]
      <4>0. j \in 1 .. m /\ j + 1 \in 1 .. m
        BY <1>2
      <4>1. CASE j = 1
        <5>1. d[1] = e /\ d[2] = c[1]
          BY <4>0, <4>1, <1>2, <1>6, <2>2
        <5> QED
          BY <4>1, <5>1, <3>3
      <4>2. CASE j # 1 /\ j < i
        <5>1. j - 1 \in 1 .. m - 1 /\ j - 1 \in 1 .. m /\ j - 1 # i /\ j - 1 # i - 1 /\ (j - 1) + 1 = j
          BY <4>0, <4>2, <1>2
        <5>2. d[j] = c[j - 1] /\ d[j + 1] = c[j]
          BY <4>0, <4>2, <1>2, <1>6
        <5>3. c[j - 1] # e /\ c[j - 1] # c[i - 1] /\ c[j - 1] \in Entries
          BY <5>1, <3>1, <1>2, <1>4
        <5>4. b.next[c[j - 1]] = c[j]
          BY <5>1, <1>3
        <5> QED
          BY <5>2, <5>3, <5>4, <3>3
      <4>3. CASE j = i
        <5>1. d[j] = c[i - 1] /\ d[j + 1] = c[i + 1]
          BY <4>0, <4>3, <2>2, <1>2, <1>6
        <5>2. c[i - 1] # e /\ c[i - 1] \in Entries
          BY <3>1, <1>2, <1>4
        <5>3. b.next[e] = c[i + 1]
          BY <4>3, <1>3, <1>4
        <5> QED
          BY <5>1, <5>2, <5>3, <3>3
      <4>4. CASE j > i
        <5>1. d[j] = c[j] /\ d[j + 1] = c[j + 1]
          BY <4>0, <4>4, <1>2, <1>6
        <5>2. c[j] # e /\ c[j] # c[i - 1] /\ c[j] \in Entries
          <6>1. j # i /\ j # i - 1
            BY <4>4, <1>2
          <6> QED
            BY <6>1, <4>0, <3>1, <1>2, <1>4
        <5> QED
          BY <5>1, <5>2, <3>3, <1>3
      <4> QED
        BY <4>1, <4>2, <4>3, <4>4, <1>2
    <3>5. d # << >> /\ d[1] = y.head
      BY <1>2, <1>6, <1>8, <3>1, <3>3
    <3>6. y.next[d[m]] = None
      <4>0. m \in 1 .. m /\ m # 1
        BY <1>2, <3>1
      <4>1. CASE i = m
        <5>1. d[m] = c[i - 1] /\ c[i - 1] # e /\ c[i - 1] \in Entries /\ b.next[e] = None
          BY <4>0, <4>1, <3>1, <1>2, <1>3, <1>4, <1>6
        <5> QED
          BY <5>1, <3>3
      <4>2. CASE i # m
        <5>1. d[m] = c[m] /\ m # i - 1
          BY <4>0, <4>2, <1>2, <1>6
        <5>2. c[m] # e /\ c[m] # c[i - 1] /\ c[m] \in Entries
          BY <5>1, <4>0, <4>2, <3>1, <1>2, <1>4
        <5> QED
          BY <5>1, <5>2, <3>3, <1>3
      <4> QED
        BY <4>1, <4>2
    <3> QED
      BY <1>4, <1>6, <1>7, <1>8, <3>4, <3>5, <3>6 DEF Follows
  <2> QED
    BY <2>1, <2>2
<1>10. Chain(y.next, y.head, EntryCount, None) = d
  BY <1>4, <1>8, <1>9, ChainIs
<1> QED
  BY <1>10 DEF List, d, c

\* The links of an empty buffer.
LEMMA BufferInit == Init => Buffer!Init
<1> SUFFICES ASSUME Init PROVE Buffer!Init
  OBVIOUS
<1> DEFINE d == [i \in 1 .. EntryCount |-> i - 1]
<1>0. EntryCount \in Nat /\ EntryCount >= 1 /\ None \notin Nat
  BY ConstantsAssumption
<1>1. /\ cur = None /\ b.lsa = [e \in Entries |-> None] /\ b.head = 0
      /\ b.next = [e \in Entries |-> IF e = EntryCount - 1 THEN None ELSE e + 1]
  BY DEF Init, InitDataBuf
<1>2. /\ \A i \in 1 .. EntryCount : d[i] = i - 1 /\ i - 1 \in Entries /\ d[i] \in Nat
      /\ d \in Seq(Nat) /\ Len(d) = EntryCount /\ DOMAIN d = 1 .. EntryCount
  BY <1>0 DEF Entries
<1> HIDE DEF d
<1>3. Follows(d, b.next, b.head, None)
  <2>1. \A i \in DOMAIN d : d[i] # None
    BY <1>0, <1>2
  <2>2. d # << >> /\ d[1] = 0
    BY <1>0, <1>2
  <2>3. b.next[d[EntryCount]] = None
    <3>1. d[EntryCount] = EntryCount - 1 /\ EntryCount - 1 \in Entries
      BY <1>0, <1>2
    <3> QED
      BY <3>1, <1>1
  <2>4. ASSUME NEW i \in 1 .. EntryCount - 1 PROVE b.next[d[i]] = d[i + 1]
    <3>0. i \in 1 .. EntryCount /\ i + 1 \in 1 .. EntryCount /\ i - 1 # EntryCount - 1
      BY <1>0
    <3>1. d[i] = i - 1 /\ i - 1 \in Entries /\ i - 1 # EntryCount - 1 /\ d[i + 1] = (i - 1) + 1
      <4>1. d[i] = i - 1 /\ i - 1 \in Entries /\ d[i + 1] = (i + 1) - 1
        BY <1>2, <3>0
      <4> QED
        BY <3>0, <4>1
    <3>2. b.next[i - 1] = (i - 1) + 1
      BY <3>1, <1>1
    <3> QED
      BY <3>1, <3>2
  <2> QED
    BY <1>1, <1>2, <2>1, <2>2, <2>3, <2>4 DEF Follows
<1>4. Chain(b.next, b.head, EntryCount, None) = d
  BY <1>0, <1>2, <1>3, ChainIs
<1>5. OnHashList = {}
  <2>1. Members = {}
    BY <1>1 DEF Members
  <2> QED
    BY <2>1, InitOK, HashedAre
<1> QED
  BY <1>1, <1>4, <1>5 DEF Buffer!Init, Buffer!Entries, Entries, List, d

\* A move of e to the head is a use of e.
LEMMA MoveIsUse ==
    ASSUME IInv, NEW y, NEW e \in Entries, AfterMove(b, y, e),
           b'.next = y.next, b'.head = y.head
    PROVE  Buffer!Use(e)
<1> DEFINE c == List(b.next, b.head)
<1>1. PICK pos \in [Entries -> Nat] : LruOK(b, pos)
  BY DEF IInv
<1>2. b \in BufType
  BY DEF IInv, Typed
<1>3. Nodes(c) = Entries
  BY <1>1, <1>2, LruChain DEF Enumerates
<1>4. PICK i \in DOMAIN c : c[i] = e
  BY <1>3 DEF Nodes
<1>5. List(y.next, y.head) = Moved(c, i)
  BY <1>1, <1>2, <1>4, MovedChain
<1>6. List(b.next, b.head)' = Moved(c, i)
  BY <1>5
<1>7. Moved(c, i) = [j \in DOMAIN c |-> IF j = 1 THEN e ELSE IF j <= i THEN c[j - 1] ELSE c[j]]
  BY <1>4 DEF Moved
<1> QED
  BY <1>4, <1>6, <1>7 DEF Buffer!Use

\* The ends of the LRU list are the ends of the sequence.
LEMMA EndsOfList ==
    ASSUME IInv
    PROVE  /\ List(b.next, b.head)[Len(List(b.next, b.head))] = b.tail
           /\ Head(List(b.next, b.head)) = b.head
<1> DEFINE c == List(b.next, b.head)
<1>1. PICK pos \in [Entries -> Nat] : LruOK(b, pos)
  BY DEF IInv
<1>2. b \in BufType /\ b.head \in Entries /\ None \notin Entries
  BY NoneIsNoEntry DEF IInv, Typed, BufType
<1>3. Enumerates(c, Entries, b.next, b.head, None)
  BY <1>1, <1>2, LruChain
<1> HIDE DEF c
<1>4. c # << >> /\ c \in Seq(Entries)
  BY <1>2, <1>3 DEF Enumerates, Follows
<1>5. b.head = c[1] /\ b.next[c[Len(c)]] = None
  BY <1>3, <1>4 DEF Enumerates, Follows
<1>6. c[Len(c)] \in Entries
  BY <1>4
<1>7. c[Len(c)] = b.tail
  BY <1>1, <1>5, <1>6 DEF LruOK
<1> QED
  BY <1>4, <1>5, <1>7 DEF c

LEMMA HitRefines ==
    ASSUME IInv, IInv', NEW l \in Lsas, CheckDataBufHit(l)
    PROVE  Buffer!Hit(l)
<1>1. /\ Find(l) \in Members /\ b.lsa[Find(l)] = l
      /\ AfterMove(b, b', Find(l)) /\ cur = None /\ cur' = None
  BY HitStep
<1>2. OnHashList = Members /\ OnHashList' = Members'
  BY HashedAre, HashedAreNext
<1>3. Members' = Members /\ b'.lsa = b.lsa
  BY <1>1 DEF Members, AfterMove
<1>4. Find(l) \in Entries
  BY <1>1 DEF Members
<1>5. Buffer!Use(Find(l))
  BY <1>1, <1>4, MoveIsUse
<1>6. Find(l) \in Buffer!Holders(l)
  BY <1>1, <1>2 DEF Buffer!Holders
<1> QED
  BY <1>1, <1>2, <1>3, <1>5, <1>6 DEF Buffer!Hit

LEMMA AllocateRefines ==
    ASSUME IInv, IInv', NEW l \in Lsas, AllocateDataBuf(l)
    PROVE  Buffer!Allocate(l)
<1>1. /\ cur = None /\ cur' = l /\ b.tail \in Entries
      /\ \A e \in Members : b.lsa[e] # l
      /\ \E y : /\ AfterMove(b, y, b.tail)
                /\ IF b.lsa[b.tail] = None THEN b' = y ELSE AfterGet(y, b', b.tail)
  BY AllocateStep
<1>2. PICK y : /\ AfterMove(b, y, b.tail)
               /\ IF b.lsa[b.tail] = None THEN b' = y ELSE AfterGet(y, b', b.tail)
  BY <1>1
<1>3. b'.lsa = b.lsa /\ b'.next = y.next /\ b'.head = y.head /\ b'.head = b.tail
  BY <1>2 DEF AfterMove, AfterGet
<1>4. Buffer!Use(b.tail)
  BY <1>1, <1>2, <1>3, MoveIsUse
<1>5. OnHashList = Members /\ OnHashList' = Members'
  BY HashedAre, HashedAreNext
<1>6. Members' = Members \ {b.tail}
  BY <1>1, <1>3, NoneIsNoEntry DEF Members
<1>7. Buffer!Holders(l) = {}
  BY <1>1, <1>5 DEF Buffer!Holders
<1>8. List(b.next, b.head)[Len(List(b.next, b.head))] = b.tail
  BY EndsOfList
<1> QED
  BY <1>1, <1>3, <1>4, <1>5, <1>6, <1>7, <1>8 DEF Buffer!Allocate

LEMMA AssignRefines ==
    ASSUME IInv, IInv', ReqTransSliceToLowLevel
    PROVE  Buffer!Assign
<1>1. /\ cur \in Lsas /\ cur' = None /\ b.head \in Entries \ Members
      /\ \E x : /\ x \in BufType /\ x = [b EXCEPT !.lsa[b.head] = cur]
                /\ AfterPut(x, b', b.head)
  BY AssignStep
<1>2. PICK x : /\ x \in BufType /\ x = [b EXCEPT !.lsa[b.head] = cur]
               /\ AfterPut(x, b', b.head)
  BY <1>1
<1>3. b \in BufType /\ cur # None
  BY <1>1, NoneIsNoEntry DEF IInv, Typed
<1>4. x.lsa = [b.lsa EXCEPT ![b.head] = cur] /\ x.next = b.next /\ x.head = b.head
  BY <1>2, <1>3 DEF BufType
<1>5. b'.lsa = [b.lsa EXCEPT ![b.head] = cur] /\ b'.next = b.next /\ b'.head = b.head
  BY <1>2, <1>4 DEF AfterPut
<1>6. OnHashList = Members /\ OnHashList' = Members'
  BY HashedAre, HashedAreNext
<1>7. Members' = Members \cup {b.head}
  <2>1. \A e \in Entries : b'.lsa[e] # None <=> b.lsa[e] # None \/ e = b.head
    BY <1>1, <1>3, <1>5 DEF BufType
  <2> QED
    BY <1>1, <1>3, <1>5, <2>1 DEF Members
<1>8. Head(List(b.next, b.head)) = b.head
  BY EndsOfList
<1>9. List(b.next, b.head)' = List(b.next, b.head)
  BY <1>5
<1> QED
  BY <1>1, <1>3, <1>5, <1>6, <1>7, <1>8, <1>9 DEF Buffer!Assign

\* The linked lists of the data buffers implement the buffer that the request
\* transformation works with, for any number of entries and any slices: a hit is a
\* slice some entry holds, the entry used moves to the front, and the entry an
\* allocation hands out is the least recently used one.
THEOREM BufferIsImplemented == Spec => ImplementsLruBuffer
<1>1. ASSUME IInv, IInv', [Next]_vars PROVE [Buffer!Next]_(Buffer!bufferVars)
  <2>1. CASE ReqTransSliceToLowLevel
    BY <1>1, <2>1, AssignRefines DEF Buffer!Next
  <2>2. ASSUME NEW l \in Lsas, CheckDataBufHit(l) \/ AllocateDataBuf(l) PROVE Buffer!Next
    BY <1>1, <2>2, HitRefines, AllocateRefines DEF Buffer!Next
  <2>3. CASE UNCHANGED vars
    BY <2>3 DEF vars, Buffer!bufferVars, OnHashList
  <2> QED
    BY <1>1, <2>1, <2>2, <2>3 DEF Next
<1> QED
  BY <1>1, BufferInit, ListInvariant, PTL DEF Spec, ImplementsLruBuffer, Buffer!Spec
=============================================================================
