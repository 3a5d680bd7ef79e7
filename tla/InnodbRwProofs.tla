--------------------------- MODULE InnodbRwProofs ---------------------------
(***************************************************************************)
(* PoolExact, WriteAhead and PagesInPlace of InnodbRw, for any number of   *)
(* threads, blocks and pages.                                              *)
(*                                                                         *)
(* The invariant ties a block to the thread that has it: what each place   *)
(* of a thread says of its block (ThreadOK), that a block in hand for I/O  *)
(* is in the hand of one thread only (OwnersApart), and that the fix count *)
(* of a block counts the threads that fixed it (FixExact).  The last is    *)
(* what makes "unfixed" mean that nobody is left inside the page when it   *)
(* is evicted or taken by an RW command.                                   *)
(***************************************************************************)
EXTENDS InnodbRw, Integers, FiniteSetTheorems, WellFoundedInduction, TLAPS

\* Where a thread has a block fixed, and where it has one in hand for I/O.
Fixing == {"latch", "latched", "try"}
Owning == {"rw", "written", "remove", "init", "read", "complete", "single"}

\* TypeOK with any integer for a fix count, whose bound follows from FixExact.
Block == [state : {"NOT_USED", "READY_FOR_USE", "FILE_PAGE"},
          page : Pages \cup {NoPage}, frame : Frames,
          io : {"NONE", "READ", "WRITE"}, fix : Int,
          dirty : BOOLEAN, logged : BOOLEAN, target : BOOLEAN, use : BOOLEAN]

ThreadState ==
    [pc : Places, page : Pages \cup {NoPage}, sync : BOOLEAN,
     blk : Blocks \cup {NoBlock}, latch : {"S", "X"}, scan : BOOLEAN,
     retries : 0..MaxRetries, saved : Blocks \cup {NoBlock}, same : BOOLEAN]

Typed ==
    /\ blk \in [Blocks -> Block]
    /\ hash \in [Pages -> Blocks \cup {NoBlock}]
    /\ free \subseteq Blocks /\ lru \subseteq Blocks
    /\ disk \in [Pages -> Frames]
    /\ log \in 0..MaxMods
    /\ last \in [Pages -> 0..MaxMods]
    /\ th \in [Threads -> ThreadState]
    /\ fail \in {"no", "io_fix", "buf_fix_count", "oldest_modification",
                 "retries"}

\* What the place of a thread says of its page and of its block.
ThreadOK(t) ==
    /\ th[t].pc \notin {"idle", "try"} => th[t].page \in Pages
    /\ th[t].pc \in Fixing \cup Owning \cup {"fix"} => th[t].blk \in Blocks
    /\ th[t].pc = "fix" => hash[th[t].page] = th[t].blk
    /\ th[t].pc \in Fixing => blk[th[t].blk].state = "FILE_PAGE"
    /\ th[t].pc \in {"rw", "written", "single"} => blk[th[t].blk].io = "WRITE"
    /\ th[t].pc \in {"rw", "written", "remove"} =>
          blk[th[t].blk].target /\ blk[th[t].blk].state = "FILE_PAGE"
    /\ th[t].pc = "remove" => blk[th[t].blk].io = "NONE"
    /\ th[t].pc = "init" => blk[th[t].blk].state = "READY_FOR_USE"
    /\ th[t].pc \in {"read", "complete"} => blk[th[t].blk].io = "READ"
    /\ th[t].sync \/ (th[t].pc \in {"written", "remove"}
                        => blk[th[t].blk].frame.page = ZeroPage)
    /\ th[t].sync \/ (th[t].pc = "init" /\ blk[th[t].blk].use
                        => blk[th[t].blk].frame.page = ZeroPage)

\* The lists a block is in, by its state.
BlockOK(b) ==
    /\ b \in free => blk[b].state = "NOT_USED"
    /\ b \in lru <=> blk[b].state = "FILE_PAGE"
    /\ blk[b].state = "FILE_PAGE" => blk[b].page \in Pages
    /\ blk[b].state # "FILE_PAGE" => blk[b].io = "NONE"
    /\ blk[b].state = "NOT_USED" => ~blk[b].use

HashOK == \A b \in Blocks, p \in Pages :
    hash[p] = b <=> blk[b].state = "FILE_PAGE" /\ blk[b].page = p

OwnersApart == \A t, u \in Threads :
    t # u /\ th[t].pc \in Owning /\ th[u].pc \in Owning => th[t].blk # th[u].blk

Fixers(b) == {t \in Threads : th[t].blk = b /\ th[t].pc \in Fixing}
FixExact == \A b \in Blocks : blk[b].fix = Cardinality(Fixers(b))

IInv ==
    /\ Typed /\ HashOK /\ FlagsEnd /\ OwnersApart /\ FixExact
    /\ \A t \in Threads : ThreadOK(t)
    /\ \A b \in Blocks : BlockOK(b)

-----------------------------------------------------------------------------
(* Max0 and Min0 choose what their names say.                              *)

\* The log moves to the lsn of the page or stays.
LEMMA MaxOfTwo ==
    \A i, j \in Nat : Max0({i, j}) \in {i, j} /\ Max0({i, j}) >= i /\ Max0({i, j}) >= j
<1> SUFFICES ASSUME NEW i \in Nat, NEW j \in Nat
    PROVE Max0({i, j}) \in {i, j} /\ Max0({i, j}) >= i /\ Max0({i, j}) >= j
  OBVIOUS
<1>1. \E m \in {i, j} : \A n \in {i, j} : m >= n
  <2>1. CASE i >= j
    BY <2>1
  <2>2. CASE j >= i
    BY <2>2
  <2> QED
    BY <2>1, <2>2
<1> QED
  BY <1>1 DEF Max0

\* The retries count up to their limit.
LEMMA MinOfTwo ==
    \A i, j \in Nat : Min0({i, j}) \in {i, j} /\ Min0({i, j}) <= i /\ Min0({i, j}) <= j
<1> SUFFICES ASSUME NEW i \in Nat, NEW j \in Nat
    PROVE Min0({i, j}) \in {i, j} /\ Min0({i, j}) <= i /\ Min0({i, j}) <= j
  OBVIOUS
<1>1. \E m \in {i, j} : \A n \in {i, j} : m <= n
  <2>1. CASE i <= j
    BY <2>1
  <2>2. CASE j <= i
    BY <2>2
  <2> QED
    BY <2>1, <2>2
<1> QED
  BY <1>1 DEF Min0

\* A set of naturals with a bound has a largest element: its distance from the
\* bound is the least.
LEMMA MaxExists ==
    ASSUME NEW N \in Nat, NEW S, S \subseteq 0..N, S # {}
    PROVE  Max0(S) \in S
<1> DEFINE R == {rr \in Nat \X Nat : rr[1] < rr[2]}
           T == {k \in Nat : N - k \in S}
<1>1. IsWellFoundedOn(R, Nat)
  BY NatLessThanWellFounded DEF OpToRel
<1>2. T \subseteq Nat /\ T # {}
  <2>1. PICK s \in S : TRUE
    OBVIOUS
  <2>2. N - s \in Nat /\ N - (N - s) = s
    BY <2>1
  <2>3. N - s \in T
    BY <2>1, <2>2
  <2> QED
    BY <2>3
<1> HIDE DEF T, R
<1>3. \E x \in T : \A y \in T : ~ (<<y, x>> \in R)
  BY <1>1, <1>2, WFMin
<1>4. PICK x \in T : \A y \in T : ~ (<<y, x>> \in R)
  BY <1>3
<1>5. N - x \in S /\ x \in Nat
  BY <1>4 DEF T
<1>6. \A n \in S : N - x >= n
  <2> SUFFICES ASSUME NEW n \in S, ~(N - x >= n)
               PROVE  FALSE
    OBVIOUS
  <2>1. N - n \in Nat /\ N - (N - n) = n /\ N - n < x
    BY <1>5
  <2>2. N - n \in T
    BY <2>1 DEF T
  <2>3. <<N - n, x>> \in R
    BY <2>1, <1>5 DEF R
  <2> QED
    BY <2>2, <2>3, <1>4
<1> QED
  BY <1>5, <1>6 DEF Max0

-----------------------------------------------------------------------------

(* The kinds of steps.                                                     *)

\* What a step on one block and one thread leaves well typed.
LEMMA TypedStep ==
    ASSUME Typed, NEW t \in Threads, NEW R \in ThreadState, th' = [th EXCEPT ![t] = R],
           NEW b \in Blocks, NEW B \in Block, blk' = [blk EXCEPT ![b] = B],
           UNCHANGED <<hash, free, lru, fail>>,
           disk' \in [Pages -> Frames], log' \in 0..MaxMods, last' \in [Pages -> 0..MaxMods]
    PROVE  Typed'
<1>1. blk' \in [Blocks -> Block]
  BY DEF Typed
<1>2. th' \in [Threads -> ThreadState]
  BY DEF Typed
<1> QED
  BY <1>1, <1>2 DEF Typed

\* Threads that stay inside or outside their blocks leave the counts exact.
LEMMA FixersStay ==
    ASSUME IInv,
           \A u \in Threads : /\ th'[u].pc \in Fixing <=> th[u].pc \in Fixing
                              /\ th[u].pc \in Fixing => th'[u].blk = th[u].blk,
           \A b \in Blocks : blk'[b].fix = blk[b].fix \/ (Fixers(b) = {} /\ blk'[b].fix = 0)
    PROVE  FixExact'
<1>1. \A b \in Blocks : Fixers(b)' = Fixers(b)
  BY DEF Fixers
<1> QED
  BY <1>1, FS_EmptySet DEF FixExact, IInv

\* There are finitely many of them.
LEMMA FixersFinite ==
    \A b : IsFiniteSet(Fixers(b))
  BY ConstantsAssumption, FS_Subset DEF Fixers

\* A thread fixes a block.
LEMMA FixerJoins ==
    ASSUME IInv, NEW t \in Threads, NEW R \in ThreadState, th' = [th EXCEPT ![t] = R],
           NEW b \in Blocks, NEW B, blk' = [blk EXCEPT ![b] = B],
           th[t].pc \notin Fixing, R.pc \in Fixing, R.blk = b, B.fix = blk[b].fix + 1
    PROVE  FixExact'
<1>1. Fixers(b)' = Fixers(b) \cup {t} /\ t \notin Fixers(b)
  BY DEF Fixers, IInv, Typed
<1>2. \A c \in Blocks : c # b => Fixers(c)' = Fixers(c)
  BY DEF Fixers, IInv, Typed
<1>3. Cardinality(Fixers(b) \cup {t}) = Cardinality(Fixers(b)) + 1
  BY <1>1, FixersFinite, FS_AddElement
<1>4. blk'[b].fix = Cardinality(Fixers(b)')
  BY <1>1, <1>3 DEF FixExact, IInv, Typed
<1>5. \A c \in Blocks : c # b => blk'[c].fix = Cardinality(Fixers(c)')
  BY <1>2 DEF FixExact, IInv, Typed
<1> QED
  BY <1>4, <1>5 DEF FixExact

\* A thread lets its block go.
LEMMA FixerLeaves ==
    ASSUME IInv, NEW t \in Threads, NEW R \in ThreadState, th' = [th EXCEPT ![t] = R],
           NEW b \in Blocks, NEW B, blk' = [blk EXCEPT ![b] = B],
           th[t].pc \in Fixing, th[t].blk = b, R.pc \notin Fixing, B.fix = blk[b].fix - 1
    PROVE  FixExact'
<1>1. Fixers(b)' = Fixers(b) \ {t} /\ t \in Fixers(b)
  BY DEF Fixers, IInv, Typed
<1>2. \A c \in Blocks : c # b => Fixers(c)' = Fixers(c)
  BY DEF Fixers, IInv, Typed
<1>3. Cardinality(Fixers(b) \ {t}) = Cardinality(Fixers(b)) - 1
  BY <1>1, FixersFinite, FS_RemoveElement
<1>4. blk'[b].fix = Cardinality(Fixers(b)')
  BY <1>1, <1>3 DEF FixExact, IInv, Typed
<1>5. \A c \in Blocks : c # b => blk'[c].fix = Cardinality(Fixers(c)')
  BY <1>2 DEF FixExact, IInv, Typed
<1> QED
  BY <1>4, <1>5 DEF FixExact

\* A step of a thread that touches nothing shared, and begins and ends no I/O of its own.
LEMMA ThreadOnly ==
    ASSUME IInv, NEW t \in Threads, NEW R \in ThreadState, th' = [th EXCEPT ![t] = R],
           UNCHANGED <<blk, hash, free, lru, disk, log, last, fail>>,
           th[t].pc \notin Owning, R.pc \notin Owning,
           R.pc \notin {"idle", "try"} => R.page \in Pages,
           R.pc = "fix" => R.blk \in Blocks /\ R.blk = hash[R.page],
           R.pc \in Fixing <=> th[t].pc \in Fixing,
           R.pc \in Fixing => R.blk = th[t].blk
    PROVE  IInv'
<1>1. Typed'
  <2>1. th' \in [Threads -> ThreadState]
    BY DEF IInv, Typed
  <2> QED BY <2>1 DEF IInv, Typed
<1>2. \A u \in Threads : ThreadOK(u)'
  <2> SUFFICES ASSUME NEW u \in Threads PROVE ThreadOK(u)'
    OBVIOUS
  <2>1. CASE u = t
    BY <2>1 DEF ThreadOK, IInv, Typed, Fixing, Owning
  <2>2. CASE u # t
    BY <2>2 DEF ThreadOK, IInv, Typed
  <2> QED BY <2>1, <2>2
<1>3. \A c \in Blocks : BlockOK(c)'
  BY DEF BlockOK, IInv
<1>4. HashOK'
  BY DEF HashOK, IInv
<1>5. FlagsEnd'
  BY DEF FlagsEnd, IInv, Typed, Owning
<1>6. OwnersApart'
  BY DEF OwnersApart, IInv, Typed
<1>7. FixExact'
  <2>1. \A u \in Threads : /\ th'[u].pc \in Fixing <=> th[u].pc \in Fixing
                           /\ th[u].pc \in Fixing => th'[u].blk = th[u].blk
    BY DEF IInv, Typed
  <2> QED BY <2>1, FixersStay
<1> QED
  BY <1>1, <1>2, <1>3, <1>4, <1>5, <1>6, <1>7 DEF IInv


\* A step of a thread on the block that it fixes: the frame's lsn apart, nothing
\* but the count of fixes and the dirty mark.
LEMMA FixStep ==
    ASSUME IInv, NEW t \in Threads, NEW R \in ThreadState, th' = [th EXCEPT ![t] = R],
           NEW b \in Blocks, NEW B \in Block, blk' = [blk EXCEPT ![b] = B],
           UNCHANGED <<hash, free, lru, disk, log, fail>>, last' \in [Pages -> 0..MaxMods],
           B.state = blk[b].state, B.page = blk[b].page, B.io = blk[b].io,
           B.target = blk[b].target, B.use = blk[b].use, B.frame.page = blk[b].frame.page,
           th[t].pc \notin Owning, R.pc \notin Owning, ThreadOK(t)', FixExact'
    PROVE  IInv'
<1>1. Typed'
  <2>1. disk' \in [Pages -> Frames] /\ log' \in 0..MaxMods
    BY DEF IInv, Typed
  <2> QED
    BY <2>1, TypedStep DEF IInv
<1>2. \A u \in Threads : ThreadOK(u)'
  <2> SUFFICES ASSUME NEW u \in Threads, u # t PROVE ThreadOK(u)'
    OBVIOUS
  <2> QED
    BY DEF ThreadOK, IInv, Typed
<1>3. \A c \in Blocks : BlockOK(c)'
  BY DEF BlockOK, IInv, Typed
<1>4. HashOK'
  BY DEF HashOK, IInv, Typed
<1>5. FlagsEnd'
  BY DEF FlagsEnd, IInv, Typed, Owning
<1>6. OwnersApart'
  BY DEF OwnersApart, IInv, Typed
<1> QED
  BY <1>1, <1>2, <1>3, <1>4, <1>5, <1>6 DEF IInv

\* A step of a thread on the block it has in hand, which stays where it is.
LEMMA OwnerStep ==
    ASSUME IInv, NEW t \in Threads, NEW R \in ThreadState, th' = [th EXCEPT ![t] = R],
           NEW b \in Blocks, NEW B \in Block, blk' = [blk EXCEPT ![b] = B],
           UNCHANGED <<hash, free, lru, last, fail>>,
           disk' \in [Pages -> Frames], log' \in 0..MaxMods,
           th[t].pc \in Owning, th[t].blk = b, th[t].pc # "init",
           blk[b].state = "FILE_PAGE",
           B.state = blk[b].state, B.page = blk[b].page, B.fix = blk[b].fix,
           R.pc \notin Fixing, R.pc \in Owning => R.blk = b,
           B.target => R.pc \in {"rw", "written", "remove"}, B.use => R.pc = "read",
           ThreadOK(t)'
    PROVE  IInv'
<1>1. Typed'
  <2>1. last' \in [Pages -> 0..MaxMods]
    BY DEF IInv, Typed
  <2> QED
    BY <2>1, TypedStep DEF IInv
<1>2. \A u \in Threads : ThreadOK(u)'
  <2> SUFFICES ASSUME NEW u \in Threads, u # t PROVE ThreadOK(u)'
    OBVIOUS
  <2>1. CASE th[u].pc \in Owning
    <3>1. th[u].blk # b
      BY <2>1 DEF OwnersApart, IInv
    <3> QED
      BY <3>1, <2>1 DEF ThreadOK, IInv, Typed
  <2>2. CASE th[u].pc \notin Owning
    BY <2>2 DEF ThreadOK, IInv, Typed, Owning
  <2> QED BY <2>1, <2>2
<1>3. \A c \in Blocks : BlockOK(c)'
  BY DEF BlockOK, IInv, Typed
<1>4. HashOK'
  BY DEF HashOK, IInv, Typed
<1>5. FlagsEnd'
  <2> SUFFICES ASSUME NEW c \in lru PROVE 
       /\ blk'[c].target => \E u \in Threads :
            th'[u].blk = c /\ th'[u].pc \in {"rw", "written", "remove"}
       /\ blk'[c].use => \E u \in Threads : th'[u].blk = c /\ th'[u].pc = "read"
    BY DEF FlagsEnd
  <2>1. CASE c = b
    BY <2>1 DEF IInv, Typed, Owning
  <2>2. CASE c # b
    BY <2>2 DEF FlagsEnd, IInv, Typed
  <2> QED BY <2>1, <2>2
<1>6. OwnersApart'
  BY DEF OwnersApart, IInv, Typed
<1>7. FixExact'
  <2>1. \A u \in Threads : /\ th'[u].pc \in Fixing <=> th[u].pc \in Fixing
                           /\ th[u].pc \in Fixing => th'[u].blk = th[u].blk
    BY DEF IInv, Typed, Fixing, Owning
  <2>2. \A c \in Blocks : blk'[c].fix = blk[c].fix
    BY DEF IInv, Typed
  <2> QED BY <2>1, <2>2, FixersStay
<1> QED
  BY <1>1, <1>2, <1>3, <1>4, <1>5, <1>6, <1>7 DEF IInv

\* A thread takes a block of the LRU list in hand to write it.
LEMMA TakeStep ==
    ASSUME IInv, NEW t \in Threads, NEW R \in ThreadState, th' = [th EXCEPT ![t] = R],
           NEW b \in Blocks, NEW B \in Block, blk' = [blk EXCEPT ![b] = B],
           UNCHANGED <<hash, free, lru, disk, log, last, fail>>,
           b \in lru, ~Flagged(b), blk[b].io = "NONE",
           B.state = blk[b].state, B.page = blk[b].page, B.fix = blk[b].fix,
           B.use = blk[b].use, B.io = "WRITE",
           th[t].pc \notin Owning \cup Fixing, R.pc \in {"rw", "single"}, R.blk = b,
           R.page \in Pages, R.pc = "rw" <=> B.target
    PROVE  IInv'
<1>0. blk[b].state = "FILE_PAGE" /\ \A u \in Threads : th[u].pc \in Owning => th[u].blk # b
  BY DEF IInv, BlockOK, ThreadOK, Owning, Flagged
<1>1. Typed'
  <2>1. disk' \in [Pages -> Frames] /\ log' \in 0..MaxMods /\ last' \in [Pages -> 0..MaxMods]
    BY DEF IInv, Typed
  <2> QED
    BY <2>1, TypedStep DEF IInv
<1>2. \A u \in Threads : ThreadOK(u)'
  <2> SUFFICES ASSUME NEW u \in Threads PROVE ThreadOK(u)'
    OBVIOUS
  <2>1. CASE u = t
    BY <1>0, <2>1 DEF ThreadOK, IInv, Typed, Fixing, Owning
  <2>2. CASE u # t /\ th[u].pc \in Owning
    BY <1>0, <2>2 DEF ThreadOK, IInv, Typed
  <2>3. CASE u # t /\ th[u].pc \notin Owning
    BY <2>3 DEF ThreadOK, IInv, Typed, Owning
  <2> QED BY <2>1, <2>2, <2>3
<1>3. \A c \in Blocks : BlockOK(c)'
  BY DEF BlockOK, IInv, Typed
<1>4. HashOK'
  BY DEF HashOK, IInv, Typed
<1>5. FlagsEnd'
  BY DEF FlagsEnd, IInv, Typed, Owning, Flagged
<1>6. OwnersApart'
  BY <1>0 DEF OwnersApart, IInv, Typed
<1>7. FixExact'
  <2>1. \A u \in Threads : /\ th'[u].pc \in Fixing <=> th[u].pc \in Fixing
                           /\ th[u].pc \in Fixing => th'[u].blk = th[u].blk
    BY DEF IInv, Typed, Fixing, Owning
  <2>2. \A c \in Blocks : blk'[c].fix = blk[c].fix
    BY DEF IInv, Typed
  <2> QED BY <2>1, <2>2, FixersStay
<1> QED
  BY <1>1, <1>2, <1>3, <1>4, <1>5, <1>6, <1>7 DEF IInv


\* A step of an I/O thread or of the page cleaner on a page no thread has in hand.
LEMMA IoStep ==
    ASSUME IInv, UNCHANGED th,
           NEW b \in Blocks, NEW B \in Block, blk' = [blk EXCEPT ![b] = B],
           UNCHANGED <<hash, free, lru, last, fail>>,
           disk' \in [Pages -> Frames], log' \in 0..MaxMods,
           blk[b].state = "FILE_PAGE", \A u \in Threads : th[u].pc \in Owning => th[u].blk # b,
           B.state = blk[b].state, B.page = blk[b].page, B.fix = blk[b].fix,
           B.use = blk[b].use, B.target = blk[b].target
    PROVE  IInv'
<1>1. Typed'
  <2>1. blk' \in [Blocks -> Block]
    BY DEF IInv, Typed
  <2> QED
    BY <2>1 DEF IInv, Typed
<1>2. \A u \in Threads : ThreadOK(u)'
  <2> SUFFICES ASSUME NEW u \in Threads PROVE ThreadOK(u)'
    OBVIOUS
  <2>1. CASE th[u].pc \in Owning
    BY <2>1 DEF ThreadOK, IInv, Typed
  <2>2. CASE th[u].pc \notin Owning
    BY <2>2 DEF ThreadOK, IInv, Typed, Owning
  <2> QED BY <2>1, <2>2
<1>3. \A c \in Blocks : BlockOK(c)'
  BY DEF BlockOK, IInv, Typed
<1>4. HashOK'
  BY DEF HashOK, IInv, Typed
<1>5. FlagsEnd'
  BY DEF FlagsEnd, IInv, Typed
<1>6. OwnersApart'
  BY DEF OwnersApart, IInv
<1>7. FixExact'
  <2>2. \A c \in Blocks : blk'[c].fix = blk[c].fix
    BY DEF IInv, Typed
  <2> QED BY <2>2, FixersStay
<1> QED
  BY <1>1, <1>2, <1>3, <1>4, <1>5, <1>6, <1>7 DEF IInv

\* What Forget leaves of the threads.
LEMMA Forgotten ==
    ASSUME IInv, NEW b, NEW t \in Threads \cup {NoBlock}, NEW pc \in Places, Forget(b, t, pc)
    PROVE  /\ th' \in [Threads -> ThreadState]
           /\ \A u \in Threads :
                /\ th'[u].pc = IF u = t THEN pc ELSE th[u].pc
                /\ th'[u].page = th[u].page /\ th'[u].sync = th[u].sync
                /\ th'[u].blk = th[u].blk /\ th'[u].latch = th[u].latch
<1> DEFINE R(u) == [th[u] EXCEPT !.pc = IF u = t THEN pc ELSE @,
                                 !.scan = @ \/ (u = t /\ th[u].pc = "reuse"),
                                 !.same = @ /\ th[u].saved # b]
<1>1. \A u \in Threads : th[u] \in ThreadState
  BY DEF IInv, Typed
<1>2. \A u \in Threads :
         /\ R(u) \in ThreadState
         /\ R(u).pc = IF u = t THEN pc ELSE th[u].pc
         /\ R(u).page = th[u].page /\ R(u).sync = th[u].sync /\ R(u).blk = th[u].blk
  BY <1>1, ZenonT(30) DEF ThreadState
<1>4. \A u \in Threads : R(u).latch = th[u].latch
  BY <1>1, ZenonT(30) DEF ThreadState
<1>3. th' = [u \in Threads |-> R(u)]
  BY DEF Forget
<1> HIDE DEF R
<1> QED
  BY <1>2, <1>3, <1>4

\* A page that can be replaced is in no thread's hands, and no thread is between
\* finding it and fixing it.
LEMMA ReplaceableIsUnheld ==
    ASSUME IInv, NEW b \in Blocks, buf_flush_ready_for_replace(b), HashLockFree(blk[b].page)
    PROVE  /\ ~blk[b].use /\ ~blk[b].target /\ blk[b].io = "NONE" /\ blk[b].fix = 0
           /\ blk[b].state = "FILE_PAGE" /\ blk[b].page \in Pages /\ ~blk[b].dirty
           /\ \A u \in Threads : th[u].pc \in Owning \cup Fixing \cup {"fix"} => th[u].blk # b
<1>0. /\ b \in lru /\ ~blk[b].dirty /\ blk[b].fix = 0
      /\ ~blk[b].use /\ ~blk[b].target /\ blk[b].io = "NONE"
      /\ blk[b].state = "FILE_PAGE" /\ blk[b].page \in Pages
  BY DEF buf_flush_ready_for_replace, Flagged, IInv, BlockOK
<1>1. \A u \in Threads : th[u].pc \in Owning \cup Fixing \cup {"fix"} => th[u].blk # b
  <2> SUFFICES ASSUME NEW u \in Threads, th[u].pc \in Owning \cup Fixing \cup {"fix"}, th[u].blk = b
               PROVE  FALSE
    OBVIOUS
  <2>1. CASE th[u].pc \in Owning
    BY <1>0, <2>1 DEF IInv, ThreadOK, Owning
  <2>2. CASE th[u].pc \in Fixing
    <3>1. Fixers(b) = {}
      BY <1>0, FixersFinite, FS_EmptySet DEF IInv, FixExact
    <3> QED
      BY <2>2, <3>1 DEF Fixers
  <2>3. CASE th[u].pc = "fix"
    <3>1. th[u].page \in Pages /\ hash[th[u].page] = b
      BY <2>3 DEF IInv, ThreadOK
    <3> QED
      BY <1>0, <2>3, <3>1 DEF IInv, HashOK, HashLockFree
  <2> QED
    BY <2>1, <2>2, <2>3
<1> QED
  BY <1>0, <1>1

\* buf_LRU_free_page, by the page cleaner or by a thread that needs a block.
LEMMA FreePageStep ==
    ASSUME IInv, NEW b \in Blocks, NEW t \in Threads \cup {NoBlock},
           NEW pc \in {"free", "idle"},
           t \in Threads => th[t].pc \in {"free", "reuse"} /\ pc = "free",
           buf_LRU_free_page(b, t, pc)
    PROVE  IInv'
<1>0. /\ ~blk[b].use /\ ~blk[b].target /\ blk[b].io = "NONE" /\ blk[b].fix = 0
      /\ blk[b].state = "FILE_PAGE" /\ blk[b].page \in Pages /\ HashLockFree(blk[b].page)
      /\ \A u \in Threads : th[u].pc \in Owning \cup Fixing \cup {"fix"} => th[u].blk # b
  BY ReplaceableIsUnheld DEF buf_LRU_free_page
<1>1. \A u \in Threads : th[u].pc \in Owning \cup Fixing \cup {"fix"} => th[u].blk # b
  BY <1>0
<1> DEFINE B == Freed(b)
<1>2. /\ B \in Block /\ B.state = "NOT_USED" /\ B.page = NoPage /\ B.fix = 0
      /\ ~B.use /\ B.io = "NONE"
  <2>1. [page |-> NoPage, lsn |-> 0] \in Frames
    BY ConstantsAssumption DEF Frames
  <2>2. blk[b] \in Block
    BY DEF IInv, Typed
  <2> QED
    BY <1>0, <2>1, <2>2 DEF Block, Freed
<1>3. /\ blk' = [blk EXCEPT ![b] = B]
      /\ hash' = [hash EXCEPT ![blk[b].page] = NoBlock]
      /\ free' = free \cup {b} /\ lru' = lru \ {b}
      /\ UNCHANGED <<disk, log, last, fail>> /\ Forget(b, t, pc)
  BY DEF buf_LRU_free_page
<1> HIDE DEF B
<1>4. /\ th' \in [Threads -> ThreadState]
      /\ \A u \in Threads :
                /\ th'[u].pc = IF u = t THEN pc ELSE th[u].pc
                /\ th'[u].page = th[u].page /\ th'[u].sync = th[u].sync
                /\ th'[u].blk = th[u].blk
  <2>1. pc \in Places
    BY DEF Places
  <2> QED
    BY <1>3, <2>1, Forgotten
<1>5. \A u \in Threads : \/ th'[u].pc = th[u].pc
                         \/ th'[u].pc = "free" /\ th[u].pc \in {"free", "reuse"}
  BY <1>4, NamesAssumption
<1>6. Typed'
  <2>1. blk' \in [Blocks -> Block]
    BY <1>2, <1>3 DEF IInv, Typed
  <2>2. hash' \in [Pages -> Blocks \cup {NoBlock}]
    BY <1>3 DEF IInv, Typed
  <2> QED
    BY <1>3, <1>4, <2>1, <2>2 DEF IInv, Typed
<1>7. \A u \in Threads : ThreadOK(u)'
  <2> SUFFICES ASSUME NEW u \in Threads PROVE ThreadOK(u)'
    OBVIOUS
  <2>0. th'[u].pc = "fix" => hash'[th'[u].page] = th'[u].blk
    BY <1>0, <1>3, <1>4, <1>5 DEF ThreadOK, IInv, Typed, HashLockFree
  <2>1. CASE th[u].pc \in Owning \cup Fixing \cup {"fix"}
    <3>1. th'[u].pc = th[u].pc
      BY <1>5, <2>1 DEF Owning, Fixing
    <3>2. th[u].blk \in Blocks /\ blk'[th[u].blk] = blk[th[u].blk]
      BY <1>1, <1>3, <2>1 DEF ThreadOK, IInv, Typed
    <3> QED
      BY <1>4, <2>0, <3>1, <3>2 DEF ThreadOK, IInv
  <2>2. CASE th[u].pc \notin Owning \cup Fixing \cup {"fix"}
    BY <1>4, <1>5, <2>0, <2>2 DEF ThreadOK, IInv, Owning, Fixing
  <2> QED BY <2>1, <2>2
<1>8. \A c \in Blocks : BlockOK(c)'
  BY <1>2, <1>3 DEF BlockOK, IInv, Typed
<1>9. HashOK'
  BY <1>0, <1>2, <1>3, NamesAssumption DEF HashOK, IInv, Typed
<1>10. FlagsEnd'
  BY <1>3, <1>4, <1>5 DEF FlagsEnd, IInv, Typed
<1>11. OwnersApart'
  BY <1>4, <1>5 DEF OwnersApart, IInv, Owning
<1>12. FixExact'
  <2>1. \A u \in Threads : /\ th'[u].pc \in Fixing <=> th[u].pc \in Fixing
                           /\ th[u].pc \in Fixing => th'[u].blk = th[u].blk
    BY <1>4, <1>5 DEF Fixing
  <2>2. \A c \in Blocks : blk'[c].fix = blk[c].fix
    BY <1>0, <1>2, <1>3 DEF IInv, Typed
  <2> QED BY <2>1, <2>2, FixersStay
<1> QED
  BY <1>6, <1>7, <1>8, <1>9, <1>10, <1>11, <1>12 DEF IInv


\* A thread takes a block out of the free list.
LEMMA GetFreeStep ==
    ASSUME IInv, NEW t \in Threads, buf_LRU_get_free_only(t)
    PROVE  IInv'
<1>0. PICK b \in free : /\ th[t].pc = "free" /\ free' = free \ {b}
                        /\ blk' = [blk EXCEPT ![b].state = "READY_FOR_USE"]
                        /\ th' = [th EXCEPT ![t].pc = "init", ![t].blk = b]
                        /\ UNCHANGED <<hash, lru, disk, log, last, fail>>
  BY DEF buf_LRU_get_free_only
<1>1. /\ b \in Blocks /\ blk[b].state = "NOT_USED" /\ blk[b].io = "NONE" /\ ~blk[b].use
      /\ b \notin lru /\ th[t].page \in Pages
  BY <1>0 DEF IInv, Typed, BlockOK, ThreadOK
<1>2. \A u \in Threads : th[u].pc \in Owning \cup Fixing \cup {"fix"} => th[u].blk # b
  BY <1>1 DEF IInv, ThreadOK, HashOK, Owning
<1> DEFINE B == [blk[b] EXCEPT !.state = "READY_FOR_USE"]
           R == [th[t] EXCEPT !.pc = "init", !.blk = b]
<1>3. /\ B \in Block /\ B.state = "READY_FOR_USE" /\ B.page = blk[b].page
      /\ B.fix = blk[b].fix /\ B.io = "NONE" /\ ~B.use
  BY <1>1 DEF IInv, Typed, Block
<1>4. /\ R \in ThreadState /\ R.pc = "init" /\ R.blk = b
      /\ R.page = th[t].page /\ R.sync = th[t].sync
  BY <1>1, ZenonT(30) DEF IInv, Typed, ThreadState, Places
<1>5. blk' = [blk EXCEPT ![b] = B] /\ th' = [th EXCEPT ![t] = R]
  BY <1>0 DEF IInv, Typed
<1> HIDE DEF B, R
<1>6. Typed'
  <2>1. blk' \in [Blocks -> Block]
    BY <1>3, <1>5 DEF IInv, Typed
  <2>2. th' \in [Threads -> ThreadState]
    BY <1>4, <1>5 DEF IInv, Typed
  <2> QED
    BY <1>0, <2>1, <2>2 DEF IInv, Typed
<1>7. \A u \in Threads : ThreadOK(u)'
  <2> SUFFICES ASSUME NEW u \in Threads PROVE ThreadOK(u)'
    OBVIOUS
  <2>1. CASE u = t
    BY <1>1, <1>3, <1>4, <1>5, <2>1 DEF ThreadOK, IInv, Typed, Owning, Fixing
  <2>2. CASE u # t /\ th[u].pc \in Owning \cup Fixing \cup {"fix"}
    BY <1>0, <1>2, <1>5, <2>2 DEF ThreadOK, IInv, Typed
  <2>3. CASE u # t /\ th[u].pc \notin Owning \cup Fixing \cup {"fix"}
    BY <1>5, <2>3 DEF ThreadOK, IInv, Typed, Owning, Fixing
  <2> QED BY <2>1, <2>2, <2>3
<1>8. \A c \in Blocks : BlockOK(c)'
  BY <1>0, <1>1, <1>3, <1>5 DEF BlockOK, IInv, Typed
<1>9. HashOK'
  BY <1>0, <1>1, <1>3, <1>5 DEF HashOK, IInv, Typed
<1>10. FlagsEnd'
  BY <1>0, <1>1, <1>5 DEF FlagsEnd, IInv, Typed
<1>11. OwnersApart'
  BY <1>2, <1>4, <1>5 DEF OwnersApart, IInv, Typed
<1>12. FixExact'
  <2>1. \A u \in Threads : /\ th'[u].pc \in Fixing <=> th[u].pc \in Fixing
                           /\ th[u].pc \in Fixing => th'[u].blk = th[u].blk
    BY <1>0, <1>4, <1>5 DEF IInv, Typed, Fixing
  <2>2. \A c \in Blocks : blk'[c].fix = blk[c].fix
    BY <1>1, <1>3, <1>5 DEF IInv, Typed
  <2> QED BY <2>1, <2>2, FixersStay
<1> QED
  BY <1>6, <1>7, <1>8, <1>9, <1>10, <1>11, <1>12 DEF IInv

\* The victim leaves the page hash and the LRU list for the thread that took it.
LEMMA RemoveStep ==
    ASSUME IInv, NEW t \in Threads, buf_LRU_block_remove_hashed_for_rw_cmd(t)
    PROVE  IInv'
<1> DEFINE b == th[t].blk
           B == Taken(b)
<1>0. /\ th[t].pc = "remove" /\ b \in Blocks /\ HashLockFree(blk[b].page)
      /\ blk[b].state = "FILE_PAGE" /\ blk[b].page \in Pages
      /\ UNCHANGED <<free, disk, log, last>>
      /\ fail' \in {"no", "io_fix", "buf_fix_count", "oldest_modification"}
  BY DEF buf_LRU_block_remove_hashed_for_rw_cmd, RemoveAsserts, IInv, ThreadOK, BlockOK, Owning
<1>1. CASE RemoveAsserts(b) # "no"
  <2>1. UNCHANGED <<blk, hash, lru, th>>
    BY <1>1 DEF buf_LRU_block_remove_hashed_for_rw_cmd
  <2> QED
    BY <1>0, <2>1 DEF IInv, Typed, ThreadOK, BlockOK, HashOK, FlagsEnd, OwnersApart, FixExact,
                      Fixers
<1>2. CASE RemoveAsserts(b) = "no"
  <2>1. /\ blk[b].io = "NONE" /\ blk[b].fix = 0
    BY <1>2 DEF RemoveAsserts
  <2>2. /\ blk' = [blk EXCEPT ![b] = B]
        /\ hash' = [hash EXCEPT ![blk[b].page] = NoBlock]
        /\ lru' = lru \ {b} /\ Forget(b, t, "init")
    BY <1>2 DEF buf_LRU_block_remove_hashed_for_rw_cmd
  <2>3. \A u \in Threads : u # t /\ th[u].pc \in Owning \cup Fixing \cup {"fix"} => th[u].blk # b
    <3> SUFFICES ASSUME NEW u \in Threads, u # t, th[u].pc \in Owning \cup Fixing \cup {"fix"},
                        th[u].blk = b
                 PROVE  FALSE
      OBVIOUS
    <3>1. CASE th[u].pc \in Owning
      BY <1>0, <3>1 DEF IInv, OwnersApart, Owning
    <3>2. CASE th[u].pc \in Fixing
      <4>1. Fixers(b) = {}
        BY <1>0, <2>1, FixersFinite, FS_EmptySet DEF IInv, FixExact
      <4> QED
        BY <3>2, <4>1 DEF Fixers
    <3>3. CASE th[u].pc = "fix"
      <4>1. th[u].page \in Pages /\ hash[th[u].page] = b
        BY <3>3 DEF IInv, ThreadOK
      <4> QED
        BY <1>0, <3>3, <4>1 DEF IInv, HashOK, HashLockFree
    <3> QED
      BY <3>1, <3>2, <3>3
  <2>4. /\ B \in Block /\ B.state = "READY_FOR_USE" /\ B.fix = blk[b].fix /\ B.io = "NONE"
        /\ B.frame = blk[b].frame
    <3>1. blk[b] \in Block
      BY <1>0 DEF IInv, Typed
    <3> QED
      BY <2>1, <3>1 DEF Block, Taken
  <2> HIDE DEF B
  <2>5. /\ th' \in [Threads -> ThreadState]
        /\ \A u \in Threads :
                /\ th'[u].pc = IF u = t THEN "init" ELSE th[u].pc
                /\ th'[u].page = th[u].page /\ th'[u].sync = th[u].sync
                /\ th'[u].blk = th[u].blk
    <3>1. "init" \in Places
      BY DEF Places
    <3> QED
      BY <2>2, <3>1, Forgotten
  <2> HIDE DEF b
  <2>6. Typed'
    <3>1. blk' \in [Blocks -> Block]
      BY <2>2, <2>4 DEF IInv, Typed
    <3>2. hash' \in [Pages -> Blocks \cup {NoBlock}]
      BY <2>2 DEF IInv, Typed
    <3> QED
      BY <1>0, <2>2, <2>5, <3>1, <3>2 DEF IInv, Typed
  <2>7. \A u \in Threads : ThreadOK(u)'
    <3> SUFFICES ASSUME NEW u \in Threads PROVE ThreadOK(u)'
      OBVIOUS
    <3>1. CASE u = t
      <4>1. th'[u].pc = "init" /\ th'[u].blk = b /\ blk'[b] = B
        BY <1>0, <2>2, <2>5, <3>1 DEF IInv, Typed, b
      <4>2. th[u].page \in Pages /\ (th[u].sync \/ blk[b].frame.page = ZeroPage)
        BY <1>0, <3>1 DEF IInv, ThreadOK, b
      <4> QED
        BY <1>0, <2>4, <2>5, <4>1, <4>2 DEF ThreadOK, Owning, Fixing
    <3>2. CASE u # t /\ th[u].pc \in Owning \cup Fixing \cup {"fix"}
      <4>1. th[u].blk \in Blocks /\ blk'[th[u].blk] = blk[th[u].blk]
        BY <2>2, <2>3, <3>2 DEF ThreadOK, IInv, Typed
      <4>2. th[u].pc = "fix" => hash'[th[u].page] = th[u].blk
        BY <1>0, <2>2 DEF ThreadOK, IInv, Typed, HashLockFree
      <4> QED
        BY <2>5, <3>2, <4>1, <4>2 DEF ThreadOK, IInv
    <3>3. CASE u # t /\ th[u].pc \notin Owning \cup Fixing \cup {"fix"}
      BY <2>5, <3>3 DEF ThreadOK, IInv, Owning, Fixing
    <3> QED BY <3>1, <3>2, <3>3
  <2>8. \A c \in Blocks : BlockOK(c)'
    BY <1>0, <2>2, <2>4 DEF BlockOK, IInv, Typed
  <2>9. HashOK'
    BY <1>0, <2>2, <2>4, NamesAssumption DEF HashOK, IInv, Typed
  <2>10. FlagsEnd'
    <3> SUFFICES ASSUME NEW c \in lru, c # b PROVE
         /\ blk'[c].target => \E u \in Threads :
              th'[u].blk = c /\ th'[u].pc \in {"rw", "written", "remove"}
         /\ blk'[c].use => \E u \in Threads : th'[u].blk = c /\ th'[u].pc = "read"
      BY <2>2 DEF FlagsEnd
    <3>1. blk'[c] = blk[c]
      BY <2>2 DEF IInv, Typed
    <3>2. \A u \in Threads : th[u].blk = c => u # t
      BY DEF b
    <3> QED
      BY <2>5, <3>1, <3>2 DEF FlagsEnd, IInv
  <2>11. OwnersApart'
    BY <1>0, <2>5 DEF OwnersApart, IInv, Owning
  <2>12. FixExact'
    <3>1. \A u \in Threads : /\ th'[u].pc \in Fixing <=> th[u].pc \in Fixing
                             /\ th[u].pc \in Fixing => th'[u].blk = th[u].blk
      BY <1>0, <2>5 DEF Fixing
    <3>2. \A c \in Blocks : blk'[c].fix = blk[c].fix
      BY <1>0, <2>2, <2>4 DEF IInv, Typed
    <3> QED BY <3>1, <3>2, FixersStay
  <2> QED
    BY <2>6, <2>7, <2>8, <2>9, <2>10, <2>11, <2>12 DEF IInv
<1> QED
  BY <1>1, <1>2


\* The block becomes the block of the page asked for.
LEMMA InitStep ==
    ASSUME IInv, NEW t \in Threads, InitForRead(t)
    PROVE  IInv'
<1> DEFINE b == th[t].blk
           p == th[t].page
           B == Inited(b, p)
           R == IF th[t].sync THEN [th[t] EXCEPT !.pc = "read"]
                ELSE [th[t] EXCEPT !.pc = "idle", !.blk = NoBlock]
<1>0. /\ th[t].pc = "init" /\ b \in Blocks /\ p \in Pages /\ hash[p] = NoBlock
      /\ blk[b].state = "READY_FOR_USE"
      /\ th[t].sync \/ (blk[b].use => blk[b].frame.page = ZeroPage)
      /\ b \notin free
      /\ UNCHANGED <<free, disk, log, last, fail>>
      /\ hash' = [hash EXCEPT ![p] = b] /\ lru' = lru \cup {b}
      /\ blk' = [blk EXCEPT ![b] = B]
  BY DEF InitForRead, IInv, ThreadOK, BlockOK, Owning
<1>1. \A u \in Threads : u # t /\ th[u].pc \in Owning \cup Fixing \cup {"fix"} => th[u].blk # b
  BY <1>0 DEF IInv, ThreadOK, HashOK, Owning, OwnersApart
<1>2. /\ B \in Block /\ B.state = "FILE_PAGE" /\ B.page = p /\ B.io = "READ" /\ B.fix = 0
      /\ ~B.target /\ B.use = (blk[b].use /\ blk[b].frame.page = p)
  <2>1. blk[b] \in Block /\ p \in Pages
    BY <1>0 DEF IInv, Typed
  <2>2. PICK zero \in Int : zero = 0
    OBVIOUS
  <2>3. PICK no \in BOOLEAN : no = FALSE
    OBVIOUS
  <2> DEFINE use == blk[b].use /\ blk[b].frame.page = p
  <2>4. use \in BOOLEAN
    OBVIOUS
  <2>5. B = [blk[b] EXCEPT !.state = "FILE_PAGE", !.page = p, !.io = "READ",
                   !.fix = 0, !.dirty = FALSE, !.target = FALSE, !.use = use]
    BY DEF Inited
  <2> HIDE DEF use, B, p, b
  <2>6. B = [blk[b] EXCEPT !.state = "FILE_PAGE", !.page = p, !.io = "READ",
                   !.fix = zero, !.dirty = no, !.target = no, !.use = use]
    BY <2>5, <2>2, <2>3
  <2>7. /\ B \in Block /\ B.state = "FILE_PAGE" /\ B.page = p /\ B.io = "READ" /\ B.fix = 0
        /\ B.target = FALSE /\ B.use = use
    BY <2>1, <2>4, <2>2, <2>3, <2>6 DEF Block
  <2> QED
    BY <2>7 DEF use
<1>3. B.use => th[t].sync
  BY <1>0, <1>2, NamesAssumption
<1>4. th' = [th EXCEPT ![t] = R]
  BY DEF InitForRead, IInv, Typed
<1>5. /\ R \in ThreadState /\ R.page = p /\ R.sync = th[t].sync
      /\ \/ R.pc = "read" /\ R.blk = b /\ th[t].sync
         \/ R.pc = "idle" /\ ~th[t].sync
  <2>1. th[t] \in ThreadState
    BY DEF IInv, Typed
  <2>2. CASE th[t].sync
    <3>1. R = [th[t] EXCEPT !.pc = "read"] /\ "read" \in Places
      BY <2>2 DEF Places
    <3>2. R \in ThreadState /\ R.page = p /\ R.sync = th[t].sync /\ R.pc = "read" /\ R.blk = b
      BY <2>1, <3>1 DEF ThreadState
    <3> HIDE DEF R
    <3> QED
      BY <2>2, <3>2
  <2>3. CASE ~th[t].sync
    BY <2>1, <2>3 DEF ThreadState, Places
  <2> QED
    BY <2>2, <2>3
<1> HIDE DEF B, R, b, p
<1>6. Typed'
  <2>1. blk' \in [Blocks -> Block]
    BY <1>0, <1>2 DEF IInv, Typed
  <2>2. th' \in [Threads -> ThreadState]
    BY <1>4, <1>5 DEF IInv, Typed
  <2>3. hash' \in [Pages -> Blocks \cup {NoBlock}]
    BY <1>0 DEF IInv, Typed
  <2> QED
    BY <1>0, <2>1, <2>2, <2>3 DEF IInv, Typed
<1>7. \A u \in Threads : ThreadOK(u)'
  <2> SUFFICES ASSUME NEW u \in Threads PROVE ThreadOK(u)'
    OBVIOUS
  <2>1. CASE u = t
    BY <1>0, <1>2, <1>4, <1>5, <2>1 DEF ThreadOK, IInv, Typed, Owning, Fixing
  <2>2. CASE u # t /\ th[u].pc \in Owning \cup Fixing \cup {"fix"}
    <3>1. th[u].blk \in Blocks /\ blk'[th[u].blk] = blk[th[u].blk] /\ th'[u] = th[u]
      BY <1>0, <1>1, <1>4, <2>2 DEF ThreadOK, IInv, Typed
    <3>2. th[u].pc = "fix" => hash'[th[u].page] = th[u].blk
      BY <1>0, <2>2, NamesAssumption DEF ThreadOK, IInv, Typed
    <3> QED
      BY <3>1, <3>2, <2>2 DEF ThreadOK, IInv
  <2>3. CASE u # t /\ th[u].pc \notin Owning \cup Fixing \cup {"fix"}
    BY <1>4, <2>3 DEF ThreadOK, IInv, Typed, Owning, Fixing
  <2> QED BY <2>1, <2>2, <2>3
<1>8. \A c \in Blocks : BlockOK(c)'
  BY <1>0, <1>2 DEF BlockOK, IInv, Typed
<1>9. HashOK'
  BY <1>0, <1>2, NamesAssumption DEF HashOK, IInv, Typed
<1>10. FlagsEnd'
  <2> SUFFICES ASSUME NEW c \in lru \cup {b} PROVE
       /\ blk'[c].target => \E u \in Threads :
            th'[u].blk = c /\ th'[u].pc \in {"rw", "written", "remove"}
       /\ blk'[c].use => \E u \in Threads : th'[u].blk = c /\ th'[u].pc = "read"
    BY <1>0 DEF FlagsEnd
  <2>1. CASE c = b
    BY <1>0, <1>2, <1>3, <1>4, <1>5, <2>1 DEF IInv, Typed
  <2>2. CASE c # b
    BY <1>0, <1>4, <2>2 DEF FlagsEnd, IInv, Typed
  <2> QED BY <2>1, <2>2
<1>11. OwnersApart'
  BY <1>1, <1>4, <1>5 DEF OwnersApart, IInv, Typed, Owning
<1>12. FixExact'
  <2>1. \A u \in Threads : /\ th'[u].pc \in Fixing <=> th[u].pc \in Fixing
                           /\ th[u].pc \in Fixing => th'[u].blk = th[u].blk
    BY <1>0, <1>4, <1>5 DEF IInv, Typed, Fixing
  <2>2. Fixers(b) = {}
    BY <1>0, <1>1 DEF Fixers, Fixing
  <2>3. \A c \in Blocks : blk'[c].fix = blk[c].fix \/ (Fixers(c) = {} /\ blk'[c].fix = 0)
    BY <1>0, <1>2, <2>2 DEF IInv, Typed
  <2> QED BY <2>1, <2>3, FixersStay
<1> QED
  BY <1>6, <1>7, <1>8, <1>9, <1>10, <1>11, <1>12 DEF IInv

\* The page is in the pool already: the block goes back, unless a RW command
\* brought it.
LEMMA AlreadyStep ==
    ASSUME IInv, NEW t \in Threads, AlreadyInPool(t)
    PROVE  IInv'
<1> DEFINE b == th[t].blk
           B == IF GivenBack(b) THEN Freed(b) ELSE blk[b]
           R == [th[t] EXCEPT !.blk = NoBlock,
                              !.pc = IF th[t].sync THEN "lookup" ELSE "idle",
                              !.retries = Min0({@ + 1, MaxRetries})]
<1>0. /\ th[t].pc = "init" /\ b \in Blocks /\ th[t].page \in Pages
      /\ blk[b].state = "READY_FOR_USE" /\ blk[b].io = "NONE" /\ b \notin free
      /\ UNCHANGED <<hash, lru, disk, log, last>>
      /\ fail' \in {"no", "retries"}
  BY DEF AlreadyInPool, IInv, ThreadOK, BlockOK, Owning
<1>1. \A u \in Threads : u # t /\ th[u].pc \in Owning \cup Fixing \cup {"fix"} => th[u].blk # b
  BY <1>0 DEF IInv, ThreadOK, HashOK, Owning, OwnersApart
<1>2. blk' = [blk EXCEPT ![b] = B]
  BY <1>0 DEF AlreadyInPool, IInv, Typed
<1>3. free' = IF GivenBack(b) THEN free \cup {b} ELSE free
  BY DEF AlreadyInPool
<1>4. /\ B \in Block /\ B.fix = blk[b].fix /\ B.io = "NONE" /\ B.use = blk[b].use
      /\ B.state = IF GivenBack(b) THEN "NOT_USED" ELSE "READY_FOR_USE"
  <2>1. [page |-> NoPage, lsn |-> 0] \in Frames
    BY ConstantsAssumption DEF Frames
  <2>2. blk[b] \in Block
    BY <1>0 DEF IInv, Typed
  <2> QED
    BY <1>0, <2>1, <2>2 DEF Block, Freed
<1>5. th' = [th EXCEPT ![t] = R]
  BY DEF AlreadyInPool, IInv, Typed
<1>6. R \in ThreadState /\ R.page = th[t].page /\ R.pc \in {"lookup", "idle"}
  <2>1. th[t] \in ThreadState
    BY DEF IInv, Typed
  <2>2. Min0({th[t].retries + 1, MaxRetries}) \in 0..MaxRetries
    <3>1. th[t].retries \in Nat /\ th[t].retries + 1 \in Nat /\ MaxRetries \in Nat
      BY <2>1, ConstantsAssumption DEF ThreadState
    <3>2. /\ Min0({th[t].retries + 1, MaxRetries}) \in {th[t].retries + 1, MaxRetries}
          /\ Min0({th[t].retries + 1, MaxRetries}) <= MaxRetries
      BY <3>1, MinOfTwo
    <3> QED
      BY <3>1, <3>2
  <2> HIDE DEF R
  <2>3. th[t].retries \in 0..MaxRetries
    BY <2>1 DEF ThreadState
  <2> QED
    BY <2>1, <2>2 DEF ThreadState, Places, R
<1>7. GivenBack(b) => ~blk[b].use
  BY DEF GivenBack
<1> HIDE DEF B, R, b
<1>8. Typed'
  <2>1. blk' \in [Blocks -> Block]
    BY <1>2, <1>4 DEF IInv, Typed
  <2>2. th' \in [Threads -> ThreadState]
    BY <1>5, <1>6 DEF IInv, Typed
  <2> QED
    BY <1>0, <1>3, <2>1, <2>2 DEF IInv, Typed
<1>9. \A u \in Threads : ThreadOK(u)'
  <2> SUFFICES ASSUME NEW u \in Threads PROVE ThreadOK(u)'
    OBVIOUS
  <2>1. CASE u = t
    BY <1>0, <1>5, <1>6, <2>1 DEF ThreadOK, IInv, Typed, Owning, Fixing
  <2>2. CASE u # t /\ th[u].pc \in Owning \cup Fixing \cup {"fix"}
    BY <1>0, <1>1, <1>2, <1>5, <2>2 DEF ThreadOK, IInv, Typed
  <2>3. CASE u # t /\ th[u].pc \notin Owning \cup Fixing \cup {"fix"}
    BY <1>5, <2>3 DEF ThreadOK, IInv, Typed, Owning, Fixing
  <2> QED BY <2>1, <2>2, <2>3
<1>10. \A c \in Blocks : BlockOK(c)'
  BY <1>0, <1>2, <1>3, <1>4, <1>7 DEF BlockOK, IInv, Typed
<1>11. HashOK'
  BY <1>0, <1>2, <1>4 DEF HashOK, IInv, Typed
<1>12. FlagsEnd'
  <2>1. b \notin lru
    BY <1>0 DEF IInv, BlockOK
  <2> QED
    BY <1>0, <1>2, <1>5, <2>1 DEF FlagsEnd, IInv, Typed
<1>13. OwnersApart'
  BY <1>5, <1>6 DEF OwnersApart, IInv, Typed, Owning
<1>14. FixExact'
  <2>1. \A u \in Threads : /\ th'[u].pc \in Fixing <=> th[u].pc \in Fixing
                           /\ th[u].pc \in Fixing => th'[u].blk = th[u].blk
    BY <1>0, <1>5, <1>6 DEF IInv, Typed, Fixing
  <2>2. \A c \in Blocks : blk'[c].fix = blk[c].fix
    BY <1>0, <1>2, <1>4 DEF IInv, Typed
  <2> QED BY <2>1, <2>2, FixersStay
<1> QED
  BY <1>8, <1>9, <1>10, <1>11, <1>12, <1>13, <1>14 DEF IInv


-----------------------------------------------------------------------------
(* The actions.                                                            *)

\* buf_page_get_gen and buf_page_optimistic_get up to the latch.
LEMMA AcquireStep ==
    ASSUME IInv, NEW t \in Threads, Acquire(t)
    PROVE  IInv'
<1>0. /\ th[t] \in ThreadState /\ ThreadOK(t) /\ th \in [Threads -> ThreadState]
      /\ blk \in [Blocks -> Block]
  BY DEF IInv, Typed
<1>1. CASE Ask(t)
  <2>1. PICK p \in Pages, s \in BOOLEAN :
          /\ th[t].pc = "idle"
          /\ th' = [th EXCEPT ![t].pc = IF s THEN "lookup" ELSE "free",
                              ![t].page = p, ![t].sync = s,
                              ![t].scan = FALSE, ![t].retries = 0]
          /\ UNCHANGED <<blk, hash, free, lru, disk, log, last, fail>>
    BY <1>1, ZenonT(30) DEF Ask
  <2>2. PICK zero \in 0..MaxRetries : zero = 0
    BY ConstantsAssumption
  <2>3. PICK no \in BOOLEAN : no = FALSE
    OBVIOUS
  <2>4. PICK pc \in {"lookup", "free"} : pc = IF s THEN "lookup" ELSE "free"
    OBVIOUS
  <2> DEFINE R == [th[t] EXCEPT !.pc = pc, !.page = p, !.sync = s, !.scan = no, !.retries = zero]
  <2>5. R \in ThreadState /\ R.pc = pc /\ R.page = p
    <3>1. pc \in Places
      BY DEF Places
    <3> QED
      BY <1>0, <3>1 DEF ThreadState
  <2>6. th' = [th EXCEPT ![t] = R]
    BY <1>0, <2>1, <2>2, <2>3, <2>4
  <2> HIDE DEF R
  <2> QED
    BY <2>1, <2>5, <2>6, ThreadOnly DEF Owning, Fixing
<1>2. CASE Lookup(t)
  <2> DEFINE p == th[t].page
             b == hash[p]
  <2>1. th[t].pc = "lookup" /\ p \in Pages /\ b \in Blocks \cup {NoBlock}
    BY <1>0, <1>2 DEF Lookup, ThreadOK, IInv, Typed
  <2>2. UNCHANGED <<blk, hash, free, lru, disk, log, last, fail>>
    BY <1>2 DEF Lookup
  <2>3. CASE b # NoBlock /\ ~Flagged(b)
    <3> DEFINE R == [th[t] EXCEPT !.pc = "fix", !.blk = b]
    <3>1. th' = [th EXCEPT ![t] = R]
      BY <1>0, <1>2, <2>3 DEF Lookup
    <3>2. R \in ThreadState /\ R.pc = "fix" /\ R.blk = b /\ R.page = p
      BY <1>0, <2>1 DEF ThreadState, Places
    <3> HIDE DEF R
    <3> QED
      BY <2>1, <2>2, <2>3, <3>1, <3>2, ThreadOnly DEF Owning, Fixing
  <2>4. CASE ~(b # NoBlock /\ ~Flagged(b))
    <3>1. PICK no \in BOOLEAN : no = FALSE
      OBVIOUS
    <3> DEFINE R == [th[t] EXCEPT !.pc = "free", !.scan = no]
    <3>2. th' = [th EXCEPT ![t] = R]
      BY <1>0, <1>2, <2>4, <3>1 DEF Lookup
    <3>3. R \in ThreadState /\ R.pc = "free" /\ R.page = p
      BY <1>0, <2>1 DEF ThreadState, Places
    <3> HIDE DEF R
    <3> QED
      BY <2>1, <2>2, <3>2, <3>3, ThreadOnly DEF Owning, Fixing
  <2> QED
    BY <2>3, <2>4
<1>3. CASE buf_block_fix(t)
  <2> DEFINE b == th[t].blk
             B == [blk[b] EXCEPT !.fix = @ + 1]
             R == [th[t] EXCEPT !.pc = "latch"]
  <2>1. /\ th[t].pc = "fix" /\ b \in Blocks /\ th[t].page \in Pages /\ hash[th[t].page] = b
        /\ UNCHANGED <<hash, free, lru, disk, log, last, fail>>
    BY <1>0, <1>3 DEF buf_block_fix, ThreadOK
  <2>2. blk' = [blk EXCEPT ![b] = B] /\ th' = [th EXCEPT ![t] = R]
    BY <1>0, <1>3, <2>1 DEF buf_block_fix, Goto
  <2>3. /\ R \in ThreadState /\ R.pc = "latch" /\ R.blk = b /\ R.page = th[t].page
        /\ R.sync = th[t].sync
    BY <1>0 DEF ThreadState, Places
  <2>4. /\ B \in Block /\ B.fix = blk[b].fix + 1
        /\ B.state = blk[b].state /\ B.page = blk[b].page /\ B.io = blk[b].io
        /\ B.target = blk[b].target /\ B.use = blk[b].use /\ B.frame = blk[b].frame
    BY <1>0, <2>1 DEF Block
  <2>5. blk[b].state = "FILE_PAGE"
    BY <2>1 DEF IInv, HashOK
  <2> HIDE DEF R, B, b
  <2>6. FixExact'
    BY <2>1, <2>2, <2>3, <2>4, FixerJoins DEF Fixing
  <2>7. ThreadOK(t)'
    BY <1>0, <2>1, <2>2, <2>3, <2>4, <2>5 DEF ThreadOK, Fixing, Owning
  <2>8. last' \in [Pages -> 0..MaxMods]
    BY <2>1 DEF IInv, Typed
  <2> QED
    BY <2>1, <2>2, <2>3, <2>4, <2>6, <2>7, <2>8, FixStep DEF Owning
<1>4. CASE Latch(t)
  <2>1. PICK latch \in {"S", "X"} :
          /\ th[t].pc = "latch" /\ th' = [th EXCEPT ![t].pc = "latched", ![t].latch = latch]
          /\ UNCHANGED <<blk, hash, free, lru, disk, log, last, fail>>
    BY <1>4 DEF Latch
  <2> DEFINE R == [th[t] EXCEPT !.pc = "latched", !.latch = latch]
  <2>2. R \in ThreadState /\ R.pc = "latched" /\ R.blk = th[t].blk /\ R.page = th[t].page
    BY <1>0 DEF ThreadState, Places
  <2>3. th' = [th EXCEPT ![t] = R] /\ th[t].page \in Pages
    BY <1>0, <2>1 DEF ThreadOK
  <2> HIDE DEF R
  <2> QED
    BY <2>1, <2>2, <2>3, ThreadOnly DEF Owning, Fixing
<1>5. CASE OptimisticFix(t)
  <2> DEFINE b == th[t].saved
             B == [blk[b] EXCEPT !.fix = @ + 1]
             R == [th[t] EXCEPT !.pc = "try", !.blk = b]
  <2>1. /\ th[t].pc = "idle" /\ b \in Blocks /\ blk[b].state = "FILE_PAGE"
        /\ UNCHANGED <<hash, free, lru, disk, log, last, fail>>
    BY <1>0, <1>5 DEF OptimisticFix, ThreadState
  <2>2. blk' = [blk EXCEPT ![b] = B] /\ th' = [th EXCEPT ![t] = R]
    BY <1>0, <1>5, <2>1 DEF OptimisticFix
  <2>3. /\ R \in ThreadState /\ R.pc = "try" /\ R.blk = b
        /\ R.sync = th[t].sync
    BY <1>0, <2>1 DEF ThreadState, Places
  <2>4. /\ B \in Block /\ B.fix = blk[b].fix + 1
        /\ B.state = blk[b].state /\ B.page = blk[b].page /\ B.io = blk[b].io
        /\ B.target = blk[b].target /\ B.use = blk[b].use /\ B.frame = blk[b].frame
    BY <1>0, <2>1 DEF Block
  <2> HIDE DEF R, B, b
  <2>6. FixExact'
    BY <2>1, <2>2, <2>3, <2>4, FixerJoins DEF Fixing
  <2>7. ThreadOK(t)'
    BY <1>0, <2>1, <2>2, <2>3, <2>4 DEF ThreadOK, Fixing, Owning
  <2>8. last' \in [Pages -> 0..MaxMods]
    BY <2>1 DEF IInv, Typed
  <2> QED
    BY <2>1, <2>2, <2>3, <2>4, <2>6, <2>7, <2>8, FixStep DEF Owning
<1>6. CASE OptimisticLatch(t)
  <2> DEFINE b == th[t].blk
  <2>1. PICK latch \in {"S", "X"} :
          /\ th[t].pc = "try"
          /\ IF MayLatch(b, latch) /\ th[t].same
             THEN /\ th' = [th EXCEPT ![t].pc = "latched", ![t].latch = latch,
                                      ![t].page = blk[b].page]
                  /\ UNCHANGED blk
             ELSE /\ th' = [th EXCEPT ![t].pc = "idle", ![t].blk = NoBlock,
                                      ![t].saved = NoBlock, ![t].same = FALSE]
                  /\ blk' = [blk EXCEPT ![b].fix = @ - 1]
          /\ UNCHANGED <<hash, free, lru, disk, log, last, fail>>
    BY <1>6 DEF OptimisticLatch
  <2>2. b \in Blocks /\ blk[b].state = "FILE_PAGE" /\ blk[b].page \in Pages
    BY <1>0, <2>1 DEF ThreadOK, Fixing, IInv, BlockOK
  <2>3. CASE MayLatch(b, latch) /\ th[t].same
    <3> DEFINE R == [th[t] EXCEPT !.pc = "latched", !.latch = latch, !.page = blk[b].page]
    <3>1. /\ R \in ThreadState /\ R.pc = "latched" /\ R.blk = b /\ R.page = blk[b].page
      BY <1>0, <2>2 DEF ThreadState, Places
    <3>2. th' = [th EXCEPT ![t] = R] /\ UNCHANGED blk
      BY <1>0, <2>1, <2>3
    <3> HIDE DEF R
    <3> QED
      BY <2>1, <2>2, <3>1, <3>2, ThreadOnly DEF Owning, Fixing
  <2>4. CASE ~(MayLatch(b, latch) /\ th[t].same)
    <3> DEFINE B == [blk[b] EXCEPT !.fix = @ - 1]
    <3>1. PICK no \in BOOLEAN : no = FALSE
      OBVIOUS
    <3> DEFINE R == [th[t] EXCEPT !.pc = "idle", !.blk = NoBlock, !.saved = NoBlock, !.same = no]
    <3>2. blk' = [blk EXCEPT ![b] = B] /\ th' = [th EXCEPT ![t] = R]
      BY <1>0, <2>1, <2>2, <2>4, <3>1
    <3>3. /\ R \in ThreadState /\ R.pc = "idle"
      BY <1>0 DEF ThreadState, Places
    <3>4. /\ B \in Block /\ B.fix = blk[b].fix - 1
          /\ B.state = blk[b].state /\ B.page = blk[b].page /\ B.io = blk[b].io
          /\ B.target = blk[b].target /\ B.use = blk[b].use /\ B.frame = blk[b].frame
      BY <1>0, <2>2 DEF Block
    <3> HIDE DEF R, B
    <3>6. FixExact'
      BY <2>1, <2>2, <3>2, <3>3, <3>4, FixerLeaves DEF Fixing
    <3>7. ThreadOK(t)'
      BY <1>0, <3>2, <3>3 DEF ThreadOK, Fixing, Owning
    <3>8. last' \in [Pages -> 0..MaxMods]
      BY <2>1 DEF IInv, Typed
    <3> QED
      BY <2>1, <2>2, <3>2, <3>3, <3>4, <3>6, <3>7, <3>8, FixStep DEF Owning
  <2> QED
    BY <2>3, <2>4
<1> QED
  BY <1>1, <1>2, <1>3, <1>4, <1>5, <1>6 DEF Acquire


\* The end of the mini-transaction.
LEMMA ReleaseStep ==
    ASSUME IInv, NEW t \in Threads, Release(t)
    PROVE  IInv'
<1> DEFINE b == th[t].blk
           n == lsn + 1
<1>0. /\ th[t] \in ThreadState /\ ThreadOK(t) /\ th \in [Threads -> ThreadState]
      /\ blk \in [Blocks -> Block]
  BY DEF IInv, Typed
<1>1. PICK mod \in BOOLEAN :
        /\ th[t].pc = "latched"
        /\ mod => th[t].latch = "X" /\ n <= MaxMods
        /\ blk' = IF mod THEN [blk EXCEPT ![b].fix = @ - 1, ![b].dirty = TRUE,
                                          ![b].frame.lsn = n]
                         ELSE [blk EXCEPT ![b].fix = @ - 1]
        /\ last' = IF mod THEN [last EXCEPT ![th[t].page] = n] ELSE last
        /\ th' = [th EXCEPT ![t].pc = "idle", ![t].blk = NoBlock,
                            ![t].saved = IF Restores THEN b ELSE NoBlock,
                            ![t].same = Restores]
        /\ UNCHANGED <<hash, free, lru, disk, log, fail>>
  BY DEF Release
<1>2. b \in Blocks /\ th[t].page \in Pages
  BY <1>0, <1>1 DEF ThreadOK, Fixing
<1>3. mod => n \in 0..MaxMods
  <2>1. {last[p] : p \in Pages} \subseteq 0..MaxMods /\ {last[p] : p \in Pages} # {}
    BY <1>2 DEF IInv, Typed
  <2>2. lsn \in {last[p] : p \in Pages}
    BY <2>1, MaxExists, ConstantsAssumption DEF lsn
  <2>3. lsn \in Nat
    BY <2>1, <2>2
  <2> QED
    BY <1>1, <2>3, ConstantsAssumption
<1> HIDE DEF n
<1> DEFINE R == [th[t] EXCEPT !.pc = "idle", !.blk = NoBlock,
                              !.saved = IF Restores THEN b ELSE NoBlock, !.same = Restores]
<1>4. R \in ThreadState /\ R.pc = "idle" /\ th' = [th EXCEPT ![t] = R]
  <2>1. (IF Restores THEN b ELSE NoBlock) \in Blocks \cup {NoBlock} /\ Restores \in BOOLEAN
    BY <1>2, ConstantsAssumption
  <2>2. PICK s \in Blocks \cup {NoBlock}, k \in BOOLEAN :
           s = (IF Restores THEN b ELSE NoBlock) /\ k = Restores
    BY <2>1
  <2>3. R = [th[t] EXCEPT !.pc = "idle", !.blk = NoBlock, !.saved = s, !.same = k]
    BY <2>2
  <2>4. th' = [th EXCEPT ![t] = R]
    BY <1>0, <1>1
  <2> HIDE DEF R
  <2>5. R \in ThreadState /\ R.pc = "idle"
    BY <1>0, <2>3 DEF ThreadState, Places
  <2> QED
    BY <2>4, <2>5
<1>5. \E B \in Block :
        /\ blk' = [blk EXCEPT ![b] = B] /\ B.fix = blk[b].fix - 1
        /\ B.state = blk[b].state /\ B.page = blk[b].page /\ B.io = blk[b].io
        /\ B.target = blk[b].target /\ B.use = blk[b].use /\ B.frame.page = blk[b].frame.page
  <2>0. blk[b] \in Block
    BY <1>0, <1>2
  <2>1. CASE mod
    <3> DEFINE F == [blk[b].frame EXCEPT !.lsn = n]
    <3>1. PICK yes \in BOOLEAN : yes = TRUE
      OBVIOUS
    <3>2. PICK k \in Int : k = blk[b].fix - 1
      BY <2>0 DEF Block
    <3> DEFINE B == [blk[b] EXCEPT !.fix = k, !.dirty = yes, !.frame = F]
    <3>3. blk' = [blk EXCEPT ![b] = B]
      BY <1>0, <1>1, <1>2, <2>1, <3>1, <3>2, ZenonT(30)
    <3>4. F \in Frames /\ F.page = blk[b].frame.page
      BY <1>3, <2>0, <2>1 DEF Block, Frames
    <3> HIDE DEF F
    <3>5. /\ B \in Block /\ B.fix = blk[b].fix - 1
          /\ B.state = blk[b].state /\ B.page = blk[b].page /\ B.io = blk[b].io
          /\ B.target = blk[b].target /\ B.use = blk[b].use /\ B.frame = F
      BY <2>0, <3>4, <3>2 DEF Block
    <3> HIDE DEF B
    <3> QED
      BY <3>3, <3>4, <3>5
  <2>2. CASE ~mod
    <3> DEFINE B == [blk[b] EXCEPT !.fix = @ - 1]
    <3>1. blk' = [blk EXCEPT ![b] = B]
      BY <1>0, <1>1, <1>2, <2>2
    <3>2. /\ B \in Block /\ B.fix = blk[b].fix - 1
          /\ B.state = blk[b].state /\ B.page = blk[b].page /\ B.io = blk[b].io
          /\ B.target = blk[b].target /\ B.use = blk[b].use /\ B.frame = blk[b].frame
      BY <2>0 DEF Block
    <3> HIDE DEF B
    <3> QED
      BY <3>1, <3>2
  <2> QED
    BY <2>1, <2>2
<1>6. PICK B \in Block :
        /\ blk' = [blk EXCEPT ![b] = B] /\ B.fix = blk[b].fix - 1
        /\ B.state = blk[b].state /\ B.page = blk[b].page /\ B.io = blk[b].io
        /\ B.target = blk[b].target /\ B.use = blk[b].use /\ B.frame.page = blk[b].frame.page
  BY <1>5
<1>7. last' \in [Pages -> 0..MaxMods]
  BY <1>1, <1>3 DEF IInv, Typed
<1> HIDE DEF R
<1>8. FixExact'
  <2>1. th[t].pc \in Fixing /\ R.pc \notin Fixing
    BY <1>1, <1>4 DEF Fixing
  <2> QED
    BY <1>2, <1>4, <1>6, <2>1, FixerLeaves
<1>9. ThreadOK(t)'
  BY <1>0, <1>4 DEF ThreadOK, Fixing, Owning
<1>10. th[t].pc \notin Owning /\ R.pc \notin Owning /\ UNCHANGED <<hash, free, lru, disk, log, fail>>
  BY <1>1, <1>4 DEF Owning
<1> QED
  BY <1>2, <1>4, <1>6, <1>7, <1>8, <1>9, <1>10, FixStep

\* The log moves within its bounds, and not back.
LEMMA LogMoves ==
    ASSUME IInv, NEW b \in Blocks, log' = LogWritten(b)
    PROVE  /\ log' \in 0..MaxMods /\ log \in Nat /\ log' \in Nat
           /\ log <= log' /\ blk[b].frame.lsn <= log'
<1> DEFINE f == blk[b].frame
<1>1. f \in Frames
  BY DEF IInv, Typed, Block
<1>2. log \in Nat /\ f.lsn \in Nat /\ log <= MaxMods /\ f.lsn <= MaxMods
  BY <1>1, ConstantsAssumption DEF IInv, Typed, Frames
<1>3. log' \in {log, f.lsn} /\ log' >= log /\ log' >= f.lsn
  BY <1>2, MaxOfTwo DEF LogWritten
<1> QED
  BY <1>2, <1>3, ConstantsAssumption

\* A page of the pool that is written is a page of the disk.
LEMMA WriteStep ==
    ASSUME IInv, NEW b \in Blocks, blk[b].state = "FILE_PAGE", disk' = Written(b)
    PROVE  disk' \in [Pages -> Frames]
<1>1. blk[b].page \in Pages /\ blk[b].frame \in Frames
  BY DEF IInv, Typed, BlockOK, Block
<1> QED
  BY <1>1 DEF IInv, Typed, Written

\* Forcing the log leaves the pool as it is.
LEMMA LogForcedStep ==
    ASSUME IInv, NEW b \in Blocks, LogForced(b)
    PROVE  IInv'
<1> DEFINE B == [blk[b] EXCEPT !.logged = TRUE]
<1>1. log' \in 0..MaxMods
  BY LogMoves DEF LogForced
<1>2. /\ UNCHANGED <<hash, free, lru, disk, last, th, fail>>
      /\ blk' = [blk EXCEPT ![b] = B]
  BY DEF LogForced, IInv, Typed
<1>3. /\ B \in Block /\ B.state = blk[b].state /\ B.page = blk[b].page /\ B.frame = blk[b].frame
      /\ B.io = blk[b].io /\ B.fix = blk[b].fix /\ B.target = blk[b].target
      /\ B.use = blk[b].use
  BY DEF IInv, Typed, Block
<1> HIDE DEF B
<1>4. \A c \in Blocks : blk'[c] = IF c = b THEN B ELSE blk[c]
  BY <1>2 DEF IInv, Typed
<1>5. \A c \in Blocks :
        /\ blk'[c].state = blk[c].state /\ blk'[c].page = blk[c].page
        /\ blk'[c].frame = blk[c].frame /\ blk'[c].io = blk[c].io /\ blk'[c].fix = blk[c].fix
        /\ blk'[c].target = blk[c].target /\ blk'[c].use = blk[c].use
  BY <1>3, <1>4
<1>6. Typed'
  <2>1. blk' \in [Blocks -> Block]
    BY <1>2, <1>3 DEF IInv, Typed
  <2> QED
    BY <1>1, <1>2, <2>1 DEF IInv, Typed
<1>7. \A u \in Threads : ThreadOK(u)'
  <2> SUFFICES ASSUME NEW u \in Threads PROVE ThreadOK(u)'
    OBVIOUS
  <2> QED
    BY <1>2, <1>5 DEF ThreadOK, IInv, Fixing, Owning
<1>8. \A c \in Blocks : BlockOK(c)'
  BY <1>2, <1>5 DEF BlockOK, IInv
<1>9. HashOK' /\ OwnersApart'
  BY <1>2, <1>5 DEF HashOK, OwnersApart, IInv
<1>10. FlagsEnd'
  BY <1>2, <1>5 DEF FlagsEnd, IInv, Typed
<1>11. FixExact'
  BY <1>2, <1>5 DEF FixExact, Fixers, IInv
<1> QED
  BY <1>6, <1>7, <1>8, <1>9, <1>10, <1>11 DEF IInv


\* buf_LRU_get_free_block with the RW command.
LEMMA GetFreeBlockStep ==
    ASSUME IInv, NEW t \in Threads, GetFreeBlock(t)
    PROVE  IInv'
<1> DEFINE b == th[t].blk
<1>0. /\ th[t] \in ThreadState /\ ThreadOK(t) /\ th \in [Threads -> ThreadState]
      /\ blk \in [Blocks -> Block]
  BY DEF IInv, Typed
<1>1. CASE buf_LRU_get_free_only(t)
  BY <1>1, GetFreeStep
<1>2. CASE buf_LRU_scan_and_free_block(t)
  <2>1. PICK c \in Blocks : th[t].pc = "free" /\ buf_LRU_free_page(c, t, "free")
    BY <1>2 DEF buf_LRU_scan_and_free_block
  <2> QED
    BY <2>1, FreePageStep
<1>3. CASE NoFreeBlock(t)
  <2> DEFINE R == [th[t] EXCEPT !.pc = "select"]
  <2>1. /\ th[t].pc = "free" /\ th' = [th EXCEPT ![t] = R] /\ th[t].page \in Pages
        /\ UNCHANGED <<blk, hash, free, lru, disk, log, last, fail>>
    BY <1>0, <1>3 DEF NoFreeBlock, Goto, ThreadOK
  <2>2. R \in ThreadState /\ R.pc = "select" /\ R.page = th[t].page
    BY <1>0 DEF ThreadState, Places
  <2> HIDE DEF R
  <2> QED
    BY <2>1, <2>2, ThreadOnly DEF Owning, Fixing
<1>4. CASE SelectVictim(t)
  <2>0. th[t].pc = "select" /\ th[t].page \in Pages
        /\ UNCHANGED <<hash, free, lru, disk, log, last, fail>>
    BY <1>0, <1>4 DEF SelectVictim, ThreadOK
  <2>1. CASE Victims = {}
    <3> DEFINE R == [th[t] EXCEPT !.pc = "flush"]
    <3>1. th' = [th EXCEPT ![t] = R] /\ UNCHANGED blk
      BY <1>0, <1>4, <2>1 DEF SelectVictim, Goto
    <3>2. R \in ThreadState /\ R.pc = "flush" /\ R.page = th[t].page
      BY <1>0 DEF ThreadState, Places
    <3> HIDE DEF R
    <3> QED
      BY <2>0, <3>1, <3>2, ThreadOnly DEF Owning, Fixing
  <2>2. CASE Victims # {}
    <3>1. PICK c \in Victims : /\ blk' = [blk EXCEPT ![c].target = TRUE, ![c].io = "WRITE"]
                               /\ th' = [th EXCEPT ![t].pc = "rw", ![t].blk = c]
      BY <1>4, <2>2 DEF SelectVictim
    <3>2. c \in Blocks /\ c \in lru /\ ~Flagged(c) /\ blk[c].io = "NONE"
      BY DEF Victims, buf_flush_ready_for_flush
    <3> DEFINE B == [blk[c] EXCEPT !.target = TRUE, !.io = "WRITE"]
               R == [th[t] EXCEPT !.pc = "rw", !.blk = c]
    <3>3. blk' = [blk EXCEPT ![c] = B] /\ th' = [th EXCEPT ![t] = R]
      BY <1>0, <3>1, <3>2
    <3>4. R \in ThreadState /\ R.pc = "rw" /\ R.page = th[t].page /\ R.blk = c
      BY <1>0, <3>2 DEF ThreadState, Places
    <3>5. /\ B \in Block /\ B.state = blk[c].state /\ B.page = blk[c].page
          /\ B.fix = blk[c].fix /\ B.use = blk[c].use /\ B.io = "WRITE" /\ B.target
      BY <1>0, <3>2 DEF Block
    <3> HIDE DEF R, B
    <3> QED
      BY <2>0, <3>2, <3>3, <3>4, <3>5, TakeStep DEF Owning, Fixing
  <2> QED
    BY <2>1, <2>2
<1>5. CASE RwIo(t)
  <2>1. /\ th[t].pc = "rw" /\ b \in Blocks /\ blk[b].state = "FILE_PAGE" /\ th[t].page \in Pages
        /\ blk[b].io = "WRITE" /\ blk[b].target /\ disk' = Written(b)
        /\ UNCHANGED <<hash, free, lru, log, last, fail>>
    BY <1>0, <1>5 DEF RwIo, ThreadOK, Owning
  <2>2. disk' \in [Pages -> Frames] /\ log' \in 0..MaxMods
    BY <2>1, WriteStep DEF IInv, Typed
  <2> DEFINE F == PageRead(t, disk')
             B == [blk[b] EXCEPT !.frame = F]
             R == [th[t] EXCEPT !.pc = "written"]
  <2>3. blk' = [blk EXCEPT ![b] = B] /\ th' = [th EXCEPT ![t] = R]
    BY <1>0, <1>5, <2>1 DEF RwIo, Goto
  <2>4. F \in Frames /\ (~th[t].sync => F.page = ZeroPage)
    <3>1. [page |-> ZeroPage, lsn |-> 0] \in Frames
      BY ConstantsAssumption DEF Frames
    <3>2. disk'[th[t].page] \in Frames
      BY <2>1, <2>2
    <3> QED
      BY <3>1, <3>2 DEF PageRead
  <2> HIDE DEF F
  <2>5. R \in ThreadState /\ R.pc = "written" /\ R.page = th[t].page /\ R.blk = b /\ R.sync = th[t].sync
    BY <1>0 DEF ThreadState, Places
  <2>6. /\ B \in Block /\ B.state = blk[b].state /\ B.page = blk[b].page /\ B.fix = blk[b].fix
        /\ B.use = blk[b].use /\ B.io = blk[b].io /\ B.target = blk[b].target /\ B.frame = F
    BY <1>0, <2>1, <2>4 DEF Block
  <2>7. ~blk[b].use
    BY <2>1 DEF IInv, FlagsEnd, BlockOK, OwnersApart, Owning
  <2> HIDE DEF R, B
  <2>8. ThreadOK(t)'
    <3>1. th'[t] = R /\ blk'[b] = B
      BY <1>0, <2>1, <2>3
    <3> HIDE DEF b
    <3> QED
      BY <2>1, <2>4, <2>5, <2>6, <3>1 DEF ThreadOK, Fixing, Owning
  <2>9. th[t].pc \in Owning /\ th[t].pc # "init" /\ R.pc \notin Fixing
    BY <2>1, <2>5 DEF Owning, Fixing
  <2>10. (B.target => R.pc \in {"rw", "written", "remove"}) /\ (B.use => R.pc = "read")
    BY <2>5, <2>6, <2>7
  <2> QED
    BY <2>1, <2>2, <2>3, <2>5, <2>6, <2>8, <2>9, <2>10, OwnerStep
<1>6. CASE RwComplete(t)
  <2>1. /\ th[t].pc = "written" /\ b \in Blocks /\ blk[b].state = "FILE_PAGE" /\ th[t].page \in Pages
        /\ blk[b].io = "WRITE" /\ blk[b].target
        /\ th[t].sync \/ blk[b].frame.page = ZeroPage
        /\ UNCHANGED <<hash, free, lru, disk, log, last, fail>>
    BY <1>0, <1>6 DEF RwComplete, ThreadOK, Owning
  <2>2. disk' \in [Pages -> Frames] /\ log' \in 0..MaxMods
    BY <2>1 DEF IInv, Typed
  <2>3. PICK no \in BOOLEAN : no = FALSE
    OBVIOUS
  <2> DEFINE B == [blk[b] EXCEPT !.io = "NONE", !.dirty = no, !.logged = no]
             R == [th[t] EXCEPT !.pc = "remove"]
  <2>4. blk' = [blk EXCEPT ![b] = B] /\ th' = [th EXCEPT ![t] = R]
    BY <1>0, <1>6, <2>1, <2>3 DEF RwComplete, WriteCompleted, Goto
  <2>5. R \in ThreadState /\ R.pc = "remove" /\ R.page = th[t].page /\ R.blk = b /\ R.sync = th[t].sync
    BY <1>0 DEF ThreadState, Places
  <2>6. /\ B \in Block /\ B.state = blk[b].state /\ B.page = blk[b].page /\ B.fix = blk[b].fix
        /\ B.use = blk[b].use /\ B.io = "NONE" /\ B.target = blk[b].target /\ B.frame = blk[b].frame
    BY <1>0, <2>1 DEF Block
  <2>7. ~blk[b].use
    BY <2>1 DEF IInv, FlagsEnd, BlockOK, OwnersApart, Owning
  <2> HIDE DEF R, B
  <2>8. ThreadOK(t)'
    <3>1. th'[t] = R /\ blk'[b] = B
      BY <1>0, <2>1, <2>4
    <3> HIDE DEF b
    <3> QED
      BY <2>1, <2>5, <2>6, <3>1 DEF ThreadOK, Fixing, Owning
  <2>9. th[t].pc \in Owning /\ th[t].pc # "init" /\ R.pc \notin Fixing
    BY <2>1, <2>5 DEF Owning, Fixing
  <2>10. (B.target => R.pc \in {"rw", "written", "remove"}) /\ (B.use => R.pc = "read")
    BY <2>5, <2>6, <2>7
  <2> QED
    BY <2>1, <2>2, <2>4, <2>5, <2>6, <2>8, <2>9, <2>10, OwnerStep
<1>7. CASE buf_LRU_block_remove_hashed_for_rw_cmd(t)
  BY <1>7, RemoveStep
<1>8. CASE SingleStart(t)
  <2>1. PICK c \in SingleTargets : /\ th[t].pc = "flush"
                                   /\ blk' = [blk EXCEPT ![c].io = "WRITE"]
                                   /\ th' = [th EXCEPT ![t].pc = "single", ![t].blk = c]
                                   /\ UNCHANGED <<hash, free, lru, disk, log, last, fail>>
    BY <1>8 DEF SingleStart
  <2>2. c \in Blocks /\ c \in lru /\ ~Flagged(c) /\ blk[c].io = "NONE" /\ th[t].page \in Pages
    BY <1>0, <2>1 DEF SingleTargets, buf_flush_ready_for_flush, ThreadOK
  <2> DEFINE B == [blk[c] EXCEPT !.io = "WRITE"]
             R == [th[t] EXCEPT !.pc = "single", !.blk = c]
  <2>3. blk' = [blk EXCEPT ![c] = B] /\ th' = [th EXCEPT ![t] = R]
    BY <1>0, <2>1, <2>2
  <2>4. R \in ThreadState /\ R.pc = "single" /\ R.page = th[t].page /\ R.blk = c
    BY <1>0, <2>2 DEF ThreadState, Places
  <2>5. /\ B \in Block /\ B.state = blk[c].state /\ B.page = blk[c].page
        /\ B.fix = blk[c].fix /\ B.use = blk[c].use /\ B.io = "WRITE" /\ ~B.target
    BY <1>0, <2>2 DEF Block, Flagged
  <2> HIDE DEF R, B
  <2>6. /\ th[t].pc \notin Owning \cup Fixing /\ R.pc \in {"rw", "single"}
        /\ R.pc = "rw" <=> B.target
    BY <2>1, <2>4, <2>5 DEF Owning, Fixing
  <2> QED
    BY <2>1, <2>2, <2>3, <2>4, <2>5, <2>6, TakeStep
<1>9. CASE SingleNone(t)
  <2> DEFINE R == [th[t] EXCEPT !.pc = "free", !.scan = TRUE]
  <2>1. /\ th[t].pc = "flush" /\ th' = [th EXCEPT ![t] = R] /\ th[t].page \in Pages
        /\ UNCHANGED <<blk, hash, free, lru, disk, log, last, fail>>
    BY <1>0, <1>9 DEF SingleNone, ScanAgain, ThreadOK
  <2>2. R \in ThreadState /\ R.pc = "free" /\ R.page = th[t].page
    BY <1>0 DEF ThreadState, Places
  <2> HIDE DEF R
  <2> QED
    BY <2>1, <2>2, ThreadOnly DEF Owning, Fixing
<1>10. CASE SingleEnd(t)
  <2>0. /\ th[t].pc = "single" /\ b \in Blocks /\ blk[b].io = "WRITE" /\ th[t].page \in Pages
        /\ disk' = Written(b)
        /\ UNCHANGED <<hash, free, lru, log, last, fail>>
    BY <1>0, <1>10 DEF SingleEnd, ThreadOK, Owning
  <2>1. blk[b].state = "FILE_PAGE"
    BY <2>0 DEF IInv, BlockOK
  <2>2. disk' \in [Pages -> Frames] /\ log' \in 0..MaxMods
    BY <2>0, <2>1, WriteStep DEF IInv, Typed
  <2>3. PICK no \in BOOLEAN : no = FALSE
    OBVIOUS
  <2> DEFINE B == [blk[b] EXCEPT !.io = "NONE", !.dirty = no, !.logged = no]
             R == [th[t] EXCEPT !.pc = "reuse", !.blk = NoBlock]
  <2>4. blk' = [blk EXCEPT ![b] = B] /\ th' = [th EXCEPT ![t] = R]
    BY <1>0, <1>10, <2>0, <2>3 DEF SingleEnd, WriteCompleted
  <2>5. R \in ThreadState /\ R.pc = "reuse" /\ R.page = th[t].page
    BY <1>0 DEF ThreadState, Places
  <2>6. /\ B \in Block /\ B.state = blk[b].state /\ B.page = blk[b].page /\ B.fix = blk[b].fix
        /\ B.use = blk[b].use /\ B.target = blk[b].target
    BY <1>0, <2>0, ZenonT(30) DEF Block
  <2>7. ~blk[b].use /\ ~blk[b].target
    BY <2>0, <2>1 DEF IInv, FlagsEnd, BlockOK, OwnersApart, Owning
  <2> HIDE DEF R, B
  <2>8. ThreadOK(t)'
    <3>1. th'[t] = R
      BY <1>0, <2>4
    <3> QED
      BY <2>0, <2>5, <3>1 DEF ThreadOK, Fixing, Owning
  <2>9. th[t].pc \in Owning /\ th[t].pc # "init" /\ R.pc \notin Fixing /\ R.pc \notin Owning
    BY <2>0, <2>5 DEF Owning, Fixing
  <2> QED
    BY <2>0, <2>1, <2>2, <2>4, <2>5, <2>6, <2>7, <2>8, <2>9, OwnerStep
<1>11. CASE SingleFree(t)
  <2>1. CASE \E c \in Blocks : buf_flush_ready_for_replace(c)
    <3>1. PICK c \in Blocks : th[t].pc = "reuse" /\ buf_LRU_free_page(c, t, "free")
      BY <1>11, <2>1 DEF SingleFree
    <3> QED
      BY <3>1, FreePageStep
  <2>2. CASE ~\E c \in Blocks : buf_flush_ready_for_replace(c)
    <3> DEFINE R == [th[t] EXCEPT !.pc = "free", !.scan = TRUE]
    <3>1. /\ th[t].pc = "reuse" /\ th' = [th EXCEPT ![t] = R] /\ th[t].page \in Pages
          /\ UNCHANGED <<blk, hash, free, lru, disk, log, last, fail>>
      BY <1>0, <1>11, <2>2 DEF SingleFree, ScanAgain, ThreadOK
    <3>2. R \in ThreadState /\ R.pc = "free" /\ R.page = th[t].page
      BY <1>0 DEF ThreadState, Places
    <3> HIDE DEF R
    <3> QED
      BY <3>1, <3>2, ThreadOnly DEF Owning, Fixing
  <2> QED
    BY <2>1, <2>2
<1>12. CASE RwLog(t) \/ SingleLog(t)
  <2>1. b \in Blocks /\ LogForced(b)
    BY <1>0, <1>12 DEF RwLog, SingleLog, ThreadOK, Owning
  <2> QED
    BY <2>1, LogForcedStep
<1> QED
  BY <1>1, <1>2, <1>3, <1>4, <1>5, <1>6, <1>7, <1>8, <1>9, <1>10, <1>11, <1>12 DEF GetFreeBlock


\* buf_page_init_for_read and buf_read_page_low.
LEMMA ReadPageStep ==
    ASSUME IInv, NEW t \in Threads, ReadPage(t)
    PROVE  IInv'
<1> DEFINE b == th[t].blk
<1>0. /\ th[t] \in ThreadState /\ ThreadOK(t) /\ th \in [Threads -> ThreadState]
      /\ blk \in [Blocks -> Block]
  BY DEF IInv, Typed
<1>1. CASE InitForRead(t)
  BY <1>1, InitStep
<1>2. CASE AlreadyInPool(t)
  BY <1>2, AlreadyStep
<1>3. CASE ReadIn(t)
  <2>0. /\ th[t].pc = "read" /\ b \in Blocks /\ blk[b].io = "READ" /\ th[t].page \in Pages
        /\ UNCHANGED <<hash, free, lru, disk, log, last, fail>>
    BY <1>0, <1>3 DEF ReadIn, ThreadOK, Owning
  <2>1. blk[b].state = "FILE_PAGE"
    BY <2>0 DEF IInv, BlockOK
  <2>2. disk' \in [Pages -> Frames] /\ log' \in 0..MaxMods
    BY <2>0 DEF IInv, Typed
  <2>3. PICK no \in BOOLEAN : no = FALSE
    OBVIOUS
  <2> DEFINE F == IF blk[b].use THEN blk[b].frame ELSE disk[th[t].page]
             B == [blk[b] EXCEPT !.use = no, !.frame = F]
             R == [th[t] EXCEPT !.pc = "complete"]
  <2>4. blk' = [blk EXCEPT ![b] = B] /\ th' = [th EXCEPT ![t] = R]
    BY <1>0, <1>3, <2>0, <2>3 DEF ReadIn, Goto
  <2>5. R \in ThreadState /\ R.pc = "complete" /\ R.page = th[t].page /\ R.blk = b
    BY <1>0 DEF ThreadState, Places
  <2>6. F \in Frames
    BY <1>0, <2>0 DEF IInv, Typed, Block
  <2> HIDE DEF F
  <2>7. /\ B \in Block /\ B.state = blk[b].state /\ B.page = blk[b].page /\ B.fix = blk[b].fix
        /\ B.use = FALSE /\ B.target = blk[b].target /\ B.io = blk[b].io
    BY <1>0, <2>0, <2>3, <2>6, ZenonT(30) DEF Block
  <2>8. ~blk[b].target
    BY <2>0, <2>1 DEF IInv, FlagsEnd, BlockOK, OwnersApart, Owning
  <2> HIDE DEF R, B
  <2>9. ThreadOK(t)'
    <3>1. th'[t] = R /\ blk'[b] = B
      BY <1>0, <2>0, <2>4
    <3> HIDE DEF b
    <3> QED
      BY <2>0, <2>5, <2>7, <3>1 DEF ThreadOK, Fixing, Owning
  <2>10. th[t].pc \in Owning /\ th[t].pc # "init" /\ R.pc \notin Fixing
    BY <2>0, <2>5 DEF Owning, Fixing
  <2> QED
    BY <2>0, <2>1, <2>2, <2>4, <2>5, <2>7, <2>8, <2>9, <2>10, OwnerStep
<1>4. CASE ReadComplete(t)
  <2>0. /\ th[t].pc = "complete" /\ b \in Blocks /\ blk[b].io = "READ" /\ th[t].page \in Pages
        /\ UNCHANGED <<hash, free, lru, disk, log, last, fail>>
    BY <1>0, <1>4 DEF ReadComplete, ThreadOK, Owning
  <2>1. blk[b].state = "FILE_PAGE"
    BY <2>0 DEF IInv, BlockOK
  <2>2. disk' \in [Pages -> Frames] /\ log' \in 0..MaxMods
    BY <2>0 DEF IInv, Typed
  <2>3. PICK zero \in 0..MaxRetries : zero = 0
    BY ConstantsAssumption
  <2> DEFINE B == [blk[b] EXCEPT !.io = "NONE"]
             R == [th[t] EXCEPT !.pc = "lookup", !.blk = NoBlock, !.retries = zero]
  <2>4. blk' = [blk EXCEPT ![b] = B] /\ th' = [th EXCEPT ![t] = R]
    BY <1>0, <1>4, <2>0, <2>3 DEF ReadComplete
  <2>5. R \in ThreadState /\ R.pc = "lookup" /\ R.page = th[t].page
    BY <1>0 DEF ThreadState, Places
  <2>6. /\ B \in Block /\ B.state = blk[b].state /\ B.page = blk[b].page /\ B.fix = blk[b].fix
        /\ B.use = blk[b].use /\ B.target = blk[b].target
    BY <1>0, <2>0 DEF Block
  <2>7. ~blk[b].use /\ ~blk[b].target
    BY <2>0, <2>1 DEF IInv, FlagsEnd, BlockOK, OwnersApart, Owning
  <2> HIDE DEF R, B
  <2>8. ThreadOK(t)'
    <3>1. th'[t] = R
      BY <1>0, <2>4
    <3> QED
      BY <2>0, <2>5, <3>1 DEF ThreadOK, Fixing, Owning
  <2>9. th[t].pc \in Owning /\ th[t].pc # "init" /\ R.pc \notin Fixing /\ R.pc \notin Owning
    BY <2>0, <2>5 DEF Owning, Fixing
  <2> QED
    BY <2>0, <2>1, <2>2, <2>4, <2>5, <2>6, <2>7, <2>8, <2>9, OwnerStep
<1> QED
  BY <1>1, <1>2, <1>3, <1>4 DEF ReadPage

\* The I/O threads and the page cleaner.
LEMMA IoThreadsStep ==
    ASSUME IInv, NEW b \in Blocks, IoThreads(b) \/ PageCleaner(b)
    PROVE  IInv'
<1>0. blk[b] \in Block /\ blk \in [Blocks -> Block] /\ BlockOK(b)
  BY DEF IInv, Typed
<1>1. blk[b].io # "NONE" => blk[b].state = "FILE_PAGE"
  BY <1>0 DEF BlockOK
<1>2. blk[b].io # "NONE" /\ ~InHand(b)
        => \A u \in Threads : th[u].pc \in Owning => th[u].blk # b
  BY <1>1 DEF IInv, ThreadOK, InHand, Owning
<1>3. CASE AsyncReadDone(b)
  <2> DEFINE F == disk[blk[b].page]
             B == [blk[b] EXCEPT !.io = "NONE", !.frame = F]
  <2>1. /\ blk[b].io # "NONE" /\ ~InHand(b)
        /\ UNCHANGED <<hash, free, lru, disk, log, last, th, fail>>
    BY <1>3 DEF AsyncReadDone
  <2>2. blk' = [blk EXCEPT ![b] = B]
    BY <1>0, <1>3 DEF AsyncReadDone
  <2>3. F \in Frames
    BY <1>0, <1>1, <2>1 DEF IInv, Typed, BlockOK
  <2> HIDE DEF F
  <2>4. /\ B \in Block /\ B.state = blk[b].state /\ B.page = blk[b].page /\ B.fix = blk[b].fix
        /\ B.use = blk[b].use /\ B.target = blk[b].target
    BY <1>0, <2>3 DEF Block
  <2> HIDE DEF B
  <2>5. disk' \in [Pages -> Frames] /\ log' \in 0..MaxMods
    BY <2>1 DEF IInv, Typed
  <2> QED
    BY <1>1, <1>2, <2>1, <2>2, <2>4, <2>5, IoStep
<1>4. CASE FlushEnd(b)
  <2>1. /\ blk[b].io # "NONE" /\ ~InHand(b) /\ disk' = Written(b)
        /\ UNCHANGED <<hash, free, lru, log, last, th, fail>>
    BY <1>4 DEF FlushEnd
  <2>2. PICK no \in BOOLEAN : no = FALSE
    OBVIOUS
  <2> DEFINE B == [blk[b] EXCEPT !.io = "NONE", !.dirty = no, !.logged = no]
  <2>3. blk' = [blk EXCEPT ![b] = B]
    BY <1>0, <1>4, <2>2 DEF FlushEnd, WriteCompleted
  <2>4. /\ B \in Block /\ B.state = blk[b].state /\ B.page = blk[b].page /\ B.fix = blk[b].fix
        /\ B.use = blk[b].use /\ B.target = blk[b].target
    BY <1>0 DEF Block
  <2> HIDE DEF B
  <2>5. disk' \in [Pages -> Frames] /\ log' \in 0..MaxMods
    BY <1>1, <2>1, WriteStep DEF IInv, Typed
  <2> QED
    BY <1>1, <1>2, <2>1, <2>3, <2>4, <2>5, IoStep
<1>5. CASE FlushStart(b)
  <2> DEFINE B == [blk[b] EXCEPT !.io = "WRITE"]
  <2>1. /\ b \in lru /\ ~Flagged(b) /\ blk[b].io = "NONE"
        /\ UNCHANGED <<hash, free, lru, disk, log, last, th, fail>>
    BY <1>5 DEF FlushStart, buf_flush_ready_for_flush
  <2>2. blk[b].state = "FILE_PAGE" /\ \A u \in Threads : th[u].pc \in Owning => th[u].blk # b
    BY <2>1 DEF IInv, BlockOK, ThreadOK, Owning, Flagged
  <2>3. blk' = [blk EXCEPT ![b] = B]
    BY <1>0, <1>5 DEF FlushStart
  <2>4. /\ B \in Block /\ B.state = blk[b].state /\ B.page = blk[b].page /\ B.fix = blk[b].fix
        /\ B.use = blk[b].use /\ B.target = blk[b].target
    BY <1>0 DEF Block
  <2> HIDE DEF B
  <2>5. disk' \in [Pages -> Frames] /\ log' \in 0..MaxMods
    BY <2>1 DEF IInv, Typed
  <2> QED
    BY <2>1, <2>2, <2>3, <2>4, <2>5, IoStep
<1>6. CASE Evict(b)
  BY <1>6, FreePageStep, NamesAssumption DEF Evict
<1>7. CASE FlushLog(b)
  BY <1>7, LogForcedStep DEF FlushLog
<1> QED
  BY <1>3, <1>4, <1>5, <1>6, <1>7 DEF IoThreads, PageCleaner

-----------------------------------------------------------------------------

\* The empty pool satisfies the invariant.
LEMMA InitHolds == Init => IInv
<1> SUFFICES ASSUME Init PROVE IInv
  OBVIOUS
<1>1. Typed
  <2>1. [page |-> NoPage, lsn |-> 0] \in Frames /\ \A p \in Pages : [page |-> p, lsn |-> 0] \in Frames
    BY ConstantsAssumption DEF Frames
  <2>2. blk \in [Blocks -> Block]
    BY <2>1 DEF Init, Block
  <2>3. th \in [Threads -> ThreadState]
    <3>1. 0 \in 0..MaxRetries
      BY ConstantsAssumption
    <3> QED
      BY <3>1 DEF Init, ThreadState, Places
  <2>4. disk \in [Pages -> Frames]
    BY <2>1 DEF Init
  <2>5. 0 \in 0..MaxMods
    BY ConstantsAssumption
  <2> QED
    BY <2>2, <2>3, <2>4, <2>5 DEF Init, Typed
<1>2. \A t \in Threads : ThreadOK(t)
  BY DEF Init, ThreadOK, Fixing, Owning
<1>3. \A b \in Blocks : BlockOK(b)
  BY DEF Init, BlockOK
<1>4. HashOK
  BY NamesAssumption DEF Init, HashOK
<1>5. FlagsEnd /\ OwnersApart
  BY DEF Init, FlagsEnd, OwnersApart, Owning
<1>6. FixExact
  <2>1. \A b \in Blocks : Fixers(b) = {} /\ blk[b].fix = 0
    BY DEF Init, Fixers, Fixing
  <2> QED
    BY <2>1, FS_EmptySet DEF FixExact
<1> QED
  BY <1>1, <1>2, <1>3, <1>4, <1>5, <1>6 DEF IInv

\* The invariant says all of PoolExact.
LEMMA IInvIsEnough == IInv => PoolExact
<1> SUFFICES ASSUME IInv PROVE PoolExact
  OBVIOUS
<1>1. TypeOK
  <2>1. \A b \in Blocks : blk[b].fix \in 0..Cardinality(Threads)
    <3> SUFFICES ASSUME NEW b \in Blocks PROVE blk[b].fix \in 0..Cardinality(Threads)
      OBVIOUS
    <3>1. /\ Cardinality(Fixers(b)) \in Nat /\ Cardinality(Threads) \in Nat
          /\ Cardinality(Fixers(b)) <= Cardinality(Threads)
      <4>1. Fixers(b) \in SUBSET Threads
        BY DEF Fixers
      <4> QED
        BY <4>1, FixersFinite, FS_Subset, FS_CardinalityType, ConstantsAssumption
    <3> QED
      BY <3>1 DEF IInv, FixExact
  <2> DEFINE Fix == 0..Cardinality(Threads)
  <2>2. \A b \in Blocks : blk[b] \in Block /\ blk[b].fix \in Fix
    BY <2>1 DEF IInv, Typed
  <2> HIDE DEF Fix
  <2> DEFINE Exact == [state : {"NOT_USED", "READY_FOR_USE", "FILE_PAGE"},
                       page : Pages \cup {NoPage}, frame : Frames,
                       io : {"NONE", "READ", "WRITE"}, fix : Fix,
                       dirty : BOOLEAN, logged : BOOLEAN,
                       target : BOOLEAN, use : BOOLEAN]
  <2>3. \A b \in Blocks : blk[b] \in Exact
    BY <2>2 DEF Block
  <2> HIDE DEF Exact
  <2>4. blk \in [Blocks -> Exact]
    BY <2>3 DEF IInv, Typed
  <2> QED
    BY <2>4 DEF IInv, Typed, TypeOK, ThreadState, Exact, Fix
<1>2. HashExact
  BY DEF IInv, HashExact, BlockOK, HashOK, OwnersApart, Owning
<1> QED
  BY <1>1, <1>2 DEF IInv, PoolExact

\* The inductive invariant of the buffer pool holds at every step of any number
\* of threads, with the I/O threads and the page cleaner beside them.
THEOREM PoolInvariant == Spec => []IInv
<1>1. Init => IInv
  BY InitHolds
<1>2. IInv /\ [Next]_vars => IInv'
  <2> SUFFICES ASSUME IInv, [Next]_vars PROVE IInv'
    OBVIOUS
  <2>1. CASE UNCHANGED vars
    BY <2>1 DEF vars, IInv, Typed, ThreadOK, BlockOK, HashOK, FlagsEnd, OwnersApart, FixExact,
                Fixers
  <2>2. CASE Next
    <3>1. ASSUME NEW t \in Threads, Acquire(t) \/ Release(t) \/ GetFreeBlock(t) \/ ReadPage(t)
          PROVE  IInv'
      BY <3>1, AcquireStep, ReleaseStep, GetFreeBlockStep, ReadPageStep
    <3>2. ASSUME NEW b \in Blocks, IoThreads(b) \/ PageCleaner(b)
          PROVE  IInv'
      BY <3>2, IoThreadsStep
    <3> QED
      BY <2>2, <3>1, <3>2 DEF Next
  <2> QED
    BY <2>1, <2>2
<1> QED
  BY <1>1, <1>2, PTL DEF Spec

\* The page hash, the LRU list, the states of the blocks, their fix counts and the
\* flags of the RW command agree (buf_LRU_block_remove_hashed_for_rw_cmd beside
\* buf_LRU_free_page, buf_page_init_with_rw_cmd, buf_flush_single_page_with_rw_cmd).
THEOREM PoolIsExact == Spec => []PoolExact
  BY PoolInvariant, IInvIsEnough, PTL

-----------------------------------------------------------------------------
(***************************************************************************)
(* What is in the frames and on the disk.  WriteAhead and PagesInPlace are *)
(* not inductive, and neither is proved without the other: a RW command    *)
(* fills a frame from the disk, and the frame may be written later.  The   *)
(* strengthening says which frames are their page's (all but those that    *)
(* are still being read and those a RW command took), and that the changes *)
(* of a frame whose write has forced the log are in the log; the latch     *)
(* keeps writers out until the write is complete (LatchOK).                *)
(***************************************************************************)

\* The frame of block b was taken by a RW command for another page.
Taking == {"written", "remove"}
Overwritten(b) == \E t \in Threads : th[t].blk = b /\ th[t].pc \in Taking

DiskOK == \A p \in Pages : disk[p].page = p /\ disk[p].lsn <= log

FrameOK(b) ==
    /\ blk[b].logged => blk[b].io = "WRITE" /\ blk[b].frame.lsn <= log
    /\ blk[b].state = "FILE_PAGE" =>
         /\ blk[b].io # "READ" /\ ~Overwritten(b) => blk[b].frame.page = blk[b].page
         /\ blk[b].use => blk[b].frame.page = blk[b].page

LatchOK(t) ==
    /\ th[t].pc = "latched" /\ th[t].latch = "X" => blk[th[t].blk].io = "NONE"
    /\ th[t].pc \in {"read", "complete"} => blk[th[t].blk].page = th[t].page
    /\ th[t].pc = "complete" => blk[th[t].blk].frame.page = th[t].page

DInv ==
    /\ DiskOK
    /\ \A b \in Blocks : FrameOK(b)
    /\ \A t \in Threads : LatchOK(t)

\* What DInv reads of a thread and of a block.
SameThread(u) == /\ th'[u].pc = th[u].pc /\ th'[u].blk = th[u].blk
                 /\ th'[u].page = th[u].page /\ th'[u].latch = th[u].latch
SameFrame(b) == /\ blk'[b].state = blk[b].state /\ blk'[b].page = blk[b].page
                /\ blk'[b].io = blk[b].io /\ blk'[b].frame = blk[b].frame
                /\ blk'[b].use = blk[b].use /\ blk'[b].logged = blk[b].logged

\* A step on one block, or on none, by the threads in T.
LEMMA OneBlock ==
    ASSUME IInv, DInv, NEW b \in Blocks, NEW T \in SUBSET Threads,
           \A c \in Blocks : c # b => SameFrame(c),
           \A u \in Threads \ T : SameThread(u),
           DiskOK', log' \in Nat, log <= log', FrameOK(b)',
           \A u \in T : LatchOK(u)' /\ (th[u].pc \in Taking => th[u].blk = b),
           \A u \in Threads \ T : th[u].pc \in {"latched", "read", "complete"} /\ th[u].blk = b
              => LatchOK(u)'
    PROVE  DInv'
<1>1. \A c \in Blocks : FrameOK(c)'
  <2> SUFFICES ASSUME NEW c \in Blocks, c # b PROVE FrameOK(c)'
    OBVIOUS
  <2>1. SameFrame(c) /\ FrameOK(c)
    BY DEF DInv
  <2>2. Overwritten(c) => Overwritten(c)'
    BY DEF Overwritten, SameThread
  <2>3. blk[c].frame.lsn \in Nat /\ log \in Nat
    BY ConstantsAssumption DEF IInv, Typed, Block, Frames
  <2> QED
    BY <2>1, <2>2, <2>3 DEF FrameOK, SameFrame
<1>2. \A u \in Threads : LatchOK(u)'
  <2> SUFFICES ASSUME NEW u \in Threads, u \notin T PROVE LatchOK(u)'
    OBVIOUS
  <2>1. SameThread(u) /\ LatchOK(u)
    BY DEF DInv
  <2>2. CASE th[u].pc \in {"latched", "read", "complete"}
    <3>1. th[u].blk \in Blocks
      BY <2>2 DEF IInv, ThreadOK, Fixing, Owning
    <3>2. CASE th[u].blk = b
      BY <2>2, <3>2
    <3>3. CASE th[u].blk # b
      BY <2>1, <3>1, <3>3 DEF LatchOK, SameThread, SameFrame
    <3> QED
      BY <3>2, <3>3
  <2>3. CASE th[u].pc \notin {"latched", "read", "complete"}
    BY <2>1, <2>3 DEF LatchOK, SameThread
  <2> QED
    BY <2>2, <2>3
<1> QED
  BY <1>1, <1>2 DEF DInv

\* A step of one thread on one block.
LEMMA ThreadBlock ==
    ASSUME IInv, DInv, NEW b \in Blocks, NEW t \in Threads,
           \A c \in Blocks : c # b => SameFrame(c),
           \A u \in Threads : u # t => SameThread(u),
           DiskOK', log' \in Nat, log <= log', FrameOK(b)', LatchOK(t)',
           th[t].pc \in Taking => th[t].blk = b,
           \A u \in Threads : u # t /\ th[u].pc \in {"latched", "read", "complete"} /\ th[u].blk = b
              => LatchOK(u)'
    PROVE  DInv'
<1>1. PICK T \in SUBSET Threads : T = {t}
  OBVIOUS
<1>2. \A u \in Threads \ T : SameThread(u)
  BY <1>1
<1>3. \A u \in T : LatchOK(u)' /\ (th[u].pc \in Taking => th[u].blk = b)
  BY <1>1
<1>4. \A u \in Threads \ T : th[u].pc \in {"latched", "read", "complete"} /\ th[u].blk = b
         => LatchOK(u)'
  BY <1>1
<1> QED
  BY <1>2, <1>3, <1>4, OneBlock

\* A step of the I/O threads or of the page cleaner on one block.
LEMMA IoBlock ==
    ASSUME IInv, DInv, NEW b \in Blocks, UNCHANGED th,
           \A c \in Blocks : c # b => blk'[c] = blk[c],
           DiskOK', log' \in Nat, log <= log', FrameOK(b)',
           \A u \in Threads : th[u].pc \in {"latched", "read", "complete"} /\ th[u].blk = b
              => LatchOK(u)'
    PROVE  DInv'
<1>1. PICK T \in SUBSET Threads : T = {}
  OBVIOUS
<1>2. \A u \in Threads \ T : SameThread(u)
  BY DEF SameThread
<1>3. \A u \in T : LatchOK(u)' /\ (th[u].pc \in Taking => th[u].blk = b)
  BY <1>1
<1>4. \A u \in Threads \ T : th[u].pc \in {"latched", "read", "complete"} /\ th[u].blk = b
         => LatchOK(u)'
  OBVIOUS
<1>5. \A c \in Blocks : c # b => SameFrame(c)
  BY DEF SameFrame
<1> QED
  BY <1>2, <1>3, <1>4, <1>5, OneBlock

\* A step of a thread that changes no frame.
LEMMA NoBlockData ==
    ASSUME IInv, DInv, NEW t \in Threads, \A u \in Threads : u # t => SameThread(u),
           \A c \in Blocks : SameFrame(c), UNCHANGED <<disk, log>>,
           th[t].pc \notin Taking, LatchOK(t)'
    PROVE  DInv'
<1>1. DiskOK'
  BY DEF DInv, DiskOK
<1>2. \A c \in Blocks : FrameOK(c)'
  <2> SUFFICES ASSUME NEW c \in Blocks PROVE FrameOK(c)'
    OBVIOUS
  <2>1. SameFrame(c) /\ FrameOK(c)
    BY DEF DInv
  <2>2. Overwritten(c) => Overwritten(c)'
    BY DEF Overwritten, SameThread
  <2> QED
    BY <2>1, <2>2 DEF FrameOK, SameFrame
<1>3. \A u \in Threads : LatchOK(u)'
  <2> SUFFICES ASSUME NEW u \in Threads, u # t PROVE LatchOK(u)'
    OBVIOUS
  <2>1. SameThread(u) /\ LatchOK(u)
    BY DEF DInv
  <2>2. th[u].pc \in {"latched", "read", "complete"} => SameFrame(th[u].blk)
    BY DEF IInv, ThreadOK, Fixing, Owning
  <2> QED
    BY <2>1, <2>2 DEF LatchOK, SameThread, SameFrame
<1> QED
  BY <1>1, <1>2, <1>3 DEF DInv

\* Up to the latch no frame changes, and a latch for writing is given only when
\* no I/O is under way.
LEMMA AcquireData ==
    ASSUME IInv, DInv, NEW t \in Threads, Acquire(t)
    PROVE  DInv'
<1>0. /\ th[t] \in ThreadState /\ ThreadOK(t) /\ th \in [Threads -> ThreadState]
      /\ blk \in [Blocks -> Block]
  BY DEF IInv, Typed
<1>1. CASE Ask(t)
  <2>1. /\ th[t].pc = "idle" /\ th'[t].pc \in {"lookup", "free"}
        /\ \A u \in Threads : u # t => th'[u] = th[u]
        /\ UNCHANGED <<blk, disk, log>>
    BY <1>0, <1>1 DEF Ask, ThreadState
  <2> QED
    BY <2>1, NoBlockData DEF LatchOK, SameThread, SameFrame, Taking
<1>2. CASE Lookup(t)
  <2>1. /\ th[t].pc = "lookup" /\ th'[t].pc \in {"fix", "free"}
        /\ \A u \in Threads : u # t => th'[u] = th[u]
        /\ UNCHANGED <<blk, disk, log>>
    BY <1>0, <1>2 DEF Lookup, ThreadState
  <2> QED
    BY <2>1, NoBlockData DEF LatchOK, SameThread, SameFrame, Taking
<1>3. CASE buf_block_fix(t)
  <2>1. /\ th[t].pc = "fix" /\ th'[t].pc = "latch" /\ th[t].blk \in Blocks
        /\ \A u \in Threads : u # t => th'[u] = th[u]
        /\ UNCHANGED <<disk, log>>
    BY <1>0, <1>3 DEF buf_block_fix, Goto, ThreadState, ThreadOK
  <2>2. \A c \in Blocks : SameFrame(c)
    BY <1>0, <1>3, <2>1 DEF buf_block_fix, Block, SameFrame
  <2> QED
    BY <2>1, <2>2, NoBlockData DEF LatchOK, SameThread, Taking
<1>4. CASE Latch(t)
  <2>1. /\ th[t].pc = "latch" /\ th'[t].pc = "latched" /\ th'[t].blk = th[t].blk
        /\ th'[t].latch = "X" => blk[th[t].blk].io = "NONE"
        /\ \A u \in Threads : u # t => th'[u] = th[u]
        /\ UNCHANGED <<blk, disk, log>>
    BY <1>0, <1>4 DEF Latch, MayLatch, ThreadState
  <2> QED
    BY <2>1, NoBlockData DEF LatchOK, SameThread, SameFrame, Taking
<1>5. CASE OptimisticFix(t)
  <2>1. /\ th[t].pc = "idle" /\ th'[t].pc = "try" /\ th[t].saved \in Blocks
        /\ \A u \in Threads : u # t => th'[u] = th[u]
        /\ UNCHANGED <<disk, log>>
    BY <1>0, <1>5 DEF OptimisticFix, ThreadState
  <2>2. \A c \in Blocks : SameFrame(c)
    BY <1>0, <1>5, <2>1 DEF OptimisticFix, Block, SameFrame
  <2> QED
    BY <2>1, <2>2, NoBlockData DEF LatchOK, SameThread, Taking
<1>6. CASE OptimisticLatch(t)
  <2> DEFINE b == th[t].blk
  <2>1. /\ th[t].pc = "try" /\ b \in Blocks
        /\ \/ /\ th'[t].pc = "latched" /\ th'[t].blk = b /\ UNCHANGED blk
              /\ th'[t].latch = "X" => blk[b].io = "NONE"
           \/ th'[t].pc = "idle" /\ blk' = [blk EXCEPT ![b].fix = @ - 1]
        /\ \A u \in Threads : u # t => th'[u] = th[u]
        /\ UNCHANGED <<disk, log>>
    BY <1>0, <1>6 DEF OptimisticLatch, MayLatch, ThreadState, ThreadOK, Fixing
  <2>2. \A c \in Blocks : SameFrame(c)
    BY <1>0, <2>1 DEF Block, SameFrame
  <2>3. LatchOK(t)'
    BY <2>1 DEF LatchOK
  <2> QED
    BY <2>1, <2>2, <2>3, NoBlockData DEF SameThread, Taking
<1> QED
  BY <1>1, <1>2, <1>3, <1>4, <1>5, <1>6 DEF Acquire

\* A thread modifies the page it has latched: no write of it is under way, so
\* none has forced the log already.
LEMMA ReleaseData ==
    ASSUME IInv, DInv, NEW t \in Threads, Release(t)
    PROVE  DInv'
<1> DEFINE n == lsn + 1
<1>0. /\ th[t] \in ThreadState /\ ThreadOK(t) /\ th \in [Threads -> ThreadState]
      /\ blk \in [Blocks -> Block]
  BY DEF IInv, Typed
<1>b. PICK b \in Blocks : b = th[t].blk
  BY <1>0 DEF Release, ThreadOK, Fixing
<1>1. PICK mod \in BOOLEAN :
        /\ mod => th[t].latch = "X"
        /\ blk' = IF mod THEN [blk EXCEPT ![b].fix = @ - 1, ![b].dirty = TRUE,
                                          ![b].frame.lsn = n]
                         ELSE [blk EXCEPT ![b].fix = @ - 1]
  BY <1>b DEF Release
<1>2. /\ th[t].pc = "latched" /\ th'[t].pc = "idle"
      /\ \A u \in Threads : u # t => th'[u] = th[u]
      /\ UNCHANGED <<disk, log>>
  BY <1>0 DEF Release, ThreadState
<1>3. LatchOK(t)' /\ th[t].pc \notin Taking
  BY <1>2 DEF LatchOK, Taking
<1>4. CASE ~mod
  <2>1. \A c \in Blocks : SameFrame(c)
    BY <1>0, <1>1, <1>2, <1>4 DEF Block, SameFrame
  <2> QED
    BY <1>2, <1>3, <2>1, NoBlockData DEF SameThread
<1>5. CASE mod
  <2> DEFINE F == [blk[b].frame EXCEPT !.lsn = n]
             B == [blk[b] EXCEPT !.fix = @ - 1, !.dirty = TRUE, !.frame = F]
  <2>1. blk' = [blk EXCEPT ![b] = B]
    BY <1>0, <1>1, <1>2, <1>5
  <2>2. blk[b] \in Block /\ blk[b].frame \in Frames
    BY <1>0, <1>2 DEF Block
  <2>3. F.page = blk[b].frame.page
    BY <2>2 DEF Frames
  <2> HIDE DEF F
  <2>4. /\ B.state = blk[b].state /\ B.page = blk[b].page /\ B.io = blk[b].io /\ B.frame = F
        /\ B.use = blk[b].use /\ B.logged = blk[b].logged
    BY <2>2 DEF Block
  <2> HIDE DEF B
  <2>5. blk'[b] = B /\ \A c \in Blocks : c # b => blk'[c] = blk[c]
    BY <1>0, <1>2, <2>1
  <2>6. ~blk[b].logged
    <3>1. blk[b].io = "NONE"
      BY <1>b, <1>1, <1>2, <1>5 DEF DInv, LatchOK
    <3> QED
      BY <1>2, <3>1 DEF DInv, FrameOK
  <2>7. FrameOK(b)'
    <3>1. Overwritten(b) => Overwritten(b)'
      BY <1>2, <1>3 DEF Overwritten
    <3>2. FrameOK(b)
      BY <1>2 DEF DInv
    <3> QED
      BY <2>3, <2>4, <2>5, <2>6, <3>1, <3>2 DEF FrameOK
  <2>8. \A u \in Threads : u # t /\ th[u].pc \in {"latched", "read", "complete"} /\ th[u].blk = b
           => LatchOK(u)'
    <3> SUFFICES ASSUME NEW u \in Threads, u # t, th[u].blk = b PROVE LatchOK(u)'
      OBVIOUS
    <3>1. LatchOK(u) /\ th'[u] = th[u]
      BY <1>2 DEF DInv
    <3> QED
      BY <2>3, <2>4, <2>5, <3>1 DEF LatchOK
  <2>9. DiskOK' /\ log' \in Nat /\ log <= log'
    BY <1>2, ConstantsAssumption DEF DInv, DiskOK, IInv, Typed
  <2>10. \A c \in Blocks : c # b => SameFrame(c)
    BY <2>5 DEF SameFrame
  <2>11. \A u \in Threads : u # t => SameThread(u)
    BY <1>2 DEF SameThread
  <2> QED
    BY <1>3, <2>7, <2>8, <2>9, <2>10, <2>11, ThreadBlock
<1> QED
  BY <1>4, <1>5


\* A page that is evicted: nobody is inside, and no write of it is under way.
LEMMA FreePageData ==
    ASSUME IInv, DInv, NEW b \in Blocks, NEW t \in Threads \cup {NoBlock},
           NEW pc \in {"free", "idle"},
           t \in Threads => th[t].pc \in {"free", "reuse"} /\ pc = "free",
           buf_LRU_free_page(b, t, pc)
    PROVE  DInv'
<1>0. /\ blk[b].io = "NONE"
      /\ \A u \in Threads : th[u].pc \in Owning \cup Fixing \cup {"fix"} => th[u].blk # b
  BY ReplaceableIsUnheld DEF buf_LRU_free_page
<1>1. /\ blk' = [blk EXCEPT ![b] = Freed(b)]
      /\ UNCHANGED <<disk, log>> /\ Forget(b, t, pc)
  BY DEF buf_LRU_free_page
<1>2. Freed(b).state # "FILE_PAGE" /\ Freed(b).logged = blk[b].logged
  BY DEF Freed, IInv, Typed, Block
<1>3. ~blk[b].logged
  BY <1>0 DEF DInv, FrameOK
<1>4. \A u \in Threads :
        /\ th'[u].pc = IF u = t THEN pc ELSE th[u].pc
        /\ th'[u].page = th[u].page /\ th'[u].blk = th[u].blk /\ th'[u].latch = th[u].latch
  <2>1. pc \in Places
    BY DEF Places
  <2> QED
    BY <1>1, <2>1, Forgotten
<1>5. \A c \in Blocks : blk'[c] = IF c = b THEN Freed(b) ELSE blk[c]
  BY <1>1 DEF IInv, Typed
<1>6. PICK T \in SUBSET Threads : T = {u \in Threads : u = t}
  OBVIOUS
<1>7. \A u \in Threads \ T : SameThread(u)
  BY <1>4, <1>6 DEF SameThread
<1>8. \A u \in T : LatchOK(u)' /\ (th[u].pc \in Taking => th[u].blk = b)
  BY <1>4, <1>6 DEF LatchOK, Taking
<1>9. \A u \in Threads \ T : th[u].pc \in {"latched", "read", "complete"} /\ th[u].blk = b
         => LatchOK(u)'
  BY <1>0 DEF Owning, Fixing
<1>10. \A c \in Blocks : c # b => SameFrame(c)
  BY <1>5 DEF SameFrame
<1>11. FrameOK(b)'
  BY <1>2, <1>3, <1>5 DEF FrameOK
<1>12. DiskOK' /\ log' \in Nat /\ log <= log'
  BY <1>1, ConstantsAssumption DEF DInv, DiskOK, IInv, Typed
<1> QED
  BY <1>7, <1>8, <1>9, <1>10, <1>11, <1>12, OneBlock

\* Once the log is forced, the changes of the frame are in it.
LEMMA LogForcedData ==
    ASSUME IInv, DInv, NEW b \in Blocks, LogForced(b)
    PROVE  DInv'
<1>1. log \in Nat /\ log' \in Nat /\ log <= log' /\ blk[b].frame.lsn <= log'
  BY LogMoves DEF LogForced
<1>2. /\ UNCHANGED <<disk, th>> /\ blk[b].io = "WRITE"
      /\ blk' = [blk EXCEPT ![b].logged = TRUE]
  BY DEF LogForced
<1>3. /\ \A c \in Blocks : c # b => blk'[c] = blk[c]
      /\ blk'[b].state = blk[b].state /\ blk'[b].page = blk[b].page
      /\ blk'[b].frame = blk[b].frame /\ blk'[b].io = blk[b].io /\ blk'[b].use = blk[b].use
  BY <1>2 DEF IInv, Typed, Block
<1>4. FrameOK(b)'
  <2>1. FrameOK(b) /\ (Overwritten(b)' <=> Overwritten(b))
    BY <1>2 DEF DInv, Overwritten
  <2> QED
    BY <1>1, <1>2, <1>3, <2>1 DEF FrameOK
<1>5. DiskOK'
  <2>1. \A p \in Pages : disk[p].lsn \in Nat
    BY ConstantsAssumption DEF IInv, Typed, Frames
  <2> QED
    BY <1>1, <1>2, <2>1 DEF DInv, DiskOK
<1>6. \A u \in Threads : th[u].pc \in {"latched", "read", "complete"} /\ th[u].blk = b
         => LatchOK(u)'
  BY <1>2, <1>3 DEF DInv, LatchOK
<1> QED
  BY <1>1, <1>2, <1>3, <1>4, <1>5, <1>6, IoBlock

\* A page is written from a frame that is its own, after its changes were logged.
LEMMA WrittenData ==
    ASSUME IInv, DInv, NEW b \in Blocks, blk[b].state = "FILE_PAGE", blk[b].io = "WRITE",
           blk[b].logged, ~Overwritten(b), disk' = Written(b), UNCHANGED log
    PROVE  DiskOK' /\ log' \in Nat /\ log <= log'
<1>1. blk[b].page \in Pages
  BY DEF IInv, BlockOK
<1>2. blk[b].frame.page = blk[b].page /\ blk[b].frame.lsn <= log
  BY DEF DInv, FrameOK
<1>3. \A p \in Pages : disk'[p] = IF p = blk[b].page THEN blk[b].frame ELSE disk[p]
  BY <1>1 DEF IInv, Typed, Written
<1> QED
  BY <1>2, <1>3, ConstantsAssumption DEF DInv, DiskOK, IInv, Typed

\* What is left of the frame when the write is complete.
LEMMA CompletedData ==
    ASSUME IInv, DInv, NEW b \in Blocks, blk[b].state = "FILE_PAGE", blk[b].io = "WRITE",
           blk' = WriteCompleted(b), Overwritten(b) => Overwritten(b)'
    PROVE  /\ FrameOK(b)' /\ \A c \in Blocks : c # b => blk'[c] = blk[c]
           /\ blk'[b].io = "NONE" /\ blk'[b].page = blk[b].page /\ blk'[b].frame = blk[b].frame
<1>1. /\ \A c \in Blocks : c # b => blk'[c] = blk[c]
      /\ blk'[b].state = blk[b].state /\ blk'[b].page = blk[b].page
      /\ blk'[b].frame = blk[b].frame /\ blk'[b].io = "NONE" /\ blk'[b].use = blk[b].use
      /\ blk'[b].logged = FALSE
  BY DEF IInv, Typed, Block, WriteCompleted
<1>2. FrameOK(b)
  BY DEF DInv
<1> QED
  BY <1>1, <1>2 DEF FrameOK

\* A block that a thread owns is in no other thread's hands.
LEMMA OwnedAlone ==
    ASSUME IInv, NEW t \in Threads, th[t].pc \in Owning
    PROVE  /\ th[t].blk \in Blocks
           /\ \A u \in Threads : u # t /\ th[u].pc \in Owning => th[u].blk # th[t].blk
  BY DEF IInv, ThreadOK, OwnersApart

\* Nobody is inside a page that is not fixed.
LEMMA UnfixedAlone ==
    ASSUME IInv, NEW b \in Blocks, blk[b].fix = 0, NEW u \in Threads, th[u].pc \in Fixing
    PROVE  th[u].blk # b
<1>1. Fixers(b) = {}
  BY FixersFinite, FS_EmptySet DEF IInv, FixExact
<1> QED
  BY <1>1 DEF Fixers

\* A thread that may have the page of a block latched while another writes it.
LEMMA OthersLatch ==
    ASSUME IInv, DInv, NEW b \in Blocks, NEW u \in Threads, SameThread(u), th[u].blk = b,
           th[u].pc = "latched" => blk'[b].io \in {blk[b].io, "NONE"},
           th[u].pc \notin {"read", "complete"}
    PROVE  LatchOK(u)'
  BY DEF DInv, LatchOK, SameThread

\* Choosing a block to write: nobody is inside, and no write of it is under way.
LEMMA ChosenData ==
    ASSUME IInv, DInv, NEW t \in Threads, NEW b \in Blocks,
           th[t].pc \notin Taking, th'[t].pc \in {"rw", "single"},
           \A u \in Threads : u # t => th'[u] = th[u],
           \A c \in Blocks : c # b => blk'[c] = blk[c],
           blk[b].fix = 0, blk[b].io = "NONE", blk'[b].io = "WRITE",
           blk'[b].state = blk[b].state, blk'[b].page = blk[b].page,
           blk'[b].frame = blk[b].frame, blk'[b].use = blk[b].use,
           blk'[b].logged = blk[b].logged, UNCHANGED <<disk, log>>
    PROVE  DInv'
<1>1. FrameOK(b)'
  <2>1. FrameOK(b) /\ (Overwritten(b) => Overwritten(b)')
    BY DEF DInv, Overwritten
  <2> QED
    BY <2>1 DEF FrameOK
<1>2. DiskOK' /\ log' \in Nat /\ log <= log' /\ LatchOK(t)'
  BY ConstantsAssumption DEF DInv, DiskOK, IInv, Typed, LatchOK
<1>3. \A u \in Threads : u # t /\ th[u].pc \in {"latched", "read", "complete"} /\ th[u].blk = b
         => LatchOK(u)'
  BY UnfixedAlone DEF Fixing, IInv, ThreadOK
<1>4. /\ \A c \in Blocks : c # b => SameFrame(c)
      /\ \A u \in Threads : u # t => SameThread(u)
  BY DEF SameFrame, SameThread
<1> QED
  BY <1>1, <1>2, <1>3, <1>4, ThreadBlock

\* The RW command: the frame goes to the disk and takes the page asked for.
LEMMA RwIoData ==
    ASSUME IInv, DInv, NEW t \in Threads, RwIo(t)
    PROVE  DInv'
<1>0. /\ th[t] \in ThreadState /\ ThreadOK(t) /\ th \in [Threads -> ThreadState]
      /\ blk \in [Blocks -> Block] /\ th[t].pc = "rw"
  BY DEF IInv, Typed, RwIo
<1>b. PICK b \in Blocks : b = th[t].blk
  BY <1>0 DEF ThreadOK, Owning
<1>1. \A u \in Threads : u # t /\ th[u].pc \in Owning => th[u].blk # b
  BY <1>0, <1>b, OwnedAlone DEF Owning
<1>2. /\ blk[b].logged /\ disk' = Written(b) /\ UNCHANGED log
      /\ blk' = [blk EXCEPT ![b].frame = PageRead(t, disk')]
      /\ th' = [th EXCEPT ![t].pc = "written"]
  BY <1>b DEF RwIo, Goto
<1>3. /\ th'[t].pc = "written" /\ th'[t].blk = b
      /\ \A u \in Threads : u # t => th'[u] = th[u]
  BY <1>0, <1>b, <1>2 DEF ThreadState
<1>4. /\ \A c \in Blocks : c # b => blk'[c] = blk[c]
      /\ blk'[b].frame = PageRead(t, disk') /\ blk'[b].io = blk[b].io
      /\ blk'[b].state = blk[b].state /\ blk'[b].use = blk[b].use
  BY <1>0, <1>2 DEF Block
<1>5. /\ blk[b].io = "WRITE" /\ blk[b].state = "FILE_PAGE" /\ ~Overwritten(b)
      /\ ~blk[b].use
  <2>1. blk[b].io = "WRITE" /\ blk[b].state = "FILE_PAGE" /\ b \in lru
    BY <1>0, <1>b DEF ThreadOK, IInv, BlockOK
  <2>2. ~Overwritten(b)
    BY <1>0, <1>1 DEF Overwritten, Taking, Owning
  <2>3. ~blk[b].use
    BY <1>0, <1>1, <2>1 DEF IInv, FlagsEnd, Owning
  <2> QED
    BY <2>1, <2>2, <2>3
<1>6. DiskOK' /\ log' \in Nat /\ log <= log'
  BY <1>2, <1>5, WrittenData
<1>7. FrameOK(b)'
  <2>1. Overwritten(b)'
    BY <1>3 DEF Overwritten, Taking
  <2>2. PageRead(t, disk').lsn <= log'
    <3>1. th[t].page \in Pages
      BY <1>0 DEF ThreadOK
    <3> QED
      BY <1>6, <3>1 DEF PageRead, DiskOK
  <2> QED
    BY <1>4, <1>5, <2>1, <2>2 DEF FrameOK
<1>8. \A u \in Threads : u # t /\ th[u].pc \in {"latched", "read", "complete"} /\ th[u].blk = b
         => LatchOK(u)'
  <2> SUFFICES ASSUME NEW u \in Threads, u # t, th[u].blk = b PROVE LatchOK(u)'
    OBVIOUS
  <2>1. th[u].pc \notin {"read", "complete"}
    BY <1>1 DEF Owning
  <2> QED
    BY <1>3, <1>4, <2>1, OthersLatch DEF SameThread
<1>9. /\ \A c \in Blocks : c # b => SameFrame(c)
      /\ \A u \in Threads : u # t => SameThread(u)
      /\ LatchOK(t)'
  BY <1>3, <1>4 DEF SameFrame, SameThread, LatchOK
<1> QED
  BY <1>b, <1>6, <1>7, <1>8, <1>9, ThreadBlock


\* The victim's block leaves the page hash for the page that was read into it.
LEMMA RemoveData ==
    ASSUME IInv, DInv, NEW t \in Threads, buf_LRU_block_remove_hashed_for_rw_cmd(t)
    PROVE  DInv'
<1>0. ThreadOK(t) /\ blk \in [Blocks -> Block] /\ th[t].pc = "remove"
  BY DEF IInv, Typed, buf_LRU_block_remove_hashed_for_rw_cmd
<1>b. PICK b \in Blocks : b = th[t].blk
  BY <1>0 DEF ThreadOK, Owning
<1>1. CASE RemoveAsserts(b) # "no"
  <2>1. UNCHANGED <<blk, th, disk, log>>
    BY <1>b, <1>1 DEF buf_LRU_block_remove_hashed_for_rw_cmd
  <2> QED
    BY <2>1 DEF DInv, DiskOK, FrameOK, LatchOK, Overwritten
<1>2. CASE RemoveAsserts(b) = "no"
  <2>1. /\ blk' = [blk EXCEPT ![b] = Taken(b)] /\ Forget(b, t, "init")
        /\ UNCHANGED <<disk, log>>
    BY <1>b, <1>2 DEF buf_LRU_block_remove_hashed_for_rw_cmd
  <2>2. blk[b].io = "NONE" /\ blk[b].fix = 0
    BY <1>2 DEF RemoveAsserts
  <2>3. /\ \A c \in Blocks : c # b => blk'[c] = blk[c]
        /\ blk'[b].state = "READY_FOR_USE" /\ blk'[b].logged = blk[b].logged
    BY <1>0, <2>1 DEF Block, Taken
  <2>4. /\ th'[t].pc = "init"
        /\ \A u \in Threads : u # t => SameThread(u)
    <3>1. "init" \in Places
      BY DEF Places
    <3> QED
      BY <2>1, <3>1, Forgotten DEF SameThread
  <2>5. FrameOK(b)'
    BY <2>2, <2>3 DEF DInv, FrameOK
  <2>6. \A u \in Threads : u # t /\ th[u].pc \in {"latched", "read", "complete"} /\ th[u].blk = b
           => LatchOK(u)'
    BY <1>0, <1>b, <2>2, UnfixedAlone, OwnedAlone DEF Fixing, Owning
  <2>7. DiskOK' /\ log' \in Nat /\ log <= log' /\ LatchOK(t)'
    BY <2>1, <2>4, ConstantsAssumption DEF DInv, DiskOK, IInv, Typed, LatchOK
  <2>8. \A c \in Blocks : c # b => SameFrame(c)
    BY <2>3 DEF SameFrame
  <2> QED
    BY <1>b, <2>4, <2>5, <2>6, <2>7, <2>8, ThreadBlock
<1> QED
  BY <1>1, <1>2

\* A thread completes a write of its own: the RW command's or that of one page.
LEMMA OwnWriteData ==
    ASSUME IInv, DInv, NEW t \in Threads, RwComplete(t) \/ SingleEnd(t)
    PROVE  DInv'
<1>0. /\ th[t] \in ThreadState /\ ThreadOK(t) /\ th \in [Threads -> ThreadState]
      /\ th[t].pc \in {"written", "single"}
  BY DEF IInv, Typed, RwComplete, SingleEnd
<1>b. PICK b \in Blocks : b = th[t].blk
  BY <1>0 DEF ThreadOK, Owning
<1>1. \A u \in Threads : u # t /\ th[u].pc \in Owning => th[u].blk # b
  BY <1>0, <1>b, OwnedAlone DEF Owning
<1>2. blk[b].io = "WRITE" /\ blk[b].state = "FILE_PAGE"
  BY <1>0, <1>b DEF ThreadOK, IInv, BlockOK
<1>3. blk' = WriteCompleted(b)
  BY <1>b DEF RwComplete, SingleEnd
<1>4. /\ \A u \in Threads : u # t => th'[u] = th[u]
      /\ th'[t].pc \in {"remove", "reuse"}
      /\ th[t].pc = "written" => th'[t].pc = "remove" /\ th'[t].blk = b
  BY <1>0, <1>b DEF RwComplete, SingleEnd, Goto, ThreadState
<1>5. Overwritten(b) => Overwritten(b)'
  BY <1>0, <1>4 DEF Overwritten, Taking
<1>6. /\ FrameOK(b)' /\ \A c \in Blocks : c # b => blk'[c] = blk[c]
      /\ blk'[b].io = "NONE"
  BY <1>2, <1>3, <1>5, CompletedData
<1>7. DiskOK' /\ log' \in Nat /\ log <= log'
  <2>1. CASE RwComplete(t)
    BY <2>1, ConstantsAssumption DEF DInv, DiskOK, IInv, Typed, RwComplete
  <2>2. CASE SingleEnd(t)
    <3>1. ~Overwritten(b)
      BY <1>1, <2>2 DEF Overwritten, Taking, Owning, SingleEnd
    <3>2. blk[b].logged /\ disk' = Written(b) /\ UNCHANGED log
      BY <1>b, <2>2 DEF SingleEnd
    <3> QED
      BY <1>2, <3>1, <3>2, WrittenData
  <2> QED
    BY <2>1, <2>2
<1>8. \A u \in Threads : u # t /\ th[u].pc \in {"latched", "read", "complete"} /\ th[u].blk = b
         => LatchOK(u)'
  <2> SUFFICES ASSUME NEW u \in Threads, u # t, th[u].blk = b PROVE LatchOK(u)'
    OBVIOUS
  <2>1. th[u].pc \notin {"read", "complete"}
    BY <1>1 DEF Owning
  <2> QED
    BY <1>4, <1>6, <2>1, OthersLatch DEF SameThread
<1>9. /\ \A c \in Blocks : c # b => SameFrame(c)
      /\ \A u \in Threads : u # t => SameThread(u)
      /\ LatchOK(t)'
  BY <1>4, <1>6 DEF SameFrame, SameThread, LatchOK
<1> QED
  BY <1>b, <1>6, <1>7, <1>8, <1>9, ThreadBlock

\* Getting a free block, by any of its ways.
LEMMA GetFreeBlockData ==
    ASSUME IInv, DInv, NEW t \in Threads, GetFreeBlock(t)
    PROVE  DInv'
<1>0. /\ th[t] \in ThreadState /\ ThreadOK(t) /\ th \in [Threads -> ThreadState]
      /\ blk \in [Blocks -> Block]
  BY DEF IInv, Typed
<1>1. CASE buf_LRU_get_free_only(t)
  <2>1. PICK b \in Blocks : /\ b \in free /\ blk' = [blk EXCEPT ![b].state = "READY_FOR_USE"]
                            /\ th' = [th EXCEPT ![t].pc = "init", ![t].blk = b]
    BY <1>1 DEF buf_LRU_get_free_only, IInv, Typed
  <2>2. blk[b].state = "NOT_USED" /\ blk[b].io = "NONE"
    BY <2>1 DEF IInv, BlockOK
  <2>3. /\ \A c \in Blocks : c # b => blk'[c] = blk[c]
        /\ blk'[b].state = "READY_FOR_USE" /\ blk'[b].logged = blk[b].logged
    BY <1>0, <2>1 DEF Block
  <2>4. /\ th[t].pc = "free" /\ th'[t].pc = "init" /\ UNCHANGED <<disk, log>>
        /\ \A u \in Threads : u # t => th'[u] = th[u]
    BY <1>0, <1>1, <2>1 DEF buf_LRU_get_free_only, ThreadState
  <2>5. FrameOK(b)'
    BY <2>2, <2>3 DEF DInv, FrameOK
  <2>6. \A u \in Threads : u # t /\ th[u].pc \in {"latched", "read", "complete"} /\ th[u].blk = b
           => LatchOK(u)'
    BY <2>2 DEF IInv, ThreadOK, Fixing
  <2>7. DiskOK' /\ log' \in Nat /\ log <= log' /\ LatchOK(t)' /\ th[t].pc \notin Taking
    BY <2>4, ConstantsAssumption DEF DInv, DiskOK, IInv, Typed, LatchOK, Taking
  <2>8. /\ \A c \in Blocks : c # b => SameFrame(c)
        /\ \A u \in Threads : u # t => SameThread(u)
    BY <2>3, <2>4 DEF SameFrame, SameThread
  <2> QED
    BY <2>5, <2>6, <2>7, <2>8, ThreadBlock
<1>2. CASE buf_LRU_scan_and_free_block(t)
  BY <1>2, FreePageData DEF buf_LRU_scan_and_free_block
<1>3. CASE NoFreeBlock(t) \/ SingleNone(t)
  <2>1. /\ th[t].pc \in {"free", "flush"} /\ th'[t].pc \in {"select", "free"}
        /\ \A u \in Threads : u # t => th'[u] = th[u]
        /\ UNCHANGED <<blk, disk, log>>
    BY <1>0, <1>3 DEF NoFreeBlock, SingleNone, ScanAgain, Goto, ThreadState
  <2> QED
    BY <2>1, NoBlockData DEF LatchOK, SameThread, SameFrame, Taking
<1>4. CASE SelectVictim(t)
  <2>1. CASE Victims = {}
    <3>1. /\ th[t].pc = "select" /\ th'[t].pc = "flush"
          /\ \A u \in Threads : u # t => th'[u] = th[u]
          /\ UNCHANGED <<blk, disk, log>>
      BY <1>0, <1>4, <2>1 DEF SelectVictim, Goto, ThreadState
    <3> QED
      BY <3>1, NoBlockData DEF LatchOK, SameThread, SameFrame, Taking
  <2>2. CASE Victims # {}
    <3>1. PICK b \in Blocks :
            /\ blk[b].fix = 0 /\ blk[b].io = "NONE"
            /\ blk' = [blk EXCEPT ![b].target = TRUE, ![b].io = "WRITE"]
            /\ th' = [th EXCEPT ![t].pc = "rw", ![t].blk = b]
      BY <1>4, <2>2 DEF SelectVictim, Victims, buf_flush_ready_for_flush
    <3>2. /\ \A c \in Blocks : c # b => blk'[c] = blk[c]
          /\ blk'[b].io = "WRITE" /\ blk'[b].state = blk[b].state /\ blk'[b].page = blk[b].page
          /\ blk'[b].frame = blk[b].frame /\ blk'[b].use = blk[b].use
          /\ blk'[b].logged = blk[b].logged
      BY <1>0, <3>1 DEF Block
    <3>3. /\ th[t].pc = "select" /\ th'[t].pc = "rw" /\ UNCHANGED <<disk, log>>
          /\ \A u \in Threads : u # t => th'[u] = th[u]
      BY <1>0, <1>4, <3>1 DEF SelectVictim, ThreadState
    <3> QED
      BY <3>1, <3>2, <3>3, ChosenData DEF Taking
  <2> QED
    BY <2>1, <2>2
<1>5. CASE SingleStart(t)
  <2>1. PICK b \in Blocks :
          /\ blk[b].fix = 0 /\ blk[b].io = "NONE"
          /\ blk' = [blk EXCEPT ![b].io = "WRITE"]
          /\ th' = [th EXCEPT ![t].pc = "single", ![t].blk = b]
    BY <1>5 DEF SingleStart, SingleTargets, buf_flush_ready_for_flush
  <2>2. /\ \A c \in Blocks : c # b => blk'[c] = blk[c]
        /\ blk'[b].io = "WRITE" /\ blk'[b].state = blk[b].state /\ blk'[b].page = blk[b].page
        /\ blk'[b].frame = blk[b].frame /\ blk'[b].use = blk[b].use
        /\ blk'[b].logged = blk[b].logged
    BY <1>0, <2>1 DEF Block
  <2>3. /\ th[t].pc = "flush" /\ th'[t].pc = "single" /\ UNCHANGED <<disk, log>>
        /\ \A u \in Threads : u # t => th'[u] = th[u]
    BY <1>0, <1>5, <2>1 DEF SingleStart, ThreadState
  <2> QED
    BY <2>1, <2>2, <2>3, ChosenData DEF Taking
<1>6. CASE RwLog(t) \/ SingleLog(t)
  BY <1>0, <1>6, LogForcedData DEF RwLog, SingleLog, ThreadOK, Owning
<1>7. CASE SingleFree(t)
  <2>1. CASE \E b \in Blocks : buf_LRU_free_page(b, t, "free")
    BY <1>7, <2>1, FreePageData DEF SingleFree
  <2>2. CASE ~\E b \in Blocks : buf_LRU_free_page(b, t, "free")
    <3>1. /\ th[t].pc = "reuse" /\ th'[t].pc = "free"
          /\ \A u \in Threads : u # t => th'[u] = th[u]
          /\ UNCHANGED <<blk, disk, log>>
      BY <1>0, <1>7, <2>2 DEF SingleFree, ScanAgain, ThreadState
    <3> QED
      BY <3>1, NoBlockData DEF LatchOK, SameThread, SameFrame, Taking
  <2> QED
    BY <2>1, <2>2
<1> QED
  BY <1>1, <1>2, <1>3, <1>4, <1>5, <1>6, <1>7, RwIoData, RemoveData, OwnWriteData
     DEF GetFreeBlock


\* Reading the page in: the read is skipped only into a frame that is the page's.
LEMMA ReadPageData ==
    ASSUME IInv, DInv, NEW t \in Threads, ReadPage(t)
    PROVE  DInv'
<1>0. /\ th[t] \in ThreadState /\ ThreadOK(t) /\ th \in [Threads -> ThreadState]
      /\ blk \in [Blocks -> Block] /\ th[t].pc \in {"init", "read", "complete"}
      /\ UNCHANGED <<disk, log>>
  BY DEF IInv, Typed, ReadPage, InitForRead, AlreadyInPool, ReadIn, ReadComplete
<1>b. PICK b \in Blocks : b = th[t].blk
  BY <1>0 DEF ThreadOK, Owning
<1>1. \A u \in Threads : u # t /\ th[u].pc \in Owning => th[u].blk # b
  BY <1>0, <1>b, OwnedAlone DEF Owning
<1>2. DiskOK' /\ log' \in Nat /\ log <= log' /\ th[t].pc \notin Taking
  BY <1>0, ConstantsAssumption DEF DInv, DiskOK, IInv, Typed, Taking
<1>3. blk[b].io # "WRITE" /\ ~blk[b].logged
  <2>1. blk[b].io # "WRITE"
    BY <1>0, <1>b DEF ThreadOK, IInv, BlockOK
  <2> QED
    BY <2>1 DEF DInv, FrameOK
<1>4. ASSUME \A u \in Threads : u # t => th'[u] = th[u],
             \A c \in Blocks : c # b => blk'[c] = blk[c],
             FrameOK(b)', LatchOK(t)', blk'[b].io \in {blk[b].io, "NONE"} \/ th[t].pc = "init"
      PROVE  DInv'
  <2>1. \A u \in Threads : u # t /\ th[u].pc \in {"latched", "read", "complete"} /\ th[u].blk = b
           => LatchOK(u)'
    <3> SUFFICES ASSUME NEW u \in Threads, u # t, th[u].blk = b,
                        th[u].pc \in {"latched", "read", "complete"}
                 PROVE  LatchOK(u)'
      OBVIOUS
    <3>1. th[u].pc = "latched"
      BY <1>1 DEF Owning
    <3>2. blk[b].state = "FILE_PAGE"
      BY <3>1 DEF IInv, ThreadOK, Fixing
    <3>3. th[t].pc # "init"
      BY <1>0, <1>b, <3>2 DEF ThreadOK
    <3> QED
      BY <1>4, <3>1, <3>3, OthersLatch DEF SameThread
  <2>2. /\ \A c \in Blocks : c # b => SameFrame(c)
        /\ \A u \in Threads : u # t => SameThread(u)
    BY <1>4 DEF SameFrame, SameThread
  <2> QED
    BY <1>b, <1>2, <1>4, <2>1, <2>2, ThreadBlock
<1>5. CASE InitForRead(t)
  <2>1. /\ th[t].pc = "init" /\ blk' = [blk EXCEPT ![b] = Inited(b, th[t].page)]
        /\ \A u \in Threads : u # t => th'[u] = th[u]
        /\ \/ th'[t].pc = "read" /\ th'[t].blk = b /\ th'[t].page = th[t].page
           \/ th'[t].pc = "idle"
    BY <1>0, <1>b, <1>5 DEF InitForRead, ThreadState
  <2>2. /\ \A c \in Blocks : c # b => blk'[c] = blk[c]
        /\ blk'[b].io = "READ" /\ blk'[b].logged = blk[b].logged
        /\ blk'[b].page = th[t].page /\ blk'[b].frame = blk[b].frame
        /\ blk'[b].use => blk[b].frame.page = th[t].page
    <3> DEFINE U == blk[b].use /\ blk[b].frame.page = th[t].page
               B == [blk[b] EXCEPT !.state = "FILE_PAGE", !.page = th[t].page, !.io = "READ",
                                   !.fix = 0, !.dirty = FALSE, !.target = FALSE, !.use = U]
    <3>1. Inited(b, th[t].page) = B
      BY Zenon DEF Inited
    <3>2. U => blk[b].frame.page = th[t].page
      OBVIOUS
    <3> HIDE DEF U
    <3>3. blk[b] \in Block
      BY <1>0
    <3>4. /\ B.io = "READ" /\ B.logged = blk[b].logged /\ B.page = th[t].page
          /\ B.frame = blk[b].frame /\ B.use = U
      BY <3>3 DEF Block
    <3> HIDE DEF B
    <3>5. blk'[b] = B /\ \A c \in Blocks : c # b => blk'[c] = blk[c]
      BY <1>0, <2>1, <3>1
    <3> QED
      BY <3>2, <3>4, <3>5
  <2>3. FrameOK(b)' /\ LatchOK(t)'
    BY <1>3, <2>1, <2>2 DEF FrameOK, LatchOK
  <2> QED
    BY <1>4, <2>1, <2>2, <2>3
<1>6. CASE AlreadyInPool(t)
  <2>1. /\ th[t].pc = "init" /\ th'[t].pc \in {"lookup", "idle"}
        /\ \A u \in Threads : u # t => th'[u] = th[u]
        /\ blk' = [blk EXCEPT ![b] = Freed(b)] \/ UNCHANGED blk
    BY <1>0, <1>b, <1>6 DEF AlreadyInPool, ThreadState
  <2>2. /\ \A c \in Blocks : c # b => blk'[c] = blk[c]
        /\ blk'[b].logged = blk[b].logged /\ blk'[b].state # "FILE_PAGE"
    <3>1. blk[b].state # "FILE_PAGE"
      BY <1>0, <1>b, <2>1 DEF ThreadOK
    <3> QED
      BY <1>0, <2>1, <3>1 DEF Block, Freed
  <2>3. FrameOK(b)' /\ LatchOK(t)'
    BY <1>3, <2>1, <2>2 DEF FrameOK, LatchOK
  <2> QED
    BY <1>4, <2>1, <2>2, <2>3
<1>7. CASE ReadIn(t)
  <2> DEFINE f == IF blk[b].use THEN blk[b].frame ELSE disk[th[t].page]
  <2>1. /\ th[t].pc = "read" /\ th'[t].pc = "complete" /\ th'[t].blk = b
        /\ th'[t].page = th[t].page
        /\ \A u \in Threads : u # t => th'[u] = th[u]
        /\ blk' = [blk EXCEPT ![b].use = FALSE, ![b].frame = f]
    BY <1>0, <1>b, <1>7 DEF ReadIn, Goto, ThreadState
  <2>2. blk[b].io = "READ" /\ blk[b].state = "FILE_PAGE" /\ blk[b].page = th[t].page
    BY <1>0, <1>b, <2>1 DEF ThreadOK, IInv, BlockOK, DInv, LatchOK
  <2>3. f.page = th[t].page
    BY <1>0, <2>1, <2>2 DEF DInv, FrameOK, DiskOK, ThreadOK
  <2> HIDE DEF f
  <2>4. /\ \A c \in Blocks : c # b => blk'[c] = blk[c]
        /\ blk'[b].io = "READ" /\ blk'[b].logged = blk[b].logged /\ ~blk'[b].use
        /\ blk'[b].page = blk[b].page /\ blk'[b].frame = f
    BY <1>0, <2>1, <2>2 DEF Block
  <2>5. FrameOK(b)' /\ LatchOK(t)'
    BY <1>3, <2>1, <2>2, <2>3, <2>4 DEF FrameOK, LatchOK
  <2> QED
    BY <1>4, <2>1, <2>2, <2>4, <2>5
<1>8. CASE ReadComplete(t)
  <2>1. /\ th[t].pc = "complete" /\ th'[t].pc = "lookup"
        /\ \A u \in Threads : u # t => th'[u] = th[u]
        /\ blk' = [blk EXCEPT ![b].io = "NONE"]
    BY <1>0, <1>b, <1>8 DEF ReadComplete, ThreadState
  <2>2. blk[b].page = th[t].page /\ blk[b].frame.page = th[t].page
    BY <1>b, <2>1 DEF DInv, LatchOK
  <2>3. /\ \A c \in Blocks : c # b => blk'[c] = blk[c]
        /\ blk'[b].io = "NONE" /\ blk'[b].logged = blk[b].logged
        /\ blk'[b].page = blk[b].page /\ blk'[b].frame = blk[b].frame
    BY <1>0, <2>1 DEF Block
  <2>4. FrameOK(b)' /\ LatchOK(t)'
    BY <1>3, <2>1, <2>2, <2>3 DEF FrameOK, LatchOK
  <2> QED
    BY <1>4, <2>1, <2>3, <2>4
<1> QED
  BY <1>5, <1>6, <1>7, <1>8 DEF ReadPage

\* The I/O threads and the page cleaner.
LEMMA IoThreadsData ==
    ASSUME IInv, DInv, NEW b \in Blocks, IoThreads(b) \/ PageCleaner(b)
    PROVE  DInv'
<1>0. blk \in [Blocks -> Block]
  BY DEF IInv, Typed
<1>1. CASE AsyncReadDone(b)
  <2>1. /\ blk[b].io = "READ" /\ ~InHand(b) /\ UNCHANGED <<th, disk, log>>
        /\ blk' = [blk EXCEPT ![b].io = "NONE", ![b].frame = disk[blk[b].page]]
    BY <1>1 DEF AsyncReadDone
  <2>2. blk[b].page \in Pages /\ ~blk[b].logged
    BY <2>1 DEF IInv, BlockOK, DInv, FrameOK
  <2>3. /\ \A c \in Blocks : c # b => blk'[c] = blk[c]
        /\ blk'[b].io = "NONE" /\ blk'[b].frame = disk[blk[b].page]
        /\ blk'[b].page = blk[b].page /\ blk'[b].logged = blk[b].logged
    BY <1>0, <2>1 DEF Block
  <2>4. FrameOK(b)'
    BY <2>2, <2>3 DEF FrameOK, DInv, DiskOK
  <2>5. \A u \in Threads : th[u].pc \in {"latched", "read", "complete"} /\ th[u].blk = b
           => LatchOK(u)'
    BY <2>1, <2>3 DEF InHand, LatchOK
  <2>6. DiskOK' /\ log' \in Nat /\ log <= log'
    BY <2>1, ConstantsAssumption DEF DInv, DiskOK, IInv, Typed
  <2> QED
    BY <2>1, <2>3, <2>4, <2>5, <2>6, IoBlock
<1>2. CASE FlushLog(b)
  BY <1>2, LogForcedData DEF FlushLog
<1>3. CASE FlushEnd(b)
  <2>1. /\ blk[b].io = "WRITE" /\ ~InHand(b) /\ blk[b].logged /\ disk' = Written(b)
        /\ blk' = WriteCompleted(b) /\ UNCHANGED <<th, log>>
    BY <1>3 DEF FlushEnd
  <2>2. blk[b].state = "FILE_PAGE"
    BY <2>1 DEF IInv, BlockOK
  <2>3. ~Overwritten(b)
    BY <2>1 DEF InHand, Overwritten, Taking
  <2>4. DiskOK' /\ log' \in Nat /\ log <= log'
    BY <2>1, <2>2, <2>3, WrittenData
  <2>5. /\ FrameOK(b)' /\ \A c \in Blocks : c # b => blk'[c] = blk[c]
        /\ blk'[b].io = "NONE"
    BY <2>1, <2>2, <2>3, CompletedData
  <2>6. \A u \in Threads : th[u].pc \in {"latched", "read", "complete"} /\ th[u].blk = b
           => LatchOK(u)'
    BY <2>1, <2>5 DEF InHand, LatchOK
  <2> QED
    BY <2>1, <2>4, <2>5, <2>6, IoBlock
<1>4. CASE FlushStart(b)
  <2>1. /\ blk[b].io = "NONE" /\ ~LatchedX(b) /\ UNCHANGED <<th, disk, log>>
        /\ blk' = [blk EXCEPT ![b].io = "WRITE"]
    BY <1>4 DEF FlushStart, buf_flush_ready_for_flush
  <2>2. /\ \A c \in Blocks : c # b => blk'[c] = blk[c]
        /\ blk'[b].io = "WRITE" /\ blk'[b].state = blk[b].state /\ blk'[b].page = blk[b].page
        /\ blk'[b].frame = blk[b].frame /\ blk'[b].use = blk[b].use
        /\ blk'[b].logged = blk[b].logged
    BY <1>0, <2>1 DEF Block
  <2>3. FrameOK(b)'
    <3>1. FrameOK(b) /\ (Overwritten(b)' <=> Overwritten(b))
      BY <2>1 DEF DInv, Overwritten
    <3> QED
      BY <2>1, <2>2, <3>1 DEF FrameOK
  <2>4. \A u \in Threads : th[u].pc \in {"latched", "read", "complete"} /\ th[u].blk = b
           => LatchOK(u)'
    BY <2>1, <2>2 DEF LatchedX, LatchOK, IInv, ThreadOK
  <2>5. DiskOK' /\ log' \in Nat /\ log <= log'
    BY <2>1, ConstantsAssumption DEF DInv, DiskOK, IInv, Typed
  <2> QED
    BY <2>1, <2>2, <2>3, <2>4, <2>5, IoBlock
<1>5. CASE Evict(b)
  BY <1>5, FreePageData, NamesAssumption DEF Evict
<1> QED
  BY <1>1, <1>2, <1>3, <1>4, <1>5 DEF IoThreads, PageCleaner

\* At the start the pool is empty and nothing is in the log.
LEMMA DataInit == Init => DInv
<1> SUFFICES ASSUME Init PROVE DInv
  OBVIOUS
<1>1. DiskOK
  BY DEF Init, DiskOK
<1>2. \A b \in Blocks : FrameOK(b)
  BY DEF Init, FrameOK
<1>3. \A t \in Threads : LatchOK(t)
  BY DEF Init, LatchOK
<1> QED
  BY <1>1, <1>2, <1>3 DEF DInv

\* Which frames are their page's, and that a write under way has its changes in
\* the log, at every step of any number of threads.
THEOREM DataInvariant == Spec => []DInv
<1>1. Init => DInv
  BY DataInit
<1>2. IInv /\ DInv /\ [Next]_vars => DInv'
  <2> SUFFICES ASSUME IInv, DInv, [Next]_vars PROVE DInv'
    OBVIOUS
  <2>1. CASE UNCHANGED vars
    BY <2>1 DEF vars, DInv, DiskOK, FrameOK, LatchOK, Overwritten
  <2>2. CASE Next
    <3>1. ASSUME NEW t \in Threads, Acquire(t) \/ Release(t) \/ GetFreeBlock(t) \/ ReadPage(t)
          PROVE  DInv'
      BY <3>1, AcquireData, ReleaseData, GetFreeBlockData, ReadPageData
    <3>2. ASSUME NEW b \in Blocks, IoThreads(b) \/ PageCleaner(b)
          PROVE  DInv'
      BY <3>2, IoThreadsData
    <3> QED
      BY <2>2, <3>1, <3>2 DEF Next
  <2> QED
    BY <2>1, <2>2
<1> QED
  BY <1>1, <1>2, PoolInvariant, PTL DEF Spec

\* No page is on the disk before the redo log of its changes: log_write_up_to and
\* the write of the page are two calls without a mutex over them, in the RW path
\* (buf_flush_write_block_low_with_rw_cmd) and in buf_flush_write_block_low.
THEOREM LogIsAhead == Spec => []WriteAhead
<1>1. DInv => WriteAhead
  BY DEF DInv, DiskOK, WriteAhead
<1> QED
  BY <1>1, DataInvariant, PTL

\* The place of a page on the disk only ever takes that page, although the frame of
\* a victim holds another page before the block leaves the page hash
\* (fil_io_with_rw_cmd, then buf_LRU_block_remove_hashed_for_rw_cmd).
THEOREM PagesStayInPlace == Spec => []PagesInPlace
<1>1. DInv => PagesInPlace
  BY DEF DInv, DiskOK, PagesInPlace
<1> QED
  BY <1>1, DataInvariant, PTL


=============================================================================
