-------------------------- MODULE LinkedListProofs --------------------------
(***************************************************************************)
(* Induction over numbers, and what a walk along well-formed links meets.  *)
(***************************************************************************)
EXTENDS LinkedLists, FiniteSetTheorems, TLAPS

\* A set of natural numbers has a least element.
LEMMA LeastNat ==
    ASSUME NEW T, T \subseteq Nat, T # {}
    PROVE  \E x \in T : \A y \in T : x <= y
<1> DEFINE R == {rr \in Nat \X Nat : rr[1] < rr[2]}
<1>1. IsWellFoundedOn(R, Nat)
  BY NatLessThanWellFounded DEF OpToRel
<1> HIDE DEF R
<1>2. PICK x \in T : \A y \in T : ~ (<<y, x>> \in R)
  BY <1>1, WFMin
<1>3. ASSUME NEW y \in T PROVE x <= y
  <2>1. x \in Nat /\ y \in Nat /\ ~ (<<y, x>> \in R)
    BY <1>2
  <2>2. ~ (y < x)
    BY <2>1 DEF R
  <2> QED
    BY <2>1, <2>2
<1> QED
  BY <1>3

\* A set that holds 0 and, with each number below n, the next one.
LEMMA UpTo ==
    ASSUME NEW n \in Nat, NEW T, 0 \in T, \A i \in 1 .. n : i - 1 \in T => i \in T
    PROVE  \A i \in 0 .. n : i \in T
<1> DEFINE F == {i \in 0 .. n : i \notin T}
<1> SUFFICES ASSUME F # {} PROVE FALSE
  OBVIOUS
<1>1. PICK i \in F : \A j \in F : i <= j
  <2>1. F \subseteq Nat
    OBVIOUS
  <2> HIDE DEF F
  <2> QED
    BY <2>1, LeastNat
<1>2. i \in 1 .. n /\ i \notin T /\ i - 1 \in 0 .. n /\ ~ (i <= i - 1)
  OBVIOUS
<1>3. i - 1 \in T
  BY <1>1, <1>2
<1> QED
  BY <1>2, <1>3

Steps(f, n, first, step) ==
    f = [i \in 0 .. n |-> IF i = 0 THEN first ELSE step[<<f[i - 1], i>>]]

\* A function defined step by step exists.
LEMMA StepsExist ==
    ASSUME NEW n \in Nat, NEW first, NEW step
    PROVE  \E f : Steps(f, n, first, step)
<1> DEFINE T == {m \in Nat : \E f : Steps(f, m, first, step)}
<1>1. 0 \in T
  <2> DEFINE f == [i \in 0 .. 0 |-> first]
  <2>1. f = [i \in 0 .. 0 |-> IF i = 0 THEN first ELSE step[<<f[i - 1], i>>]]
    OBVIOUS
  <2>2. Steps(f, 0, first, step)
    BY <2>1 DEF Steps
  <2> HIDE DEF f
  <2> QED
    BY <2>2
<1>2. ASSUME NEW m \in 1 .. n, m - 1 \in T PROVE m \in T
  <2>1. PICK f : Steps(f, m - 1, first, step)
    BY <1>2
  <2> DEFINE g == [i \in 0 .. m |-> IF i = m THEN step[<<f[m - 1], m>>] ELSE f[i]]
  <2>2. ASSUME NEW i \in 0 .. m
        PROVE  g[i] = IF i = 0 THEN first ELSE step[<<g[i - 1], i>>]
    <3>1. CASE i = m
      <4>1. i # 0 /\ i - 1 = m - 1 /\ i - 1 \in 0 .. m /\ i - 1 # m
        BY <3>1
      <4>2. g[i - 1] = f[m - 1] /\ g[i] = step[<<f[m - 1], m>>]
        BY <3>1, <4>1
      <4> QED
        BY <3>1, <4>1, <4>2
    <3>2. CASE i # m
      <4>1. i \in 0 .. m - 1
        BY <3>2
      <4>2. f[i] = IF i = 0 THEN first ELSE step[<<f[i - 1], i>>]
        BY <2>1, <4>1 DEF Steps
      <4>3. g[i] = f[i]
        BY <3>2
      <4>4. i # 0 => i - 1 \in 0 .. m /\ i - 1 # m
        BY <4>1
      <4>5. i # 0 => g[i - 1] = f[i - 1]
        BY <4>4
      <4> QED
        BY <4>2, <4>3, <4>5
    <3> QED
      BY <3>1, <3>2
  <2>3. Steps(g, m, first, step)
    BY <2>2 DEF Steps
  <2>4. m \in Nat
    OBVIOUS
  <2> HIDE DEF g
  <2> QED
    BY <2>3, <2>4
<1> HIDE DEF T
<1>3. n \in T
  BY <1>1, <1>2, UpTo
<1> QED
  BY <1>3 DEF T

IsWalk(at, link, from, n, none) ==
    /\ at = [i \in 1 .. n + 1 |-> at[i]]
    /\ at[1] = from
    /\ \A i \in 1 .. n : at[i + 1] = IF at[i] = none THEN none ELSE link[at[i]]

\* The walk exists, so that it is what its definition says.
LEMMA AlongIs ==
    ASSUME NEW link, NEW from, NEW n \in Nat, NEW none
    PROVE  IsWalk(Along(link, from, n, none), link, from, n, none)
<1> DEFINE Step(f, i) == IF i = 1 THEN from
                         ELSE IF f[i - 1] = none THEN none ELSE link[f[i - 1]]
           Walks(m) == \E f : f = [i \in 1 .. m + 1 |-> Step(f, i)]
           T == {m \in Nat : ~Walks(m)}
<1>1. T = {}
  <2> SUFFICES ASSUME T # {} PROVE FALSE
    OBVIOUS
  <2>1. PICK m \in T : \A k \in T : m <= k
    <3>1. T \subseteq Nat
      OBVIOUS
    <3> HIDE DEF T
    <3> QED
      BY <3>1, LeastNat
  <2>2. m \in Nat /\ ~Walks(m)
    OBVIOUS
  <2>3. CASE m = 0
    <3> DEFINE f == [i \in 1 .. m + 1 |-> from]
    <3>1. f = [i \in 1 .. m + 1 |-> Step(f, i)]
      BY <2>3
    <3> QED
      BY <3>1, <2>2
  <2>4. CASE m # 0
    <3>1. m - 1 \in Nat /\ Walks(m - 1)
      <4>1. m - 1 \in Nat /\ ~ (m <= m - 1)
        BY <2>2, <2>4
      <4>2. m - 1 \notin T
        BY <2>1, <4>1
      <4> QED
        BY <4>1, <4>2
    <3>2. PICK f : f = [i \in 1 .. m |-> Step(f, i)]
      BY <3>1, <2>2
    <3> DEFINE g == [i \in 1 .. m + 1 |-> IF i = m + 1 THEN Step(f, i) ELSE f[i]]
    <3>3. \A i \in 1 .. m + 1 : g[i] = Step(g, i)
      <4> SUFFICES ASSUME NEW i \in 1 .. m + 1 PROVE g[i] = Step(g, i)
        OBVIOUS
      <4>1. i # 1 => i - 1 \in 1 .. m + 1 /\ i - 1 # m + 1
        BY <2>2
      <4>2. i # 1 => g[i - 1] = f[i - 1]
        BY <4>1
      <4>3. Step(g, i) = Step(f, i)
        BY <4>2
      <4>4. i # m + 1 => i \in 1 .. m
        BY <2>2
      <4>5. i # m + 1 => f[i] = Step(f, i)
        BY <4>4, <3>2
      <4> QED
        BY <4>3, <4>5
    <3>4. g = [i \in 1 .. m + 1 |-> Step(g, i)]
      BY <3>3
    <3> QED
      BY <3>4, <2>2
  <2> QED
    BY <2>3, <2>4
<1>2. Walks(n)
  BY <1>1
<1> DEFINE at == Along(link, from, n, none)
<1>3. at = [i \in 1 .. n + 1 |-> Step(at, i)]
  <2>1. at = CHOOSE f : f = [i \in 1 .. n + 1 |-> Step(f, i)]
    BY DEF Along
  <2> QED
    BY <2>1, <1>2
<1> HIDE DEF at
<1>4. \A i \in 1 .. n + 1 : at[i] = Step(at, i)
  BY <1>3
<1>5. at[1] = from
  BY <1>4
<1>6. ASSUME NEW i \in 1 .. n
      PROVE  at[i + 1] = IF at[i] = none THEN none ELSE link[at[i]]
  <2>1. i + 1 \in 1 .. n + 1 /\ i + 1 # 1 /\ (i + 1) - 1 = i
    OBVIOUS
  <2> QED
    BY <2>1, <1>4
<1>7. at = [i \in 1 .. n + 1 |-> at[i]]
  BY <1>3
<1> QED
  BY <1>5, <1>6, <1>7 DEF at, IsWalk

\* The chain is the part of the walk before its first none.
IsPrefix(c, at, n, none) ==
    \A m \in 0 .. n + 1 :
        (\A i \in 1 .. n + 1 : at[i] # none <=> i <= m) => c = [i \in 1 .. m |-> at[i]]

LEMMA ChainIsPrefix ==
    ASSUME NEW link, NEW from, NEW n \in Nat, NEW none
    PROVE  IsPrefix(Chain(link, from, n, none), Along(link, from, n, none), n, none)
<1> SUFFICES
        ASSUME NEW m \in 0 .. n + 1,
               \A i \in 1 .. n + 1 : Along(link, from, n, none)[i] # none <=> i <= m
        PROVE  Chain(link, from, n, none) = [i \in 1 .. m |-> Along(link, from, n, none)[i]]
  BY DEF IsPrefix
<1>1. {j \in 1 .. n + 1 : Along(link, from, n, none)[j] # none} = 1 .. m
  OBVIOUS
<1>2. Cardinality(1 .. m) = m
  <2>1. m \in Int /\ 1 \in Int /\ (1 > m => m = 0)
    OBVIOUS
  <2> QED
    BY <2>1, FS_Interval
<1> QED
  BY <1>1, <1>2 DEF Chain

\* Once at its end the walk stays there.
StaysAtEnd(at, n, none) ==
    \A k \in 1 .. n + 1 : at[k] = none => \A i \in k .. n + 1 : at[i] = none

LEMMA AlongEnds ==
    ASSUME NEW link, NEW from, NEW n \in Nat, NEW none
    PROVE  StaysAtEnd(Along(link, from, n, none), n, none)
<1> SUFFICES ASSUME NEW k \in 1 .. n + 1, Along(link, from, n, none)[k] = none
             PROVE  \A i \in k .. n + 1 : Along(link, from, n, none)[i] = none
  BY DEF StaysAtEnd
<1> DEFINE at == Along(link, from, n, none)
           T == {i \in k .. n + 1 : at[i] # none}
<1>0. \A i \in 1 .. n : at[i + 1] = IF at[i] = none THEN none ELSE link[at[i]]
  <2>1. IsWalk(at, link, from, n, none)
    BY AlongIs, Zenon
  <2> HIDE DEF at
  <2> QED
    BY <2>1 DEF IsWalk
<1> HIDE DEF at
<1>1. T = {}
  <2> SUFFICES ASSUME T # {} PROVE FALSE
    OBVIOUS
  <2>1. T \subseteq Nat
    OBVIOUS
  <2>2. PICK i \in T : \A j \in T : i <= j
    <3> HIDE DEF T
    <3> QED
      BY <2>1, LeastNat
  <2>3. i \in k .. n + 1 /\ at[i] # none /\ i # k
    BY DEF at
  <2>4. i - 1 \in k .. n + 1 /\ ~ (i <= i - 1) /\ i - 1 \in 1 .. n /\ (i - 1) + 1 = i
    BY <2>3
  <2>5. i - 1 \notin T
    BY <2>2, <2>4
  <2>6. at[i - 1] = none
    BY <2>4, <2>5
  <2> QED
    BY <2>3, <2>4, <2>6, <1>0
<1> QED
  BY <1>1 DEF at

\* A sequence that follows the links to their end is the chain.
Follows(d, link, from, none) ==
    /\ \A i \in DOMAIN d : d[i] # none
    /\ d = << >> => from = none
    /\ d # << >> => from = d[1] /\ link[d[Len(d)]] = none
    /\ \A i \in 1 .. Len(d) - 1 : link[d[i]] = d[i + 1]

LEMMA ChainIs ==
    ASSUME NEW link, NEW from, NEW n \in Nat, NEW none, NEW S, NEW d \in Seq(S),
           Len(d) <= n, Follows(d, link, from, none)
    PROVE  Chain(link, from, n, none) = d
<1> DEFINE at == Along(link, from, n, none)
           m == Len(d)
           T == {i \in 1 .. m : at[i] # d[i]}
<1>0. /\ at[1] = from
      /\ \A i \in 1 .. n : at[i + 1] = IF at[i] = none THEN none ELSE link[at[i]]
  <2>1. IsWalk(at, link, from, n, none)
    BY AlongIs, Zenon
  <2> HIDE DEF at
  <2> QED
    BY <2>1 DEF IsWalk
<1>m. m \in 0 .. n /\ m \in Nat /\ d = [i \in 1 .. m |-> d[i]] /\ (m = 0 <=> d = << >>)
  OBVIOUS
<1>d. \A i \in 1 .. m : d[i] # none
  BY DEF Follows
<1>f. /\ m # 0 => from = d[1] /\ link[d[m]] = none
      /\ m = 0 => from = none
      /\ \A i \in 1 .. m - 1 : link[d[i]] = d[i + 1]
  BY <1>m DEF Follows
<1> HIDE DEF at, m
<1>1. T = {}
  <2> SUFFICES ASSUME T # {} PROVE FALSE
    OBVIOUS
  <2>1. T \subseteq Nat
    OBVIOUS
  <2>2. PICK i \in T : \A j \in T : i <= j
    <3> HIDE DEF T
    <3> QED
      BY <2>1, LeastNat
  <2>3. i \in 1 .. m /\ at[i] # d[i] /\ i # 1
    BY <1>0, <1>f, <1>m
  <2>4. i - 1 \in 1 .. m - 1 /\ ~ (i <= i - 1) /\ i - 1 \in 1 .. n /\ (i - 1) + 1 = i
    BY <2>3, <1>m
  <2>5. i - 1 \notin T
    BY <2>2, <2>4
  <2>6. at[i - 1] = d[i - 1] /\ d[i - 1] # none
    BY <2>4, <2>5, <1>m, <1>d
  <2>7. at[i] = link[d[i - 1]]
    BY <2>4, <2>6, <1>0
  <2> QED
    BY <2>3, <2>4, <2>7, <1>f
<1>2. \A i \in 1 .. m : at[i] = d[i]
  BY <1>1
<1>3. m + 1 \in 1 .. n + 1 /\ at[m + 1] = none
  <2>1. CASE m = 0
    BY <2>1, <1>0, <1>f, <1>m
  <2>2. CASE m # 0
    BY <2>2, <1>0, <1>f, <1>m, <1>d, <1>2
  <2> QED
    BY <2>1, <2>2
<1>4. \A i \in m + 1 .. n + 1 : at[i] = none
  <2>1. StaysAtEnd(at, n, none)
    BY AlongEnds DEF at
  <2> QED
    BY <1>3, <2>1 DEF StaysAtEnd
<1>5. \A i \in 1 .. n + 1 : at[i] # none <=> i <= m
  BY <1>2, <1>4, <1>m, <1>d
<1>6. Chain(link, from, n, none) = [i \in 1 .. m |-> at[i]]
  <2>1. IsPrefix(Chain(link, from, n, none), at, n, none)
    BY ChainIsPrefix DEF at
  <2> QED
    BY <1>5, <1>m, <2>1 DEF IsPrefix
<1> QED
  BY <1>2, <1>6, <1>m

(***************************************************************************)
(* Well-formed lists                                                       *)
(***************************************************************************)

\* The links of the nodes of S agree with each other, S has one node without a
\* predecessor, the head, and pos grows along the links.
LinkedIn(S, next, prev, head, pos, none) ==
    /\ none \notin S
    /\ head # none => head \in S
    /\ \A x \in S :
         /\ pos[x] \in Nat
         /\ next[x] # none => next[x] \in S /\ prev[next[x]] = x /\ pos[x] < pos[next[x]]
         /\ prev[x] # none => prev[x] \in S /\ next[prev[x]] = x
         /\ prev[x] = none => head = x

\* A walk over such links stays in S and moves up.
LEMMA WalkInS ==
    ASSUME NEW S, NEW next, NEW prev, NEW head, NEW pos, NEW none, NEW n \in Nat,
           LinkedIn(S, next, prev, head, pos, none),
           NEW at, IsWalk(at, next, head, n, none)
    PROVE  /\ \A i \in 1 .. n + 1 : at[i] \in S \cup {none}
           /\ \A i, j \in 1 .. n + 1 : i < j /\ at[j] # none =>
                  at[i] # none /\ pos[at[i]] < pos[at[j]]
<1>1. \A i \in 1 .. n + 1 : at[i] \in S \cup {none}
  <2> DEFINE T == {i \in 1 .. n + 1 : at[i] \notin S \cup {none}}
  <2>1. SUFFICES ASSUME T # {} PROVE FALSE
    OBVIOUS
  <2>2. T \subseteq Nat
    OBVIOUS
  <2>3. PICK i \in T : \A j \in T : i <= j
    <3> HIDE DEF T
    <3> QED
      BY <2>1, <2>2, LeastNat
  <2>4. i \in 1 .. n + 1 /\ at[i] \notin S \cup {none} /\ i # 1
    BY DEF IsWalk, LinkedIn
  <2>5. i - 1 \in 1 .. n /\ i - 1 \in 1 .. n + 1 /\ ~ (i <= i - 1) /\ (i - 1) + 1 = i
    BY <2>4
  <2>6. i - 1 \notin T
    BY <2>3, <2>5
  <2>7. at[i - 1] \in S \cup {none}
    BY <2>5, <2>6
  <2>8. at[i] = IF at[i - 1] = none THEN none ELSE next[at[i - 1]]
    BY <2>5 DEF IsWalk
  <2> QED
    BY <2>4, <2>7, <2>8 DEF LinkedIn
<1>2. ASSUME NEW i \in 1 .. n + 1
      PROVE  \A j \in 1 .. n + 1 : i < j /\ at[j] # none =>
                 at[i] # none /\ pos[at[i]] < pos[at[j]]
  <2> DEFINE T == {j \in 1 .. n + 1 : i < j /\ at[j] # none /\
                       ~ (at[i] # none /\ pos[at[i]] < pos[at[j]])}
  <2>1. SUFFICES ASSUME T # {} PROVE FALSE
    OBVIOUS
  <2>2. T \subseteq Nat
    OBVIOUS
  <2>3. PICK j \in T : \A k \in T : j <= k
    <3> HIDE DEF T
    <3> QED
      BY <2>1, <2>2, LeastNat
  <2>4. /\ j \in 1 .. n + 1 /\ i < j /\ at[j] # none
        /\ ~ (at[i] # none /\ pos[at[i]] < pos[at[j]])
    OBVIOUS
  <2>5. j - 1 \in 1 .. n /\ j - 1 \in 1 .. n + 1 /\ ~ (j <= j - 1) /\ (j - 1) + 1 = j
    BY <2>4
  <2>6. j - 1 \notin T
    BY <2>3, <2>5
  <2>7. at[j] = IF at[j - 1] = none THEN none ELSE next[at[j - 1]]
    BY <2>5 DEF IsWalk
  <2>8. at[j - 1] # none /\ at[j - 1] \in S /\ next[at[j - 1]] = at[j]
    BY <2>4, <2>5, <2>7, <1>1
  <2>9. /\ at[j] \in S /\ pos[at[j - 1]] < pos[at[j]]
        /\ pos[at[j - 1]] \in Nat /\ pos[at[j]] \in Nat
    BY <2>4, <2>8, <1>1 DEF LinkedIn
  <2>10. CASE i = j - 1
    BY <2>4, <2>8, <2>9, <2>10
  <2>11. CASE i # j - 1
    <3>1. i < j - 1
      BY <2>4, <2>11
    <3>2. at[i] # none /\ pos[at[i]] < pos[at[j - 1]]
      BY <2>5, <2>6, <2>8, <3>1
    <3>3. at[i] \in S /\ pos[at[i]] \in Nat
      BY <3>2, <1>1 DEF LinkedIn
    <3> QED
      BY <2>4, <2>9, <3>2, <3>3
  <2> QED
    BY <2>10, <2>11
<1> QED
  BY <1>1, <1>2

\* What the chain of a well-formed list is.
Enumerates(c, S, next, head, none) ==
    /\ c \in Seq(S) /\ Nodes(c) = S
    /\ \A i, j \in DOMAIN c : c[i] = c[j] => i = j
    /\ Follows(c, next, head, none)

\* The chain of a well-formed list has every node of it once.
LEMMA ChainEnumerates ==
    ASSUME NEW S, NEW next, NEW prev, NEW head, NEW pos, NEW none, NEW n \in Nat,
           IsFiniteSet(S), Cardinality(S) <= n,
           LinkedIn(S, next, prev, head, pos, none)
    PROVE  /\ Enumerates(Chain(next, head, n, none), S, next, head, none)
           /\ Len(Chain(next, head, n, none)) <= n
<1> DEFINE at == Along(next, head, n, none)
           c == Chain(next, head, n, none)
<1>1. IsWalk(at, next, head, n, none)
  BY AlongIs, Zenon
<1>2. StaysAtEnd(at, n, none) /\ IsPrefix(c, at, n, none)
  BY AlongEnds, ChainIsPrefix, Zenon
<1> HIDE DEF at, c
<1>3. /\ \A i \in 1 .. n + 1 : at[i] \in S \cup {none}
      /\ \A i, j \in 1 .. n + 1 : i < j /\ at[j] # none =>
             at[i] # none /\ pos[at[i]] < pos[at[j]]
  BY <1>1, WalkInS
<1>4. \A i \in 1 .. n + 1 : at[i] # none => at[i] \in S /\ pos[at[i]] \in Nat
  BY <1>3 DEF LinkedIn
<1>5. \A i, j \in 1 .. n + 1 : at[i] = at[j] /\ at[i] # none => i = j
  <2> SUFFICES ASSUME NEW i \in 1 .. n + 1, NEW j \in 1 .. n + 1, i < j,
                      at[i] = at[j], at[i] # none
               PROVE  FALSE
    BY SMT
  <2> QED
    BY <1>3, <1>4
<1>6. \E i \in 1 .. n + 1 : at[i] = none
  <2> SUFFICES ASSUME \A i \in 1 .. n + 1 : at[i] # none PROVE FALSE
    OBVIOUS
  <2>1. at \in [1 .. n + 1 -> S]
    BY <1>1, <1>4 DEF IsWalk
  <2>2. IsFiniteSet(1 .. n + 1) /\ Cardinality(1 .. n + 1) = n + 1
    BY FS_Interval
  <2>3. Cardinality(S) \in Nat
    BY FS_CardinalityType
  <2>4. Cardinality(S) < Cardinality(1 .. n + 1)
    BY <2>2, <2>3
  <2>5. \E x, y \in 1 .. n + 1 : x # y /\ at[x] = at[y]
    BY <2>1, <2>2, <2>4, FS_PigeonHole
  <2> QED
    BY <2>5, <1>5
<1>7. PICK k \in 1 .. n + 1 : at[k] = none /\ \A j \in 1 .. n + 1 : at[j] = none => k <= j
  <2> DEFINE T == {i \in 1 .. n + 1 : at[i] = none}
  <2>1. T \subseteq Nat /\ T # {}
    BY <1>6
  <2>2. PICK k \in T : \A j \in T : k <= j
    <3> HIDE DEF T
    <3> QED
      BY <2>1, LeastNat
  <2> QED
    BY <2>2
<1>8. PICK m \in 0 .. n : k = m + 1
  <2>1. k - 1 \in 0 .. n /\ k = (k - 1) + 1
    OBVIOUS
  <2> QED
    BY <2>1
<1>9. \A i \in 1 .. n + 1 : at[i] # none <=> i <= m
  BY <1>2, <1>7, <1>8 DEF StaysAtEnd
<1>10. c = [i \in 1 .. m |-> at[i]]
  <2>1. m \in 0 .. n + 1
    OBVIOUS
  <2> QED
    BY <1>2, <1>9, <2>1 DEF IsPrefix
<1>11. /\ DOMAIN c = 1 .. m /\ Len(c) = m /\ m \in Nat /\ m <= n
       /\ \A i \in 1 .. m : i \in 1 .. n + 1 /\ c[i] = at[i] /\ at[i] # none
  BY <1>9, <1>10
<1>12. c \in Seq(S)
  BY <1>4, <1>10, <1>11
<1>13. \A i, j \in DOMAIN c : c[i] = c[j] => i = j
  BY <1>5, <1>11
<1>14. Follows(c, next, head, none)
  <2>1. \A i \in DOMAIN c : c[i] # none
    BY <1>11
  <2>2. c = << >> => head = none
    BY <1>1, <1>7, <1>8, <1>11 DEF IsWalk
  <2>3. ASSUME c # << >> PROVE head = c[1] /\ next[c[Len(c)]] = none
    <3>1. m \in 1 .. n
      BY <2>3, <1>11, <1>12
    <3>2. at[m + 1] = IF at[m] = none THEN none ELSE next[at[m]]
      BY <3>1, <1>1 DEF IsWalk
    <3>3. at[m] # none /\ c[m] = at[m] /\ c[1] = at[1]
      BY <3>1, <1>11
    <3> QED
      BY <3>1, <3>2, <3>3, <1>1, <1>7, <1>8, <1>11 DEF IsWalk
  <2>4. ASSUME NEW i \in 1 .. Len(c) - 1 PROVE next[c[i]] = c[i + 1]
    <3>1. i \in 1 .. m /\ i + 1 \in 1 .. m /\ i \in 1 .. n
      BY <1>11
    <3>2. at[i + 1] = IF at[i] = none THEN none ELSE next[at[i]]
      BY <3>1, <1>1 DEF IsWalk
    <3> QED
      BY <3>1, <3>2, <1>11
  <2> QED
    BY <2>1, <2>2, <2>3, <2>4 DEF Follows
<1>15. \A x \in S : \E i \in DOMAIN c : c[i] = x
  <2> DEFINE Lost == {x \in S : \A i \in 1 .. m : at[i] # x}
             T == {pos[x] : x \in Lost}
  <2>1. SUFFICES ASSUME Lost # {} PROVE FALSE
    BY <1>11
  <2>2. T \subseteq Nat /\ T # {}
    BY <2>1 DEF LinkedIn
  <2>3. PICK p \in T : \A q \in T : p <= q
    <3> HIDE DEF T
    <3> QED
      BY <2>2, LeastNat
  <2>4. PICK x \in Lost : p = pos[x]
    BY <2>3
  <2>5. x \in S /\ (\A i \in 1 .. m : at[i] # x) /\ x # none
    BY <2>4 DEF LinkedIn
  <2>6. CASE prev[x] = none
    <3>1. head = x /\ at[1] = x
      BY <2>5, <2>6, <1>1 DEF LinkedIn, IsWalk
    <3>2. 1 \in 1 .. m
      BY <3>1, <2>5, <1>9
    <3> QED
      BY <2>5, <3>1, <3>2
  <2>7. CASE prev[x] # none
    <3>1. PICK y \in S : y = prev[x] /\ next[y] = x
      BY <2>5, <2>7 DEF LinkedIn
    <3>2. pos[y] < pos[x] /\ pos[x] \in Nat /\ pos[y] \in Nat
      BY <2>5, <3>1 DEF LinkedIn
    <3>3. y \notin Lost
      BY <2>3, <2>4, <3>2
    <3>4. PICK i \in 1 .. m : at[i] = y
      BY <3>3
    <3>5. i \in 1 .. n /\ at[i + 1] = x
      <4>1. i \in 1 .. n /\ at[i] # none
        BY <1>11
      <4>2. at[i + 1] = IF at[i] = none THEN none ELSE next[at[i]]
        BY <4>1, <1>1 DEF IsWalk
      <4> QED
        BY <4>1, <4>2, <3>1, <3>4
    <3>6. i + 1 \in 1 .. m
      <4>1. i + 1 \in 1 .. n + 1 /\ at[i + 1] # none
        BY <3>5, <2>5
      <4> QED
        BY <4>1, <1>9
    <3> QED
      BY <2>5, <3>5, <3>6
  <2> QED
    BY <2>6, <2>7
<1>16. Nodes(c) = S
  BY <1>11, <1>12, <1>15 DEF Nodes
<1> QED
  BY <1>11, <1>12, <1>13, <1>14, <1>16 DEF Enumerates, c

\* A list with a tail is well-formed from its tail, too: the distance from the
\* end grows along the backward links.
LEMMA Backwards ==
    ASSUME NEW S, NEW next, NEW prev, NEW head, NEW tail, NEW pos, NEW none, NEW c,
           LinkedIn(S, next, prev, head, pos, none),
           Enumerates(c, S, next, head, none),
           tail # none => tail \in S,
           \A x \in S : next[x] = none => tail = x
    PROVE  \E q : LinkedIn(S, prev, next, tail, q, none)
<1> DEFINE at(x) == CHOOSE i \in DOMAIN c : c[i] = x
           q == [x \in S |-> Len(c) - at(x)]
<1>1. c \in Seq(S) /\ Len(c) \in Nat /\ DOMAIN c = 1 .. Len(c)
  BY DEF Enumerates
<1>2. \A x \in S : at(x) \in DOMAIN c /\ c[at(x)] = x
  BY DEF Enumerates, Nodes
<1>3. \A x \in S, i \in DOMAIN c : c[i] = x => at(x) = i
  BY <1>2 DEF Enumerates
<1>4. \A x \in S : q[x] \in Nat /\ q[x] = Len(c) - at(x)
  BY <1>1, <1>2
<1> HIDE DEF at, q
<1>5. ASSUME NEW x \in S, prev[x] # none
      PROVE  prev[x] \in S /\ next[prev[x]] = x /\ q[x] < q[prev[x]]
  <2>1. PICK y \in S : y = prev[x] /\ next[y] = x
    BY <1>5 DEF LinkedIn
  <2>2. PICK i \in DOMAIN c : i = at(y) /\ c[i] = y
    BY <1>2
  <2>3. x # none /\ c # << >>
    BY <1>1, <2>2 DEF LinkedIn
  <2>4. i # Len(c)
    BY <2>1, <2>2, <2>3 DEF Enumerates, Follows
  <2>5. i \in 1 .. Len(c) - 1 /\ i + 1 \in DOMAIN c
    BY <1>1, <2>4
  <2>6. c[i + 1] = x
    BY <2>1, <2>2, <2>5 DEF Enumerates, Follows
  <2>7. at(x) = i + 1
    BY <2>5, <2>6, <1>3
  <2>8. q[x] = Len(c) - (i + 1) /\ q[y] = Len(c) - i
    BY <2>2, <2>7, <1>4
  <2> QED
    BY <1>1, <2>1, <2>5, <2>8
<1>6. LinkedIn(S, prev, next, tail, q, none)
  BY <1>4, <1>5 DEF LinkedIn
<1> QED
  BY <1>6
=============================================================================
