-------------------------- MODULE BadBlocksProofs --------------------------
(***************************************************************************)
(* Bad blocks, for any number of dies and blocks, any marks and failures,  *)
(* and any sequence of power cuts: InUseSound, CapacityExact,              *)
(* OnlyBadGivenUp and GrownStaysOut.                                       *)
(***************************************************************************)
EXTENDS BadBlocks, LinkedListProofs

(***************************************************************************)
(* RemapBadBlock                                                           *)
(***************************************************************************)

LEMMA Sizes ==
    /\ UserPerLun \in Nat /\ TotalPerLun \in Nat /\ 1 <= UserPerLun
    /\ UserPerLun <= TotalPerLun /\ 2 * TotalPerLun \in Nat /\ 2 * UserPerLun \in Nat
    /\ 0 * TotalPerLun = 0 /\ 1 * TotalPerLun = TotalPerLun
    /\ (0 + 1) * TotalPerLun = TotalPerLun /\ (1 + 1) * TotalPerLun = 2 * TotalPerLun
  BY SizeAssumption

\* The first block at or after `from' that is not bad, or the end.
IsReserve(r, from, end, bad) ==
    /\ r \in from .. end
    /\ r # end => r \notin bad
    /\ \A q \in from .. r - 1 : q \in bad

LEMMA ReserveIs ==
    ASSUME NEW end \in Nat, NEW from \in 0 .. end, NEW bad
    PROVE  IsReserve(Min({q \in from .. end - 1 : q \notin bad} \cup {end}), from, end, bad)
<1> DEFINE S == {q \in from .. end - 1 : q \notin bad} \cup {end}
           r == Min(S)
<1>1. S \subseteq Nat /\ S # {}
  OBVIOUS
<1>2. \E x \in S : \A y \in S : x <= y
  <2> HIDE DEF S
  <2> QED
    BY <1>1, LeastNat
<1>3. r \in S /\ \A y \in S : r <= y
  <2> HIDE DEF S
  <2> QED
    BY <1>2 DEF Min
<1> HIDE DEF r
<1>4. r \in from .. end /\ (r # end => r \notin bad)
  BY <1>3
<1>5. ASSUME NEW q \in from .. r - 1, q \notin bad PROVE FALSE
  <2>1. q \in S /\ ~ (r <= q)
    BY <1>4, <1>5
  <2> QED
    BY <1>3, <2>1
<1> QED
  BY <1>4, <1>5 DEF IsReserve, r

Accs(end) == [remap : [Blocks -> Blocks], next : 0 .. end, left : Nat]

\* One block of the user space: a before it, y after it.
UserStep(a, y, bad, end, b) ==
    /\ b \notin bad => y = a
    /\ b \in bad =>
         \E r : /\ IsReserve(r, a.next, end, bad)
                /\ r = end => /\ y.next = end /\ y.left = a.left + 1
                              /\ y.remap = a.remap
                /\ r # end => /\ y.next = r + 1 /\ y.left = a.left
                              /\ y.remap = [a.remap EXCEPT ![b] = r]

LEMMA RemapUserStep ==
    ASSUME NEW lun \in {0, 1}, NEW bad, NEW b \in Blocks,
           NEW a \in Accs((lun + 1) * TotalPerLun)
    PROVE  /\ RemapUser(bad, lun, a, b) \in Accs((lun + 1) * TotalPerLun)
           /\ UserStep(a, RemapUser(bad, lun, a, b), bad, (lun + 1) * TotalPerLun, b)
<1> DEFINE r == Min({q \in a.next .. (lun + 1) * TotalPerLun - 1 : q \notin bad}
                      \cup {(lun + 1) * TotalPerLun})
           y == RemapUser(bad, lun, a, b)
<1>0. PICK end : end = (lun + 1) * TotalPerLun
  OBVIOUS
<1>1. end \in Nat /\ end <= 2 * TotalPerLun
  BY <1>0, Sizes
<1>2. a.next \in 0 .. end /\ a.remap \in [Blocks -> Blocks] /\ a.left \in Nat
  BY <1>0 DEF Accs
<1>3. IsReserve(r, a.next, end, bad)
  BY <1>0, <1>1, <1>2, ReserveIs
<1>4. y = IF b \notin bad THEN a
          ELSE IF r = end THEN [a EXCEPT !.next = end, !.left = @ + 1]
          ELSE [a EXCEPT !.next = r + 1, !.remap[b] = r]
  BY <1>0 DEF RemapUser
<1> HIDE DEF r, y
<1>5. r \in a.next .. end /\ r \in Nat
  BY <1>1, <1>2, <1>3 DEF IsReserve
<1>6. r # end => r \in Blocks /\ r + 1 \in 0 .. end
  BY <1>1, <1>5, <1>2, Sizes DEF Blocks
<1>7. y \in Accs(end)
  <2>1. CASE b \notin bad
    BY <2>1, <1>0, <1>4
  <2>2. CASE b \in bad /\ r = end
    <3>1. y = [a EXCEPT !.next = end, !.left = @ + 1]
      BY <2>2, <1>4
    <3>2. end \in 0 .. end /\ a.left + 1 \in Nat
      BY <1>1, <1>2
    <3> QED
      BY <3>1, <3>2, <1>0 DEF Accs
  <2>3. CASE b \in bad /\ r # end
    BY <2>3, <1>0, <1>2, <1>4, <1>6 DEF Accs
  <2> QED
    BY <2>1, <2>2, <2>3
<1>8. UserStep(a, y, bad, end, b)
  <2>1. CASE b \notin bad
    BY <2>1, <1>4 DEF UserStep
  <2>2. CASE b \in bad /\ r = end
    <3>1. y.next = end /\ y.left = a.left + 1 /\ y.remap = a.remap
      BY <2>2, <1>0, <1>4 DEF Accs
    <3> QED
      BY <2>2, <3>1, <1>3 DEF UserStep
  <2>3. CASE b \in bad /\ r # end
    <3>1. y.next = r + 1 /\ y.left = a.left /\ y.remap = [a.remap EXCEPT ![b] = r]
      BY <2>3, <1>0, <1>4 DEF Accs
    <3> QED
      BY <2>3, <3>1, <1>3 DEF UserStep
  <2> QED
    BY <2>1, <2>2, <2>3
<1> QED
  BY <1>0, <1>7, <1>8 DEF y

\* The accumulators of a LUN, block by block.
IsRemap(f, bad, lun, acc) ==
    /\ f[0] = [acc EXCEPT !.next = lun * TotalPerLun + UserPerLun]
    /\ \A i \in 0 .. UserPerLun : f[i] \in Accs((lun + 1) * TotalPerLun)
    /\ \A i \in 1 .. UserPerLun :
         UserStep(f[i - 1], f[i], bad, (lun + 1) * TotalPerLun, lun * TotalPerLun + i - 1)

LEMMA RemapLunIs ==
    ASSUME NEW lun \in {0, 1}, NEW bad, NEW e \in Nat, NEW acc \in Accs(e)
    PROVE  \E f : IsRemap(f, bad, lun, acc) /\ RemapLun(bad, lun, acc) = f[UserPerLun]
<1>0. PICK base, end : base = lun * TotalPerLun /\ end = (lun + 1) * TotalPerLun
  OBVIOUS
<1>1. /\ base \in Nat /\ end \in Nat /\ end = base + TotalPerLun
      /\ UserPerLun \in Nat /\ TotalPerLun \in Nat /\ UserPerLun <= TotalPerLun
      /\ \A i \in 1 .. UserPerLun : base + i - 1 \in Blocks
  BY <1>0, Sizes DEF Blocks
<1> DEFINE D == Accs(end)
           first == [acc EXCEPT !.next = base + UserPerLun]
           User(a, i) == RemapUser(bad, lun, a, base + i - 1)
           step == [x \in D \X (1 .. UserPerLun) |-> User(x[1], x[2])]
           Rec(g) == g = [i \in 0 .. UserPerLun |-> IF i = 0 THEN first ELSE User(g[i - 1], i)]
<1>2. ASSUME NEW a \in D, NEW i \in 1 .. UserPerLun
      PROVE  User(a, i) \in D /\ UserStep(a, User(a, i), bad, end, base + i - 1)
  BY <1>0, <1>1, RemapUserStep
<1>3. first \in D
  BY <1>1 DEF Accs
<1>4. PICK f : Steps(f, UserPerLun, first, step)
  BY <1>1, StepsExist
<1> HIDE DEF D, first, User
<1>5. \A i \in 0 .. UserPerLun : f[i] = IF i = 0 THEN first ELSE step[<<f[i - 1], i>>]
  BY <1>4 DEF Steps
<1>6. \A i \in 0 .. UserPerLun : f[i] \in D
  <2> DEFINE T == {i \in 0 .. UserPerLun : f[i] \in D}
  <2>1. 0 \in T
    <3>1. 0 \in 0 .. UserPerLun
      BY <1>1
    <3>2. f[0] = first
      BY <3>1, <1>5
    <3> QED
      BY <3>1, <3>2, <1>3
  <2>2. ASSUME NEW i \in 1 .. UserPerLun, i - 1 \in T PROVE i \in T
    <3>1. f[i - 1] \in D /\ i # 0 /\ i \in 0 .. UserPerLun
      BY <2>2, <1>1
    <3>2. f[i] = User(f[i - 1], i)
      BY <3>1, <1>5
    <3> QED
      BY <3>1, <3>2, <1>2
  <2> HIDE DEF T
  <2>3. \A i \in 0 .. UserPerLun : i \in T
    BY <1>1, <2>1, <2>2, UpTo
  <2> QED
    BY <2>3 DEF T
<1>7. Rec(f)
  <2>1. \A i \in 0 .. UserPerLun : i # 0 => i \in 1 .. UserPerLun /\ i - 1 \in 0 .. UserPerLun
    BY <1>1
  <2>2. ASSUME NEW i \in 0 .. UserPerLun, i # 0
        PROVE  step[<<f[i - 1], i>>] = User(f[i - 1], i)
    BY <2>1, <2>2, <1>6
  <2>3. \A i \in 0 .. UserPerLun : f[i] = IF i = 0 THEN first ELSE User(f[i - 1], i)
    BY <2>2, <1>5
  <2>4. f = [i \in 0 .. UserPerLun |-> f[i]]
    BY <1>4 DEF Steps
  <2> QED
    BY <2>3, <2>4
<1> DEFINE after == CHOOSE g : Rec(g)
<1>8. Rec(after)
  BY <1>7
<1>9. RemapLun(bad, lun, acc) = after[UserPerLun]
  BY <1>0 DEF RemapLun, first, User
<1> HIDE DEF after
<1>10. \A i \in 0 .. UserPerLun : after[i] = IF i = 0 THEN first ELSE User(after[i - 1], i)
  BY <1>8
<1>11. \A i \in 0 .. UserPerLun : after[i] \in D
  <2> DEFINE T == {i \in 0 .. UserPerLun : after[i] \in D}
  <2>1. 0 \in T
    BY <1>1, <1>3, <1>10
  <2>2. ASSUME NEW i \in 1 .. UserPerLun, i - 1 \in T PROVE i \in T
    <3>1. after[i - 1] \in D /\ i # 0 /\ i \in 0 .. UserPerLun
      BY <2>2, <1>1
    <3> QED
      BY <3>1, <1>2, <1>10
  <2> HIDE DEF T
  <2>3. \A i \in 0 .. UserPerLun : i \in T
    BY <1>1, <2>1, <2>2, UpTo
  <2> QED
    BY <2>3 DEF T
<1>12. \A i \in 1 .. UserPerLun : UserStep(after[i - 1], after[i], bad, end, base + i - 1)
  <2> SUFFICES ASSUME NEW i \in 1 .. UserPerLun
               PROVE  UserStep(after[i - 1], after[i], bad, end, base + i - 1)
    OBVIOUS
  <2>1. i - 1 \in 0 .. UserPerLun /\ i \in 0 .. UserPerLun /\ i # 0
    BY <1>1
  <2>2. after[i - 1] \in D /\ after[i] = User(after[i - 1], i)
    BY <2>1, <1>10, <1>11
  <2> QED
    BY <2>2, <1>2
<1>13. after[0] = first
  BY <1>1, <1>10
<1>14. IsRemap(after, bad, lun, acc)
  BY <1>0, <1>11, <1>12, <1>13 DEF IsRemap, D, first
<1> QED
  BY <1>9, <1>14

\* The blocks of a LUN that the first i steps have looked at.
Seen(base, i) == base .. base + i - 1

\* What the first i steps in a LUN make of the accumulator `old'.
LunOK(a, bad, base, end, i, old) ==
    /\ a.next \in base + UserPerLun .. end
    /\ \A b \in Blocks : b \notin Seen(base, i) => a.remap[b] = old.remap[b]
    /\ \A b \in Seen(base, i) : b \notin bad => a.remap[b] = b
    /\ \A b \in Seen(base, i) :
         a.remap[b] # b => /\ a.remap[b] \in base + UserPerLun .. a.next - 1
                           /\ a.remap[b] \notin bad
    /\ \A b, c \in Seen(base, i) : a.remap[b] = a.remap[c] => b = c
    /\ \A q \in base + UserPerLun .. a.next - 1 :
         q \in bad \/ \E b \in Seen(base, i) : a.remap[b] = q
    /\ \A b \in Seen(base, i) : a.remap[b] \in bad => a.next = end
    /\ a.left = old.left + Cardinality({b \in Seen(base, i) : a.remap[b] \in bad})

LEMMA LunStep ==
    ASSUME NEW base \in Nat, NEW end \in Nat, base + UserPerLun <= end,
           end <= 2 * TotalPerLun, NEW i \in 1 .. UserPerLun, NEW bad, NEW e \in Nat,
           NEW old \in Accs(e),
           \A b \in base .. end - 1 : old.remap[b] = b,
           NEW a \in Accs(end), NEW y \in Accs(end),
           LunOK(a, bad, base, end, i - 1, old),
           UserStep(a, y, bad, end, base + i - 1)
    PROVE  LunOK(y, bad, base, end, i, old)
<1>0. PICK b0, K, L : b0 = base + i - 1 /\ K = Seen(base, i - 1) /\ L = Seen(base, i)
  OBVIOUS
<1>1. /\ L = K \cup {b0} /\ b0 \notin K /\ b0 \in Blocks /\ L \subseteq Blocks /\ b0 \in Nat
      /\ b0 < base + UserPerLun /\ base <= b0 /\ b0 \in base .. end - 1
      /\ \A b \in L : b \in Nat /\ base <= b /\ b < base + UserPerLun
      /\ UserPerLun \in Nat
  BY <1>0, Sizes DEF Seen, Blocks
<1>2. /\ a.remap \in [Blocks -> Blocks] /\ y.remap \in [Blocks -> Blocks]
      /\ a.next \in 0 .. end /\ y.next \in 0 .. end /\ a.left \in Nat /\ y.left \in Nat
      /\ old.left \in Nat
  BY DEF Accs
<1>3. /\ a.next \in base + UserPerLun .. end
      /\ \A b \in Blocks : b \notin K => a.remap[b] = old.remap[b]
      /\ \A b \in K : b \notin bad => a.remap[b] = b
      /\ \A b \in K :
           a.remap[b] # b => /\ a.remap[b] \in base + UserPerLun .. a.next - 1
                             /\ a.remap[b] \notin bad
      /\ \A b, c \in K : a.remap[b] = a.remap[c] => b = c
      /\ \A q \in base + UserPerLun .. a.next - 1 : q \in bad \/ \E b \in K : a.remap[b] = q
      /\ \A b \in K : a.remap[b] \in bad => a.next = end
      /\ a.left = old.left + Cardinality({b \in K : a.remap[b] \in bad})
  BY <1>0 DEF LunOK
<1>4. a.remap[b0] = b0
  BY <1>1, <1>3
<1>5. IsFiniteSet(K)
  <2>1. base \in Int /\ base + (i - 1) - 1 \in Int
    OBVIOUS
  <2> QED
    BY <1>0, <2>1, FS_Interval DEF Seen
<1> DEFINE X == {b \in K : a.remap[b] \in bad}
           Y == {b \in L : y.remap[b] \in bad}
<1>6. IsFiniteSet(X) /\ Cardinality(X) \in Nat /\ b0 \notin X
  <2>1. X \subseteq K
    OBVIOUS
  <2> HIDE DEF X
  <2> QED
    BY <1>1, <1>5, <2>1, FS_Subset, FS_CardinalityType
<1>7. CASE b0 \notin bad
  <2>1. y = a
    BY <1>0, <1>7 DEF UserStep
  <2>2. Y = X
    BY <1>1, <1>4, <1>7, <2>1
  <2>3. y.left = old.left + Cardinality(Y)
    BY <1>3, <2>1, <2>2
  <2> HIDE DEF X, Y
  <2>4. \A b, c \in L : y.remap[b] = y.remap[c] => b = c
    <3> SUFFICES ASSUME NEW b \in K, a.remap[b] = b0 PROVE FALSE
      BY <1>1, <1>3, <1>4, <2>1
    <3>1. a.remap[b] # b
      BY <1>1
    <3> QED
      BY <1>1, <1>2, <1>3, <3>1
  <2> QED
    BY <1>0, <1>1, <1>3, <1>4, <1>7, <2>1, <2>3, <2>4 DEF LunOK, Y
<1>8. CASE b0 \in bad
  <2>1. PICK r : /\ IsReserve(r, a.next, end, bad)
                 /\ r = end => y.next = end /\ y.left = a.left + 1 /\ y.remap = a.remap
                 /\ r # end => /\ y.next = r + 1 /\ y.left = a.left
                               /\ y.remap = [a.remap EXCEPT ![b0] = r]
    BY <1>0, <1>8 DEF UserStep
  <2>2. r \in a.next .. end /\ (r # end => r \notin bad) /\ \A q \in a.next .. r - 1 : q \in bad
    BY <2>1 DEF IsReserve
  <2>3. CASE r = end
    <3>1. y.next = end /\ y.left = a.left + 1 /\ y.remap = a.remap
      BY <2>1, <2>3
    <3>2. Y = X \cup {b0}
      BY <1>1, <1>4, <1>8, <3>1
    <3>3. y.left = old.left + Cardinality(Y)
      <4> HIDE DEF X, Y
      <4>1. Cardinality(Y) = Cardinality(X) + 1
        BY <1>6, <3>2, FS_AddElement
      <4>2. a.left = old.left + Cardinality(X)
        BY <1>3 DEF X
      <4> QED
        BY <4>1, <4>2, <3>1, <1>2, <1>6
    <3> HIDE DEF X, Y
    <3>4. \A q \in base + UserPerLun .. y.next - 1 : q \in bad \/ \E b \in L : y.remap[b] = q
      <4> SUFFICES ASSUME NEW q \in base + UserPerLun .. end - 1, q \notin bad
                   PROVE  \E b \in L : y.remap[b] = q
        BY <3>1
      <4>1. q < a.next
        BY <1>2, <2>2, <2>3
      <4>2. q \in base + UserPerLun .. a.next - 1
        BY <4>1, <1>2
      <4> QED
        BY <1>1, <1>3, <3>1, <4>2
    <3>5. \A b, c \in L : y.remap[b] = y.remap[c] => b = c
      <4> SUFFICES ASSUME NEW b \in K, a.remap[b] = b0 PROVE FALSE
        BY <1>1, <1>3, <1>4, <3>1
      <4>1. a.remap[b] # b
        BY <1>1
      <4> QED
        BY <1>1, <1>2, <1>3, <4>1
    <3>6. \A b \in L :
           y.remap[b] # b => /\ y.remap[b] \in base + UserPerLun .. y.next - 1
                             /\ y.remap[b] \notin bad
      BY <1>1, <1>2, <1>3, <1>4, <3>1
    <3>7. y.next \in base + UserPerLun .. end
      BY <1>2, <1>3, <3>1
    <3> QED
      BY <1>0, <1>1, <1>3, <1>4, <1>8, <3>1, <3>3, <3>4, <3>5, <3>6, <3>7 DEF LunOK, Y
  <2>4. CASE r # end
    <3>1. y.next = r + 1 /\ y.left = a.left /\ y.remap = [a.remap EXCEPT ![b0] = r]
      BY <2>1, <2>4
    <3>2. /\ y.remap[b0] = r /\ \A b \in Blocks : b # b0 => y.remap[b] = a.remap[b]
          /\ r \in Nat /\ a.next <= r /\ r < end /\ r \notin bad /\ base + UserPerLun <= r
      BY <1>1, <1>2, <1>3, <2>2, <2>4, <3>1
    <3>3. \A b \in K : b \in Blocks /\ b # b0 /\ y.remap[b] = a.remap[b]
      BY <1>1, <3>2
    <3>4. a.next # end
      BY <1>2, <3>2
    <3>5. Y = {} /\ X = {}
      BY <1>1, <1>3, <3>2, <3>3, <3>4
    <3>6. y.left = old.left + Cardinality(Y)
      BY <1>3, <3>1, <3>5
    <3>7. \A b \in L : y.remap[b] \notin bad
      BY <3>5
    <3> HIDE DEF X, Y
    <3>8. \A q \in base + UserPerLun .. y.next - 1 : q \in bad \/ \E b \in L : y.remap[b] = q
      <4> SUFFICES ASSUME NEW q \in base + UserPerLun .. r, q \notin bad
                   PROVE  \E b \in L : y.remap[b] = q
        BY <3>1, <3>2
      <4>1. CASE q = r
        BY <4>1, <3>2, <1>1
      <4>2. CASE q # r
        <5>1. q < a.next
          BY <4>2, <1>2, <2>2, <3>2
        <5>2. q \in base + UserPerLun .. a.next - 1
          BY <5>1, <1>2
        <5>3. PICK b \in K : a.remap[b] = q
          BY <5>2, <1>3
        <5> QED
          BY <5>3, <3>3, <1>1
      <4> QED
        BY <4>1, <4>2
    <3>9. \A b \in K : a.remap[b] # r
      <4> SUFFICES ASSUME NEW b \in K, a.remap[b] = r PROVE FALSE
        OBVIOUS
      <4>1. b # r
        BY <1>1, <3>2
      <4>2. a.remap[b] \in base + UserPerLun .. a.next - 1
        BY <4>1, <1>3
      <4> QED
        BY <4>2, <3>2, <1>2
    <3>10. \A b, c \in L : y.remap[b] = y.remap[c] => b = c
      BY <1>1, <1>3, <3>2, <3>3, <3>9
    <3>11. \A b \in L :
           y.remap[b] # b => /\ y.remap[b] \in base + UserPerLun .. y.next - 1
                             /\ y.remap[b] \notin bad
      <4> SUFFICES ASSUME NEW b \in L, y.remap[b] # b
                   PROVE  y.remap[b] \in base + UserPerLun .. r
        BY <3>1, <3>2, <3>7
      <4>1. CASE b = b0
        BY <4>1, <3>2
      <4>2. CASE b # b0
        <5>1. a.remap[b] \in base + UserPerLun .. a.next - 1 /\ y.remap[b] = a.remap[b]
          BY <4>2, <1>1, <1>3, <3>3
        <5> QED
          BY <5>1, <3>2, <1>2
      <4> QED
        BY <4>1, <4>2
    <3>12. y.next \in base + UserPerLun .. end
      BY <1>1, <1>2, <3>1, <3>2
    <3>13. \A b \in Blocks : b \notin L => y.remap[b] = old.remap[b]
      BY <1>1, <1>3, <3>2
    <3>14. \A b \in L : b \notin bad => y.remap[b] = b
      BY <1>1, <1>3, <1>8, <3>3
    <3> QED
      BY <1>0, <3>6, <3>7, <3>8, <3>10, <3>11, <3>12, <3>13, <3>14 DEF LunOK, Y
  <2> QED
    BY <2>3, <2>4
<1> QED
  BY <1>7, <1>8

LEMMA LunEnd ==
    ASSUME NEW lun \in {0, 1}, NEW bad, NEW e \in Nat, NEW acc \in Accs(e),
           \A b \in lun * TotalPerLun .. (lun + 1) * TotalPerLun - 1 : acc.remap[b] = b
    PROVE  /\ RemapLun(bad, lun, acc) \in Accs((lun + 1) * TotalPerLun)
           /\ LunOK(RemapLun(bad, lun, acc), bad, lun * TotalPerLun,
                    (lun + 1) * TotalPerLun, UserPerLun, acc)
<1>0. PICK base, end : base = lun * TotalPerLun /\ end = (lun + 1) * TotalPerLun
  OBVIOUS
<1>1. /\ base \in Nat /\ end \in Nat /\ end = base + TotalPerLun /\ end <= 2 * TotalPerLun
      /\ UserPerLun \in Nat /\ base + UserPerLun <= end /\ UserPerLun \in 0 .. UserPerLun
  BY <1>0, Sizes
<1>2. PICK f : IsRemap(f, bad, lun, acc) /\ RemapLun(bad, lun, acc) = f[UserPerLun]
  BY RemapLunIs
<1>3. /\ f[0] = [acc EXCEPT !.next = base + UserPerLun]
      /\ \A i \in 0 .. UserPerLun : f[i] \in Accs(end)
      /\ \A i \in 1 .. UserPerLun : UserStep(f[i - 1], f[i], bad, end, base + i - 1)
  BY <1>0, <1>2 DEF IsRemap
<1> DEFINE T == {i \in 0 .. UserPerLun : LunOK(f[i], bad, base, end, i, acc)}
<1>4. 0 \in T
  <2>1. f[0].next = base + UserPerLun /\ f[0].remap = acc.remap /\ f[0].left = acc.left
    BY <1>3 DEF Accs
  <2>2. Seen(base, 0) = {}
    BY <1>1 DEF Seen
  <2>3. Cardinality({b \in Seen(base, 0) : f[0].remap[b] \in bad}) = 0
    <3>1. {b \in Seen(base, 0) : f[0].remap[b] \in bad} = {}
      BY <2>2
    <3> QED
      BY <3>1, FS_EmptySet
  <2>4. acc.left \in Nat
    BY DEF Accs
  <2>5. f[0].left = acc.left + Cardinality({b \in Seen(base, 0) : f[0].remap[b] \in bad})
    BY <2>1, <2>3, <2>4
  <2>6. f[0].next \in base + UserPerLun .. end
        /\ \A q \in base + UserPerLun .. f[0].next - 1 : FALSE
    BY <1>1, <2>1
  <2>7. LunOK(f[0], bad, base, end, 0, acc)
    BY <2>1, <2>2, <2>5, <2>6 DEF LunOK
  <2> QED
    BY <1>1, <2>7
<1>5. ASSUME NEW i \in 1 .. UserPerLun, i - 1 \in T PROVE i \in T
  <2>1. i - 1 \in 0 .. UserPerLun /\ i \in 0 .. UserPerLun
    BY <1>1
  <2>2. f[i - 1] \in Accs(end) /\ f[i] \in Accs(end)
        /\ UserStep(f[i - 1], f[i], bad, end, base + i - 1)
        /\ LunOK(f[i - 1], bad, base, end, i - 1, acc)
        /\ \A b \in base .. end - 1 : acc.remap[b] = b
    BY <2>1, <1>0, <1>3, <1>5
  <2>3. LunOK(f[i], bad, base, end, i, acc)
    BY <2>2, <1>1, LunStep
  <2> QED
    BY <2>1, <2>3
<1> HIDE DEF T
<1>6. UserPerLun \in T
  BY <1>1, <1>4, <1>5, UpTo
<1> QED
  BY <1>0, <1>1, <1>2, <1>3, <1>6 DEF T

\* The user blocks of a LUN that begins at `base', and all of them.
UserOf(base) == base .. base + UserPerLun - 1
UserBlocks   == UserOf(0) \cup UserOf(TotalPerLun)

\* What the map does in the LUN from `base' to `end'.
LunMap(remap, bad, base, end) ==
    /\ \A b \in UserOf(base) : remap[b] \in base .. end - 1
    /\ \A b, c \in UserOf(base) : remap[b] = remap[c] => b = c
    /\ \A b \in UserOf(base) : remap[b] \in bad =>
         \A q \in base + UserPerLun .. end - 1 :
            q \in bad \/ \E c \in UserOf(base) : remap[c] = q

RemapOK(remap, left, bad) ==
    /\ remap \in [Blocks -> Blocks]
    /\ LunMap(remap, bad, 0, TotalPerLun)
    /\ LunMap(remap, bad, TotalPerLun, 2 * TotalPerLun)
    /\ left = Cardinality({b \in UserBlocks : remap[b] \in bad})
    /\ left \in Nat

LEMMA LunMapIs ==
    ASSUME NEW base \in Nat, NEW end \in Nat, base + UserPerLun <= end,
           NEW bad, NEW a, NEW old, LunOK(a, bad, base, end, UserPerLun, old)
    PROVE  LunMap(a.remap, bad, base, end)
<1>1. Seen(base, UserPerLun) = UserOf(base) /\ UserPerLun \in Nat
  BY Sizes DEF Seen, UserOf
<1>2. \A b \in UserOf(base) : b \in base .. end - 1
  BY <1>1 DEF UserOf
<1>3. ASSUME NEW b \in UserOf(base) PROVE a.remap[b] \in base .. end - 1
  <2>1. CASE a.remap[b] = b
    BY <2>1, <1>2
  <2>2. CASE a.remap[b] # b
    <3>1. a.remap[b] \in base + UserPerLun .. a.next - 1 /\ a.next \in base + UserPerLun .. end
      BY <2>2, <1>1 DEF LunOK
    <3> QED
      BY <3>1, <1>1
  <2> QED
    BY <2>1, <2>2
<1> QED
  BY <1>1, <1>3 DEF LunMap, LunOK

\* Each LUN maps its blocks within itself, and the counts add up.
LEMMA RemapIs ==
    ASSUME NEW bad
    PROVE  RemapOK(RemapBadBlock(bad).remap, RemapBadBlock(bad).left, bad)
<1> DEFINE z == [remap |-> [b \in Blocks |-> b], next |-> 0, left |-> 0]
<1>1. PICK x : x = RemapLun(bad, 0, z)
  OBVIOUS
<1>2. PICK y : y = RemapLun(bad, 1, x)
  OBVIOUS
<1>3. z \in Accs(0) /\ z.remap = [b \in Blocks |-> b] /\ z.left = 0
  BY DEF Accs
<1> HIDE DEF z
<1>4. /\ TotalPerLun \in Nat /\ UserPerLun \in Nat /\ UserPerLun <= TotalPerLun
      /\ 2 * TotalPerLun \in Nat /\ 0 \in Nat
      /\ 0 + UserPerLun <= TotalPerLun /\ TotalPerLun + UserPerLun <= 2 * TotalPerLun
      /\ 0 .. TotalPerLun - 1 \subseteq Blocks
      /\ TotalPerLun .. 2 * TotalPerLun - 1 \subseteq Blocks
  BY Sizes DEF Blocks
<1>5. x \in Accs(TotalPerLun) /\ LunOK(x, bad, 0, TotalPerLun, UserPerLun, z)
  <2>1. \A b \in 0 * TotalPerLun .. (0 + 1) * TotalPerLun - 1 : z.remap[b] = b
    BY Sizes, <1>3, <1>4
  <2> QED
    BY <1>1, <1>3, <2>1, LunEnd, Sizes
<1>6. Seen(0, UserPerLun) = UserOf(0) /\ Seen(TotalPerLun, UserPerLun) = UserOf(TotalPerLun)
  BY <1>4 DEF Seen, UserOf
<1>7. \A b \in Blocks : b \notin UserOf(0) => x.remap[b] = b
  BY <1>3, <1>5, <1>6 DEF LunOK
<1>8. \A b \in TotalPerLun .. 2 * TotalPerLun - 1 : x.remap[b] = b
  <2>1. \A b \in TotalPerLun .. 2 * TotalPerLun - 1 : b \in Blocks /\ b \notin UserOf(0)
    BY <1>4 DEF UserOf
  <2> QED
    BY <2>1, <1>7
<1>9. y \in Accs(2 * TotalPerLun)
      /\ LunOK(y, bad, TotalPerLun, 2 * TotalPerLun, UserPerLun, x)
  <2>1. \A b \in 1 * TotalPerLun .. (1 + 1) * TotalPerLun - 1 : x.remap[b] = b
    BY Sizes, <1>8
  <2> QED
    BY <1>2, <1>4, <1>5, <2>1, LunEnd, Sizes
<1>10. \A b \in Blocks : b \notin UserOf(TotalPerLun) => y.remap[b] = x.remap[b]
  BY <1>6, <1>9 DEF LunOK
<1>11. \A b \in UserOf(0) : b \in Blocks /\ b \notin UserOf(TotalPerLun) /\ y.remap[b] = x.remap[b]
  <2>1. \A b \in UserOf(0) : b \in Blocks /\ b \notin UserOf(TotalPerLun)
    BY <1>4 DEF UserOf, Blocks
  <2> QED
    BY <2>1, <1>10
<1>12. LunMap(y.remap, bad, TotalPerLun, 2 * TotalPerLun)
  BY <1>4, <1>9, LunMapIs
<1>13. LunMap(y.remap, bad, 0, TotalPerLun)
  <2>1. LunMap(x.remap, bad, 0, TotalPerLun)
    BY <1>4, <1>5, LunMapIs
  <2> QED
    BY <2>1, <1>11 DEF LunMap
<1>14. /\ x.left = Cardinality({b \in UserOf(0) : x.remap[b] \in bad}) /\ x.left \in Nat
       /\ y.left = x.left + Cardinality({b \in UserOf(TotalPerLun) : y.remap[b] \in bad})
       /\ y.left \in Nat
  <2>1. x.left = z.left + Cardinality({b \in UserOf(0) : x.remap[b] \in bad}) /\ x.left \in Nat
    BY <1>5, <1>6 DEF LunOK, Accs
  <2>2. IsFiniteSet({b \in UserOf(0) : x.remap[b] \in bad})
    <3>1. IsFiniteSet(UserOf(0))
      BY <1>4, FS_Interval DEF UserOf
    <3> QED
      BY <3>1, FS_Subset
  <2>3. Cardinality({b \in UserOf(0) : x.remap[b] \in bad}) \in Nat
    BY <2>2, FS_CardinalityType
  <2>4. y.left = x.left + Cardinality({b \in UserOf(TotalPerLun) : y.remap[b] \in bad})
        /\ y.left \in Nat
    BY <1>6, <1>9 DEF LunOK, Accs
  <2> QED
    BY <2>1, <2>3, <2>4, <1>3
<1>15. y.left = Cardinality({b \in UserBlocks : y.remap[b] \in bad})
  <2> DEFINE A == {b \in UserOf(0) : y.remap[b] \in bad}
             B == {b \in UserOf(TotalPerLun) : y.remap[b] \in bad}
  <2>1. A = {b \in UserOf(0) : x.remap[b] \in bad}
    BY <1>11
  <2>2. {b \in UserBlocks : y.remap[b] \in bad} = A \cup B /\ A \cap B = {}
    BY <1>11 DEF UserBlocks
  <2>3. IsFiniteSet(UserOf(0)) /\ IsFiniteSet(UserOf(TotalPerLun))
    BY <1>4, FS_Interval DEF UserOf
  <2>4. IsFiniteSet(A) /\ IsFiniteSet(B)
    BY <2>3, FS_Subset
  <2>5. y.left = Cardinality(A) + Cardinality(B)
    BY <2>1, <1>14
  <2> DEFINE C == {b \in UserBlocks : y.remap[b] \in bad}
  <2> HIDE DEF A, B, C
  <2>6. Cardinality(A \cup B) = Cardinality(A) + Cardinality(B) - Cardinality({})
    BY <2>2, <2>4, FS_Union
  <2> QED
    <3>1. Cardinality({}) = 0 /\ Cardinality(A) \in Nat /\ Cardinality(B) \in Nat
      BY <2>4, FS_EmptySet, FS_CardinalityType
    <3>2. C = A \cup B
      BY <2>2 DEF C
    <3>3. y.left = Cardinality(C)
      BY <2>5, <2>6, <3>1, <3>2
    <3> QED
      BY <3>3 DEF C
<1>16. RemapBadBlock(bad) = y
  BY <1>1, <1>2 DEF RemapBadBlock, z
<1>17. y.remap \in [Blocks -> Blocks]
  BY <1>9 DEF Accs
<1> QED
  BY <1>12, <1>13, <1>14, <1>15, <1>16, <1>17 DEF RemapOK

(***************************************************************************)
(* Addresses                                                               *)
(***************************************************************************)

\* Quotients 0 and 1.
LEMMA Quot ==
    ASSUME NEW m \in Nat, 0 < m, NEW x \in Nat, x < 2 * m
    PROVE  /\ x < m => x \div m = 0 /\ x % m = x
           /\ m <= x => x \div m = 1 /\ x % m = x - m
<1>1. PICK q, s : q = x \div m /\ s = x % m
  OBVIOUS
<1>2. q \in Int /\ q >= 0 /\ s \in 0 .. m - 1 /\ x = m * q + s
  BY <1>1
<1>3. q < 2
  <2> SUFFICES ASSUME 2 <= q PROVE FALSE
    BY <1>2
  <2>1. PICK k \in Nat : q = 2 + k
    <3>1. q - 2 \in Nat /\ q = 2 + (q - 2)
      BY <1>2
    <3> QED
      BY <3>1
  <2>2. m * q = 2 * m + m * k /\ m * k \in Nat
    BY <2>1
  <2> HIDE <2>1
  <2> QED
    BY <1>2, <2>2
<1>4. CASE q = 0
  BY <1>1, <1>2, <1>4
<1>5. CASE q = 1
  BY <1>1, <1>2, <1>5
<1> QED
  BY <1>2, <1>3, <1>4, <1>5

TblOf(v) == Vblock2PblockOfTbs(v)

\* A virtual block is a user block of its LUN.
LEMMA TblIs ==
    ASSUME NEW v \in VBlocks
    PROVE  /\ v < UserPerLun => /\ v \div UserPerLun = 0 /\ TblOf(v) = v
                                /\ TblOf(v) \in UserOf(0)
           /\ UserPerLun <= v => /\ v \div UserPerLun = 1
                                 /\ TblOf(v) = TotalPerLun + (v - UserPerLun)
                                 /\ TblOf(v) \in UserOf(TotalPerLun)
           /\ v \in Nat /\ TblOf(v) \in Blocks
<1>1. /\ UserPerLun \in Nat /\ 0 < UserPerLun /\ v \in Nat /\ v < 2 * UserPerLun
      /\ TotalPerLun \in Nat /\ UserPerLun <= TotalPerLun
  BY Sizes DEF VBlocks
<1>2. CASE v < UserPerLun
  <2>1. v \div UserPerLun = 0 /\ v % UserPerLun = v
    BY <1>1, <1>2, Quot
  <2>2. TblOf(v) = 0 * TotalPerLun + v
    BY <2>1 DEF TblOf, Vblock2PblockOfTbs
  <2>3. TblOf(v) = v
    BY <2>2, <1>1, Sizes
  <2> QED
    BY <1>1, <1>2, <2>1, <2>3 DEF UserOf, Blocks
<1>3. CASE UserPerLun <= v
  <2>1. v \div UserPerLun = 1 /\ v % UserPerLun = v - UserPerLun
    BY <1>1, <1>3, Quot
  <2>2. TblOf(v) = 1 * TotalPerLun + (v - UserPerLun)
    BY <2>1 DEF TblOf, Vblock2PblockOfTbs
  <2>3. TblOf(v) = TotalPerLun + (v - UserPerLun)
    BY <2>2, <1>1, Sizes
  <2> QED
    BY <1>1, <1>3, <2>1, <2>3 DEF UserOf, Blocks
<1> QED
  BY <1>1, <1>2, <1>3

\* The row address of a virtual block leads back to the block it is mapped to.
LEMMA PhyIs ==
    ASSUME NEW remap, NEW bad, LunMap(remap, bad, 0, TotalPerLun),
           LunMap(remap, bad, TotalPerLun, 2 * TotalPerLun), NEW v \in VBlocks
    PROVE  PhyBlock(remap, v) = remap[TblOf(v)] /\ remap[TblOf(v)] \in Blocks
<1>0. PICK p, r : p = TblOf(v) /\ r = remap[p]
  OBVIOUS
<1>1. /\ TotalPerLun \in Nat /\ 0 < TotalPerLun /\ UserPerLun \in Nat
      /\ UserPerLun <= TotalPerLun /\ 2 * TotalPerLun \in Nat
  BY Sizes
<1>2. PhyBlock(remap, v)
        = PhyBlockOfRow((IF p \div TotalPerLun = 0 THEN 0 ELSE 2 * TotalPerLun)
                           + (r % TotalPerLun))
  BY <1>0 DEF PhyBlock, GenerateNandRowAddr, TblOf, Lun1BaseAddr
<1>3. CASE v < UserPerLun
  <2>1. p \in UserOf(0)
    BY <1>0, <1>3, TblIs
  <2>2. r \in 0 .. TotalPerLun - 1
    BY <1>0, <2>1 DEF LunMap
  <2>3. p \in Nat /\ p < TotalPerLun /\ r \in Nat /\ r < TotalPerLun
    BY <1>1, <2>1, <2>2 DEF UserOf
  <2>4. p \div TotalPerLun = 0 /\ r % TotalPerLun = r
    BY <1>1, <2>3, Quot
  <2>5. PhyBlock(remap, v) = PhyBlockOfRow(0 + r)
    BY <1>2, <2>4
  <2>6. r \div (2 * TotalPerLun) = 0 /\ r % (2 * TotalPerLun) = r
    <3>1. 0 < 2 * TotalPerLun /\ r < 2 * TotalPerLun /\ r < 2 * (2 * TotalPerLun)
      BY <1>1, <2>3
    <3> QED
      BY <3>1, <1>1, <2>3, Quot
  <2>7. PhyBlockOfRow(r) = r + 0 * TotalPerLun
    BY <2>6 DEF PhyBlockOfRow, Lun1BaseAddr
  <2> QED
    BY <1>0, <1>1, <2>3, <2>5, <2>7, Sizes DEF Blocks
<1>4. CASE UserPerLun <= v
  <2>1. p \in UserOf(TotalPerLun)
    BY <1>0, <1>4, TblIs
  <2>2. r \in TotalPerLun .. 2 * TotalPerLun - 1
    BY <1>0, <2>1 DEF LunMap
  <2>3. /\ p \in Nat /\ TotalPerLun <= p /\ p < 2 * TotalPerLun
        /\ r \in Nat /\ TotalPerLun <= r /\ r < 2 * TotalPerLun
    BY <1>1, <2>1, <2>2 DEF UserOf
  <2>4. p \div TotalPerLun = 1 /\ r % TotalPerLun = r - TotalPerLun
    BY <1>1, <2>3, Quot
  <2>5. PICK w : w = 2 * TotalPerLun + (r - TotalPerLun)
    OBVIOUS
  <2>6. PhyBlock(remap, v) = PhyBlockOfRow(w)
    BY <1>2, <2>4, <2>5
  <2>7. w \div (2 * TotalPerLun) = 1 /\ w % (2 * TotalPerLun) = w - 2 * TotalPerLun
    <3>1. /\ 0 < 2 * TotalPerLun /\ w \in Nat
          /\ 2 * TotalPerLun <= w /\ w < 2 * (2 * TotalPerLun)
      BY <1>1, <2>3, <2>5
    <3> QED
      BY <3>1, <1>1, Quot
  <2>8. PhyBlockOfRow(w) = (w - 2 * TotalPerLun) + 1 * TotalPerLun
    BY <2>7 DEF PhyBlockOfRow, Lun1BaseAddr
  <2> QED
    BY <1>0, <1>1, <2>3, <2>5, <2>6, <2>8, Sizes DEF Blocks
<1>5. v < UserPerLun \/ UserPerLun <= v
  BY <1>1, TblIs
<1> QED
  BY <1>3, <1>4, <1>5

LEMMA SameCount ==
    ASSUME NEW S, IsFiniteSet(S), NEW T, NEW f \in [S -> T],
           \A x, y \in S : f[x] = f[y] => x = y, \A t \in T : \E x \in S : f[x] = t
    PROVE  IsFiniteSet(T) /\ Cardinality(T) = Cardinality(S)
<1>1. f \in Bijection(S, T)
  BY DEF Bijection, Injection, Surjection, IsInjective
<1>2. ExistsBijection(S, T)
  BY <1>1 DEF ExistsBijection
<1> QED
  BY <1>2, FS_Bijection

LEMMA VBlocksCount == IsFiniteSet(VBlocks) /\ Cardinality(VBlocks) = 2 * UserPerLun
<1>1. 0 \in Int /\ 2 * UserPerLun - 1 \in Int /\ ~ (0 > 2 * UserPerLun - 1)
      /\ (2 * UserPerLun - 1) - 0 + 1 = 2 * UserPerLun
  BY Sizes
<1> QED
  BY <1>1, FS_Interval DEF VBlocks

\* Each user block is the place of one virtual block.
LEMMA TblBijects ==
    /\ \A v, w \in VBlocks : TblOf(v) = TblOf(w) => v = w
    /\ \A b \in UserBlocks : \E v \in VBlocks : TblOf(v) = b
    /\ \A v \in VBlocks : TblOf(v) \in UserBlocks
<1>1. /\ UserPerLun \in Nat /\ TotalPerLun \in Nat /\ UserPerLun <= TotalPerLun
      /\ 1 <= UserPerLun
  BY Sizes
<1>2. ASSUME NEW v \in VBlocks
      PROVE  /\ v \in Nat /\ TblOf(v) \in UserBlocks
             /\ \/ v < UserPerLun /\ TblOf(v) = v
                \/ UserPerLun <= v /\ TblOf(v) = TotalPerLun + (v - UserPerLun)
  BY <1>1, TblIs DEF UserBlocks
<1>3. ASSUME NEW v \in VBlocks, NEW w \in VBlocks, TblOf(v) = TblOf(w) PROVE v = w
  BY <1>1, <1>2, <1>3
<1>4. ASSUME NEW b \in UserOf(0) PROVE \E v \in VBlocks : TblOf(v) = b
  <2>1. b \in VBlocks /\ b < UserPerLun
    BY <1>1 DEF UserOf, VBlocks
  <2> QED
    BY <2>1, TblIs
<1>5. ASSUME NEW b \in UserOf(TotalPerLun) PROVE \E v \in VBlocks : TblOf(v) = b
  <2>1. /\ UserPerLun + (b - TotalPerLun) \in VBlocks
        /\ UserPerLun <= UserPerLun + (b - TotalPerLun)
        /\ TotalPerLun + ((UserPerLun + (b - TotalPerLun)) - UserPerLun) = b
    BY <1>1 DEF UserOf, VBlocks
  <2> QED
    BY <2>1, TblIs
<1> QED
  BY <1>2, <1>3, <1>4, <1>5 DEF UserBlocks

\* The virtual blocks that a map leaves without a good block.
VBad(remap, bad) == {v \in VBlocks : remap[TblOf(v)] \in bad}

LEMMA MapInjective ==
    ASSUME NEW remap, NEW left, NEW bad, RemapOK(remap, left, bad),
           NEW v \in VBlocks, NEW w \in VBlocks, remap[TblOf(v)] = remap[TblOf(w)]
    PROVE  v = w
<1>1. /\ UserPerLun \in Nat /\ TotalPerLun \in Nat /\ UserPerLun <= TotalPerLun
  BY Sizes
<1>2. LunMap(remap, bad, 0, TotalPerLun) /\ LunMap(remap, bad, TotalPerLun, 2 * TotalPerLun)
  BY DEF RemapOK
<1>3. PICK p, q : p = TblOf(v) /\ q = TblOf(w)
  OBVIOUS
<1>4. p \in UserBlocks /\ q \in UserBlocks
  BY <1>3, TblBijects
<1>5. p = q
  <2>1. CASE p \in UserOf(0) /\ q \in UserOf(0)
    BY <2>1, <1>2, <1>3 DEF LunMap
  <2>2. CASE p \in UserOf(TotalPerLun) /\ q \in UserOf(TotalPerLun)
    BY <2>2, <1>2, <1>3 DEF LunMap
  <2>3. \A b \in UserOf(0) : remap[b] \in 0 .. TotalPerLun - 1
    BY <1>2 DEF LunMap
  <2>4. \A b \in UserOf(TotalPerLun) : remap[b] \in TotalPerLun .. 2 * TotalPerLun - 1
    BY <1>2 DEF LunMap
  <2>5. remap[p] = remap[q]
    BY <1>3
  <2>6. CASE p \in UserOf(0) /\ q \in UserOf(TotalPerLun)
    BY <2>3, <2>4, <2>5, <2>6, <1>1
  <2>7. CASE p \in UserOf(TotalPerLun) /\ q \in UserOf(0)
    BY <2>3, <2>4, <2>5, <2>7, <1>1
  <2> QED
    BY <2>1, <2>2, <2>6, <2>7, <1>4 DEF UserBlocks
<1> QED
  BY <1>3, <1>5, TblBijects

\* The count of the bad blocks left is the count of the virtual blocks without one.
LEMMA BadCount ==
    ASSUME NEW remap, NEW left, NEW bad, RemapOK(remap, left, bad)
    PROVE  /\ IsFiniteSet(VBlocks \ VBad(remap, bad))
           /\ Cardinality(VBlocks \ VBad(remap, bad)) = 2 * UserPerLun - left
           /\ left \in 0 .. 2 * UserPerLun
<1> DEFINE S == VBad(remap, bad)
           T == {b \in UserBlocks : remap[b] \in bad}
           f == [v \in S |-> TblOf(v)]
<1>1. f \in [S -> T]
  BY TblBijects DEF VBad
<1>2. \A x, y \in S : f[x] = f[y] => x = y
  BY TblBijects DEF VBad
<1>3. \A t \in T : \E x \in S : f[x] = t
  BY TblBijects DEF VBad
<1>4. S \in SUBSET VBlocks
  BY DEF VBad
<1> HIDE DEF S, f
<1>5. IsFiniteSet(S) /\ Cardinality(S) \in Nat /\ Cardinality(S) <= Cardinality(VBlocks)
  BY <1>4, VBlocksCount, FS_Subset, FS_CardinalityType
<1>6. left = Cardinality(T) /\ left \in Nat
  BY DEF RemapOK
<1> HIDE DEF T
<1>7. Cardinality(T) = Cardinality(S)
  BY <1>1, <1>2, <1>3, <1>5, SameCount
<1>8. Cardinality(VBlocks \ S) = Cardinality(VBlocks) - Cardinality(VBlocks \cap S)
      /\ IsFiniteSet(VBlocks \ S)
  BY VBlocksCount, FS_Difference
<1>9. VBlocks \cap S = S
  BY <1>4
<1>10. Cardinality(VBlocks \ S) = 2 * UserPerLun - left /\ left \in 0 .. 2 * UserPerLun
  <2>1. Cardinality(VBlocks \cap S) = Cardinality(S)
    BY <1>9
  <2>2. Cardinality(VBlocks \ S) = 2 * UserPerLun - left
    BY <1>6, <1>7, <1>8, <2>1, VBlocksCount
  <2> QED
    BY <2>2, <1>5, <1>6, <1>7, VBlocksCount, Sizes
<1> QED
  BY <1>8, <1>10 DEF S

\* A LUN with a virtual block without a good block has no good reserve to give.
LEMMA NoReserve ==
    ASSUME NEW remap, NEW left, NEW bad, RemapOK(remap, left, bad),
           NEW v \in VBad(remap, bad), NEW r \in UserPerLun .. TotalPerLun - 1
    PROVE  LET q == (v \div UserPerLun) * TotalPerLun + r
           IN  q \in bad \/ \E w \in VBlocks : remap[TblOf(w)] = q
<1>1. /\ UserPerLun \in Nat /\ TotalPerLun \in Nat /\ UserPerLun <= TotalPerLun
  BY Sizes
<1>2. LunMap(remap, bad, 0, TotalPerLun) /\ LunMap(remap, bad, TotalPerLun, 2 * TotalPerLun)
  BY DEF RemapOK
<1>3. v \in VBlocks /\ remap[TblOf(v)] \in bad
  BY DEF VBad
<1>4. PICK q : q = (v \div UserPerLun) * TotalPerLun + r
  OBVIOUS
<1>5. CASE v < UserPerLun
  <2>1. v \div UserPerLun = 0 /\ TblOf(v) \in UserOf(0)
    BY <1>3, <1>5, TblIs
  <2>2. q = 0 * TotalPerLun + r
    BY <1>4, <2>1
  <2>3. q \in 0 + UserPerLun .. TotalPerLun - 1
    BY <1>1, <2>2, Sizes
  <2>4. q \in bad \/ \E c \in UserOf(0) : remap[c] = q
    BY <1>2, <1>3, <2>1, <2>3 DEF LunMap
  <2> QED
    BY <1>4, <2>4, TblBijects DEF UserBlocks
<1>6. CASE UserPerLun <= v
  <2>1. v \div UserPerLun = 1 /\ TblOf(v) \in UserOf(TotalPerLun)
    BY <1>3, <1>6, TblIs
  <2>2. q = 1 * TotalPerLun + r
    BY <1>4, <2>1
  <2>3. q \in TotalPerLun + UserPerLun .. 2 * TotalPerLun - 1
    BY <1>1, <2>2, Sizes
  <2>4. q \in bad \/ \E c \in UserOf(TotalPerLun) : remap[c] = q
    BY <1>2, <1>3, <2>1, <2>3 DEF LunMap
  <2> QED
    BY <1>4, <2>4, TblBijects DEF UserBlocks
<1>7. v < UserPerLun \/ UserPerLun <= v
  BY <1>1, <1>3, TblIs
<1> QED
  BY <1>5, <1>6, <1>7

(***************************************************************************)
(* EraseAll                                                                *)
(***************************************************************************)

\* Erase requests on blocks of bs below i.
ErasesOf(s, bs, i) ==
    /\ s \in Seq({EraseOp(b) : b \in Blocks})
    /\ \A j \in 1 .. Len(s) : s[j].block \in bs /\ s[j].block < i
    /\ \A b \in bs : b \in 0 .. i - 1 => \E j \in 1 .. Len(s) : s[j] = EraseOp(b)
    /\ 0 \in bs /\ 0 < i => Len(s) > 0 /\ s[1] = EraseOp(0)

LEMMA EraseStep ==
    ASSUME NEW bs, NEW i \in 1 .. 2 * TotalPerLun, NEW s, ErasesOf(s, bs, i - 1)
    PROVE  ErasesOf(IF i - 1 \in bs THEN Append(s, EraseOp(i - 1)) ELSE s, bs, i)
<1>1. i - 1 \in Blocks /\ i \in Nat /\ i - 1 \in 0 .. i - 1 /\ i - 1 < i
  BY Sizes DEF Blocks
<1>2. s \in Seq({EraseOp(b) : b \in Blocks})
  BY DEF ErasesOf
<1>3. \A j \in 1 .. Len(s) : s[j].block \in bs /\ s[j].block < i - 1
  BY DEF ErasesOf
<1>4. \A b \in bs : b \in 0 .. (i - 1) - 1 => \E j \in 1 .. Len(s) : s[j] = EraseOp(b)
  BY DEF ErasesOf
<1>5. \A j \in 1 .. Len(s) : s[j].block \in Blocks
  BY <1>2 DEF EraseOp
<1>6. \A j \in 1 .. Len(s) : s[j].block < i
  BY <1>1, <1>3, <1>5 DEF Blocks
<1>7. 0 \in bs /\ 0 < i - 1 => Len(s) > 0 /\ s[1] = EraseOp(0)
  BY DEF ErasesOf
<1>8. CASE i - 1 \in bs
  <2>1. PICK t : t = Append(s, EraseOp(i - 1))
    OBVIOUS
  <2>2. EraseOp(i - 1) \in {EraseOp(b) : b \in Blocks}
    BY <1>1
  <2>3. /\ t \in Seq({EraseOp(b) : b \in Blocks}) /\ Len(t) = Len(s) + 1 /\ Len(s) \in Nat
        /\ t[Len(s) + 1] = EraseOp(i - 1) /\ \A j \in 1 .. Len(s) : t[j] = s[j]
    BY <1>2, <2>1, <2>2
  <2>4. EraseOp(i - 1).block = i - 1
    BY DEF EraseOp
  <2>5. \A j \in 1 .. Len(t) : t[j].block \in bs /\ t[j].block < i
    <3> SUFFICES ASSUME NEW j \in 1 .. Len(t) PROVE t[j].block \in bs /\ t[j].block < i
      OBVIOUS
    <3>1. CASE j = Len(s) + 1
      BY <3>1, <1>1, <1>8, <2>3, <2>4
    <3>2. CASE j # Len(s) + 1
      <4>1. j \in 1 .. Len(s)
        BY <3>2, <2>3
      <4> QED
        BY <4>1, <1>3, <1>6, <2>3
    <3> QED
      BY <3>1, <3>2
  <2>6. \A b \in bs : b \in 0 .. i - 1 => \E j \in 1 .. Len(t) : t[j] = EraseOp(b)
    <3> SUFFICES ASSUME NEW b \in bs, b \in 0 .. i - 1
                 PROVE  \E j \in 1 .. Len(t) : t[j] = EraseOp(b)
      OBVIOUS
    <3>1. CASE b = i - 1
      <4>1. Len(s) + 1 \in 1 .. Len(t)
        BY <2>3
      <4> QED
        BY <4>1, <3>1, <2>3
    <3>2. CASE b # i - 1
      <4>1. b \in 0 .. (i - 1) - 1
        BY <3>2
      <4>2. PICK j \in 1 .. Len(s) : s[j] = EraseOp(b)
        BY <4>1, <1>4
      <4>3. j \in 1 .. Len(t) /\ t[j] = s[j]
        BY <2>3
      <4> QED
        BY <4>2, <4>3
    <3> QED
      BY <3>1, <3>2
  <2>7. ASSUME 0 \in bs PROVE Len(t) > 0 /\ t[1] = EraseOp(0)
    <3>1. CASE i - 1 = 0
      <4>1. Len(s) = 0
        <5> SUFFICES ASSUME 1 \in 1 .. Len(s) PROVE FALSE
          BY <2>3
        <5>1. s[1].block \in Nat /\ s[1].block < i - 1
          BY <1>3, <1>5, Sizes DEF Blocks
        <5> QED
          BY <5>1, <3>1
      <4> QED
        BY <4>1, <3>1, <2>3
    <3>2. CASE 0 < i - 1
      <4>1. Len(s) > 0 /\ s[1] = EraseOp(0)
        BY <3>2, <2>7, <1>7
      <4>2. 1 \in 1 .. Len(s)
        BY <4>1, <2>3
      <4> QED
        BY <4>1, <4>2, <2>3
    <3> QED
      BY <3>1, <3>2, <1>1
  <2>8. ErasesOf(t, bs, i)
    BY <2>3, <2>5, <2>6, <2>7 DEF ErasesOf
  <2> QED
    BY <1>8, <2>1, <2>8
<1>9. CASE i - 1 \notin bs
  <2>1. \A b \in bs : b \in 0 .. i - 1 => b \in 0 .. (i - 1) - 1
    BY <1>9
  <2>2. 0 \in bs => 0 < i - 1
    BY <1>1, <1>9
  <2> QED
    BY <1>2, <1>3, <1>4, <1>6, <1>7, <1>9, <2>1, <2>2 DEF ErasesOf
<1> QED
  BY <1>8, <1>9

LEMMA EraseAllIs ==
    ASSUME NEW bs
    PROVE  ErasesOf(EraseAll(bs), bs, 2 * TotalPerLun)
<1> DEFINE N == 2 * TotalPerLun
           D == {s \in Seq({EraseOp(b) : b \in Blocks}) : TRUE}
           More(s, i) == IF i - 1 \in bs THEN Append(s, EraseOp(i - 1)) ELSE s
           step == [x \in D \X (1 .. N) |-> More(x[1], x[2])]
           Rec(g) == g = [i \in 0 .. N |->
                             IF i = 0 THEN << >>
                             ELSE IF i - 1 \in bs THEN Append(g[i - 1], EraseOp(i - 1))
                                  ELSE g[i - 1]]
<1>1. N \in Nat
  BY Sizes
<1>2. ErasesOf(<< >>, bs, 0)
  BY DEF ErasesOf
<1>3. \A s, i : ErasesOf(s, bs, i) => s \in D
  BY DEF ErasesOf
<1>4. PICK f : Steps(f, N, << >>, step)
  BY <1>1, StepsExist
<1>5. \A s : \A i \in 1 .. N : ErasesOf(s, bs, i - 1) => ErasesOf(More(s, i), bs, i)
  BY EraseStep
<1> HIDE DEF D, N
<1>6. \A i \in 0 .. N : f[i] = IF i = 0 THEN << >> ELSE step[<<f[i - 1], i>>]
  BY <1>4 DEF Steps
<1>7. ASSUME NEW i \in 1 .. N, ErasesOf(f[i - 1], bs, i - 1)
      PROVE  f[i] = More(f[i - 1], i)
  <2>1. i \in 0 .. N /\ i # 0
    BY <1>1
  <2>2. f[i - 1] \in D
    BY <1>3, <1>7
  <2>3. f[i] = step[<<f[i - 1], i>>]
    BY <2>1, <1>6
  <2> QED
    BY <2>2, <2>3
<1> HIDE DEF More
<1>8. \A i \in 0 .. N : ErasesOf(f[i], bs, i)
  <2> DEFINE T == {i \in 0 .. N : ErasesOf(f[i], bs, i)}
  <2>1. 0 \in T
    <3>1. 0 \in 0 .. N
      BY <1>1
    <3>2. f[0] = << >>
      BY <3>1, <1>6
    <3> QED
      BY <3>1, <3>2, <1>2
  <2>2. ASSUME NEW i \in 1 .. N, i - 1 \in T PROVE i \in T
    <3>1. i \in 0 .. N /\ ErasesOf(f[i - 1], bs, i - 1)
      BY <2>2, <1>1
    <3> QED
      BY <3>1, <1>5, <1>7
  <2> HIDE DEF T
  <2>3. \A i \in 0 .. N : i \in T
    BY <1>1, <2>1, <2>2, UpTo
  <2> QED
    BY <2>3 DEF T
<1>9. Rec(f)
  <2>1. ASSUME NEW i \in 0 .. N, i # 0 PROVE f[i] = More(f[i - 1], i)
    <3>1. i \in 1 .. N /\ i - 1 \in 0 .. N
      BY <1>1, <2>1
    <3> QED
      BY <3>1, <1>7, <1>8
  <2>2. \A i \in 0 .. N :
          f[i] = IF i = 0 THEN << >>
                 ELSE IF i - 1 \in bs THEN Append(f[i - 1], EraseOp(i - 1)) ELSE f[i - 1]
    BY <2>1, <1>6 DEF More
  <2>3. f = [i \in 0 .. N |-> f[i]]
    BY <1>4 DEF Steps
  <2> QED
    BY <2>2, <2>3
<1> DEFINE upTo == CHOOSE g : Rec(g)
<1>10. Rec(upTo)
  BY <1>9
<1>11. EraseAll(bs) = upTo[N]
  BY DEF EraseAll, N
<1> HIDE DEF upTo
<1>12. \A i \in 0 .. N :
          upTo[i] = IF i = 0 THEN << >>
                    ELSE IF i - 1 \in bs THEN Append(upTo[i - 1], EraseOp(i - 1))
                         ELSE upTo[i - 1]
  BY <1>10
<1>13. \A i \in 0 .. N : ErasesOf(upTo[i], bs, i)
  <2> DEFINE T == {i \in 0 .. N : ErasesOf(upTo[i], bs, i)}
  <2>1. 0 \in T
    <3>1. 0 \in 0 .. N
      BY <1>1
    <3>2. upTo[0] = << >>
      BY <3>1, <1>12
    <3> QED
      BY <3>1, <3>2, <1>2
  <2>2. ASSUME NEW i \in 1 .. N, i - 1 \in T PROVE i \in T
    <3>1. i \in 0 .. N /\ i # 0 /\ ErasesOf(upTo[i - 1], bs, i - 1)
      BY <2>2, <1>1
    <3>2. upTo[i] = More(upTo[i - 1], i)
      BY <3>1, <1>12 DEF More
    <3> QED
      BY <3>1, <3>2, <1>5
  <2> HIDE DEF T
  <2>3. \A i \in 0 .. N : i \in T
    BY <1>1, <2>1, <2>2, UpTo
  <2> QED
    BY <2>3 DEF T
<1>14. N \in 0 .. N
  BY <1>1
<1>15. ErasesOf(upTo[N], bs, N)
  BY <1>13, <1>14
<1> QED
  BY <1>11, <1>15 DEF N

(***************************************************************************)
(* The inductive invariant, die by die.  n, q, w, fl are the nand, ops,    *)
(* worn and savedSinceRemake of a die, bad, remap, left, vbad its part of  *)
(* ram; bk are the booked dies, tn the torn ones; ph is the phase.         *)
(***************************************************************************)

EraseOps == {EraseOp(b) : b \in Blocks}
MappedIn(ph) == ph \in {"eraseUser", "run", "saveGrown", "halted"}

\* The table that the requests of q will leave: a save ends with its program.
Pending(q) == q[Len(q)].table

\* Which requests are pending, and what they find in the table block.
QueueOK(d, n, bad, bk, q, ph) ==
    /\ ph \in {"off", "run", "halted"} => q = << >>
    /\ ph \in {"eraseTotal", "eraseUser"} => q \in Seq(EraseOps)
    /\ ph = "eraseTotal" /\ q # << >> /\ n.table # Erased => Head(q) = EraseOp(BbtBlock)
    /\ ph = "saveNew" =>
         /\ q \in {<< >>, <<ProgramTable(bad)>>, SaveBadBlockTable(bad)}
         /\ n.table = IF q = << >> THEN bad ELSE Erased
    /\ ph = "saveGrown" =>
         /\ q # << >> =>
              /\ Pending(q) \in SUBSET bad /\ n.marks \subseteq Pending(q) \cup {BbtBlock}
              /\ d \in bk
              /\ q \in {<<ProgramTable(Pending(q))>>, SaveBadBlockTable(Pending(q))}
         /\ n.table = Erased => q # << >> /\ q = <<ProgramTable(Pending(q))>>
    /\ ph \in {"eraseUser", "run", "halted"} => n.table # Erased

\* A manufacturer's mark is in the table, unless the table block carries it.
MarksOK(n, bad, ph) ==
    /\ n.table # Erased => n.marks \subseteq n.table \cup {BbtBlock}
    /\ ph = "saveNew" => n.marks \subseteq bad \cup {BbtBlock}

\* What is not booked is in the table.
BookedOK(d, n, bad, bk, ph) == MappedIn(ph) /\ d \notin bk => bad \subseteq n.table \cup {BbtBlock}

\* The map of the last start: its bad blocks b0 are still bad.
MapOK(n, bad, remap, left, vbad, q, ph) ==
    MappedIn(ph) =>
        \E b0 \in SUBSET Blocks :
            /\ RemapOK(remap, left, b0) /\ vbad = VBad(remap, b0)
            /\ b0 \subseteq bad /\ BbtBlock \in b0 /\ n.marks \subseteq b0
            /\ ph = "eraseUser" => \A i \in 1 .. Len(q) : q[i].block \notin b0

\* Nothing but marked and worn blocks is in ram or in the table; without a table,
\* nothing but worn blocks holds data.
GivenUpOK(n, bad, q, ph, w) ==
    /\ bad \subseteq n.marks \cup w \cup {BbtBlock}
    /\ ph \in {"off", "eraseTotal"} => bad \subseteq w
    /\ n.table # Erased => n.table \subseteq n.marks \cup w \cup {BbtBlock}
    /\ ph = "eraseTotal" /\ (q # << >> \/ n.table = Erased) =>
         n.data \subseteq w \cup {q[i].block : i \in 1 .. Len(q)}
    /\ ph \notin {"eraseTotal", "saveGrown"} /\ n.table = Erased => n.data \subseteq w

\* Nothing that a shutdown saved is forgotten.
SavedOK(n, bad, q, ph, fl) ==
    /\ n.table # Erased => fl \subseteq n.table \cup {BbtBlock}
    /\ n.table = Erased /\ ph # "saveGrown" => fl = {}
    /\ ph = "eraseTotal" /\ q # << >> => fl = {}
    /\ MappedIn(ph) \/ ph = "saveNew" => fl \subseteq bad \cup {BbtBlock}
    /\ ph = "saveGrown" /\ q # << >> => fl \subseteq Pending(q) \cup {BbtBlock}

\* What the table being saved was built from is in it, or in the table already.
SavingOK(n, bad, q, ph, sv) ==
    ph = "saveGrown" =>
        /\ sv \subseteq bad
        /\ sv \subseteq (IF q = << >> THEN n.table ELSE Pending(q)) \cup {BbtBlock}

DieOK(d, n, bad, bk, q, ph, w, fl, tn) ==
    /\ QueueOK(d, n, bad, bk, q, ph)
    /\ MarksOK(n, bad, ph)
    /\ BookedOK(d, n, bad, bk, ph)
    /\ d \notin tn => GivenUpOK(n, bad, q, ph, w) /\ SavedOK(n, bad, q, ph, fl)

Inv ==
    /\ TypeOK
    /\ ops \in [Dies -> Seq(EraseOps \cup {ProgramTable(k) : k \in SUBSET Blocks})]
    /\ \A d \in Dies :
         /\ DieOK(d, nand[d], ram.bad[d], ram.booked, ops[d], phase, worn[d],
                  savedSinceRemake[d], torn)
         /\ MapOK(nand[d], ram.bad[d], ram.remap[d], ram.left[d], ram.vbad[d], ops[d], phase)
         /\ SavingOK(nand[d], ram.bad[d], ops[d], phase, saving[d])

NandDie == [table : (SUBSET Blocks) \cup {Erased}, marks : SUBSET Blocks, data : SUBSET Blocks]

LEMMA BlockFacts ==
    /\ BbtBlock \in Blocks /\ BbtBlock = 0
    /\ \A k \in SUBSET Blocks : k # Erased
<1>1. 0 \in Blocks /\ -1 \notin Blocks
  BY Sizes DEF Blocks
<1> QED
  BY <1>1 DEF BbtBlock, Erased

LEMMA OpFacts ==
    /\ \A b : EraseOp(b).code = "erase" /\ EraseOp(b).block = b
    /\ \A k : /\ ProgramTable(k).code = "program" /\ ProgramTable(k).block = BbtBlock
              /\ ProgramTable(k).table = k
  BY DEF EraseOp, ProgramTable

LEMMA SaveFacts ==
    ASSUME NEW k
    PROVE  /\ SaveBadBlockTable(k) # << >> /\ <<ProgramTable(k)>> # << >>
           /\ SaveBadBlockTable(k) # <<ProgramTable(k)>>
           /\ Head(SaveBadBlockTable(k)) = EraseOp(BbtBlock)
           /\ Tail(SaveBadBlockTable(k)) = <<ProgramTable(k)>>
           /\ Head(<<ProgramTable(k)>>) = ProgramTable(k)
           /\ Tail(<<ProgramTable(k)>>) = << >>
           /\ Pending(SaveBadBlockTable(k)) = k /\ Pending(<<ProgramTable(k)>>) = k
<1>1. PICK e, p : e = EraseOp(BbtBlock) /\ p = ProgramTable(k)
  OBVIOUS
<1>2. SaveBadBlockTable(k) = <<e, p>>
  BY <1>1 DEF SaveBadBlockTable
<1>3. /\ <<e, p>> # << >> /\ <<p>> # << >> /\ <<e, p>> # <<p>>
      /\ Head(<<e, p>>) = e /\ Tail(<<e, p>>) = <<p>>
      /\ Head(<<p>>) = p /\ Tail(<<p>>) = << >>
      /\ <<e, p>>[Len(<<e, p>>)] = p /\ <<p>>[Len(<<p>>)] = p
  OBVIOUS
<1>4. p.table = k
  BY <1>1, OpFacts
<1> QED
  BY <1>1, <1>2, <1>3, <1>4 DEF Pending

LEMMA ErasedIs ==
    ASSUME NEW d, NEW n \in NandDie, NEW b \in Blocks, NEW m \in Executed(n, EraseOp(b))
    PROVE  /\ m \in NandDie
           /\ m.table = IF b = BbtBlock THEN Erased ELSE n.table
           /\ m.data = n.data \ {b}
           /\ m.marks \in {n.marks, n.marks \ {b}}
<1>1. EraseOp(b).code # "program" /\ EraseOp(b).block = b
  BY OpFacts
<1>2. PICK k \in IF MarksErasable THEN {n.marks, n.marks \ {b}} ELSE {n.marks} :
        m = [n EXCEPT !.table = IF b = BbtBlock THEN Erased ELSE @,
                      !.data = @ \ {b}, !.marks = k]
  BY <1>1 DEF Executed
<1>3. k \in {n.marks, n.marks \ {b}}
  OBVIOUS
<1>4. /\ n.marks \in SUBSET Blocks /\ n.data \in SUBSET Blocks
      /\ n.table \in (SUBSET Blocks) \cup {Erased}
  BY DEF NandDie
<1>5. k \in SUBSET Blocks /\ n.data \ {b} \in SUBSET Blocks
      /\ (IF b = BbtBlock THEN Erased ELSE n.table) \in (SUBSET Blocks) \cup {Erased}
  <2>1. k \in SUBSET Blocks
    BY <1>3, <1>4
  <2>2. n.data \ {b} \in SUBSET Blocks
    BY <1>4
  <2>3. PICK t : t = IF b = BbtBlock THEN Erased ELSE n.table
    OBVIOUS
  <2>4. t = Erased \/ t = n.table
    BY <2>3
  <2>5. t \in (SUBSET Blocks) \cup {Erased}
    BY <2>4, <1>4
  <2> QED
    BY <2>1, <2>2, <2>3, <2>5
<1> QED
  BY <1>2, <1>3, <1>5 DEF NandDie

LEMMA ProgrammedIs ==
    ASSUME NEW d, NEW n \in NandDie, NEW k \in SUBSET Blocks, NEW m \in Executed(n, ProgramTable(k))
    PROVE  m \in NandDie /\ m.table = k /\ m.data = n.data /\ m.marks = n.marks
<1>1. m = [n EXCEPT !.table = k]
  BY OpFacts DEF Executed
<1> QED
  BY <1>1 DEF NandDie

\* A queue of erasures without its first one.
LEMMA TailErases ==
    ASSUME NEW q \in Seq(EraseOps), q # << >>
    PROVE  /\ Tail(q) \in Seq(EraseOps)
           /\ \E b \in Blocks : Head(q) = EraseOp(b) /\ q[1].block = b
           /\ \A i \in 1 .. Len(Tail(q)) : i + 1 \in 1 .. Len(q) /\ Tail(q)[i] = q[i + 1]
           /\ \A i \in 1 .. Len(q) : i # 1 =>
                i - 1 \in 1 .. Len(Tail(q)) /\ Tail(q)[i - 1] = q[i]
<1>1. Tail(q) \in Seq(EraseOps) /\ Len(q) \in Nat /\ Len(Tail(q)) = Len(q) - 1
      /\ 0 < Len(q) /\ Head(q) = q[1] /\ q[1] \in EraseOps
  OBVIOUS
<1>2. \A i \in 1 .. Len(Tail(q)) : i + 1 \in 1 .. Len(q) /\ Tail(q)[i] = q[i + 1]
  BY <1>1
<1>3. ASSUME NEW i \in 1 .. Len(q), i # 1
      PROVE  i - 1 \in 1 .. Len(Tail(q)) /\ Tail(q)[i - 1] = q[i]
  <2>1. i - 1 \in 1 .. Len(Tail(q)) /\ (i - 1) + 1 = i
    BY <1>1, <1>3
  <2> QED
    BY <2>1, <1>2
<1>4. \E b \in Blocks : Head(q) = EraseOp(b) /\ q[1].block = b
  BY <1>1, OpFacts DEF EraseOps
<1> QED
  BY <1>1, <1>2, <1>3, <1>4

\* An erasure of the whole die: once the first is done there is no table.
LEMMA TotalErased ==
    ASSUME NEW d, NEW n \in NandDie, NEW bad, NEW bk, NEW q, NEW w, NEW fl, NEW tn,
           q # << >>, DieOK(d, n, bad, bk, q, "eraseTotal", w, fl, tn),
           NEW m \in Executed(n, Head(q))
    PROVE  m \in NandDie /\ DieOK(d, m, bad, bk, Tail(q), "eraseTotal", w, fl, tn)
<1>1. /\ q \in Seq(EraseOps)
      /\ n.table # Erased => Head(q) = EraseOp(BbtBlock)
  BY DEF DieOK, QueueOK
<1>2. PICK b \in Blocks : Head(q) = EraseOp(b) /\ q[1].block = b
  BY <1>1, TailErases
<1>3. /\ m \in NandDie /\ m.table = IF b = BbtBlock THEN Erased ELSE n.table
      /\ m.data = n.data \ {b} /\ m.marks \in {n.marks, n.marks \ {b}}
  BY <1>2, ErasedIs
<1>4. m.table = Erased
  BY <1>1, <1>2, <1>3, OpFacts
<1>5. QueueOK(d, m, bad, bk, Tail(q), "eraseTotal")
  BY <1>1, <1>4, TailErases DEF QueueOK
<1>6. MarksOK(m, bad, "eraseTotal") /\ BookedOK(d, m, bad, bk, "eraseTotal")
  BY <1>4 DEF MarksOK, BookedOK, MappedIn
<1>7. ASSUME d \notin tn PROVE GivenUpOK(m, bad, Tail(q), "eraseTotal", w)
  <2>1. bad \subseteq w /\ n.data \subseteq w \cup {q[i].block : i \in 1 .. Len(q)}
    BY <1>7 DEF DieOK, GivenUpOK
  <2>2. ASSUME NEW x \in m.data PROVE x \in w \cup {Tail(q)[i].block : i \in 1 .. Len(Tail(q))}
    <3>1. x \in n.data /\ x # b
      BY <1>3
    <3>2. CASE x \in w
      BY <3>2
    <3>3. CASE x \notin w
      <4>1. PICK i \in 1 .. Len(q) : x = q[i].block
        BY <2>1, <3>1, <3>3
      <4>2. i # 1
        BY <4>1, <3>1, <1>2
      <4>3. i - 1 \in 1 .. Len(Tail(q)) /\ Tail(q)[i - 1] = q[i]
        BY <4>2, <1>1, TailErases
      <4> QED
        BY <4>1, <4>3
    <3> QED
      BY <3>2, <3>3
  <2>3. m.data \subseteq w \cup {Tail(q)[i].block : i \in 1 .. Len(Tail(q))}
    BY <2>2
  <2> QED
    BY <1>4, <2>1, <2>3 DEF GivenUpOK
<1>8. ASSUME d \notin tn PROVE SavedOK(m, bad, Tail(q), "eraseTotal", fl)
  BY <1>4, <1>8 DEF DieOK, SavedOK, MappedIn
<1> QED
  BY <1>3, <1>5, <1>6, <1>7, <1>8 DEF DieOK

LEMMA TotalFails ==
    ASSUME NEW d, NEW n \in NandDie, NEW bad, NEW bk, NEW q, NEW w, NEW fl, NEW tn,
           q # << >>, DieOK(d, n, bad, bk, q, "eraseTotal", w, fl, tn),
           Head(q).block # BbtBlock
    PROVE  DieOK(d, n, bad \cup {Head(q).block}, bk \cup {d}, Tail(q), "eraseTotal",
                 w \cup {Head(q).block}, fl, tn)
<1>1. /\ q \in Seq(EraseOps)
      /\ n.table # Erased => Head(q) = EraseOp(BbtBlock)
  BY DEF DieOK, QueueOK
<1>2. PICK b \in Blocks : Head(q) = EraseOp(b) /\ q[1].block = b
  BY <1>1, TailErases
<1>3. n.table = Erased /\ Head(q).block = b
  BY <1>1, <1>2, OpFacts
<1>4. QueueOK(d, n, bad \cup {b}, bk \cup {d}, Tail(q), "eraseTotal")
  BY <1>1, <1>3, TailErases DEF QueueOK
<1>5. /\ MarksOK(n, bad \cup {b}, "eraseTotal")
      /\ BookedOK(d, n, bad \cup {b}, bk \cup {d}, "eraseTotal")
  BY <1>3 DEF MarksOK, BookedOK, MappedIn
<1>6. ASSUME d \notin tn PROVE GivenUpOK(n, bad \cup {b}, Tail(q), "eraseTotal", w \cup {b})
  <2>1. bad \subseteq w /\ n.data \subseteq w \cup {q[i].block : i \in 1 .. Len(q)}
    BY <1>6 DEF DieOK, GivenUpOK
  <2>2. ASSUME NEW x \in n.data
        PROVE  x \in (w \cup {b}) \cup {Tail(q)[i].block : i \in 1 .. Len(Tail(q))}
    <3>1. CASE x \in w \cup {b}
      BY <3>1
    <3>2. CASE x \notin w \cup {b}
      <4>1. PICK i \in 1 .. Len(q) : x = q[i].block
        BY <2>1, <3>2
      <4>2. i # 1
        BY <4>1, <3>2, <1>2
      <4>3. i - 1 \in 1 .. Len(Tail(q)) /\ Tail(q)[i - 1] = q[i]
        BY <4>2, <1>1, TailErases
      <4> QED
        BY <4>1, <4>3
    <3> QED
      BY <3>1, <3>2
  <2>3. n.data \subseteq (w \cup {b}) \cup {Tail(q)[i].block : i \in 1 .. Len(Tail(q))}
    BY <2>2
  <2>4. bad \cup {b} \subseteq w \cup {b}
    BY <2>1
  <2> QED
    BY <1>3, <2>3, <2>4 DEF GivenUpOK
<1>7. ASSUME d \notin tn PROVE SavedOK(n, bad \cup {b}, Tail(q), "eraseTotal", fl)
  BY <1>3, <1>7 DEF DieOK, SavedOK, MappedIn
<1> QED
  BY <1>3, <1>4, <1>5, <1>6, <1>7 DEF DieOK

\* The user blocks: none of them is marked, none is the table block.
LEMMA UserErased ==
    ASSUME NEW d, NEW n \in NandDie, NEW bad, NEW bk, NEW q, NEW w, NEW fl, NEW tn,
           q # << >>, DieOK(d, n, bad, bk, q, "eraseUser", w, fl, tn),
           NEW remap, NEW left, NEW vbad, MapOK(n, bad, remap, left, vbad, q, "eraseUser"),
           NEW m \in Executed(n, Head(q))
    PROVE  /\ m \in NandDie /\ DieOK(d, m, bad, bk, Tail(q), "eraseUser", w, fl, tn)
           /\ MapOK(m, bad, remap, left, vbad, Tail(q), "eraseUser")
<1>1. q \in Seq(EraseOps) /\ n.table # Erased
  BY DEF DieOK, QueueOK
<1>2. PICK b \in Blocks : Head(q) = EraseOp(b) /\ q[1].block = b
  BY <1>1, TailErases
<1>3. /\ m \in NandDie /\ m.table = IF b = BbtBlock THEN Erased ELSE n.table
      /\ m.data = n.data \ {b} /\ m.marks \in {n.marks, n.marks \ {b}}
  BY <1>2, ErasedIs
<1>4. PICK b0 \in SUBSET Blocks :
            /\ RemapOK(remap, left, b0) /\ vbad = VBad(remap, b0)
            /\ b0 \subseteq bad /\ BbtBlock \in b0 /\ n.marks \subseteq b0
            /\ \A i \in 1 .. Len(q) : q[i].block \notin b0
  BY DEF MapOK, MappedIn
<1>5. b \notin b0
  <2>1. 1 \in 1 .. Len(q)
    BY <1>1
  <2> QED
    BY <2>1, <1>2, <1>4
<1>6. m.table = n.table /\ m.marks = n.marks
  BY <1>3, <1>4, <1>5
<1>7. MapOK(m, bad, remap, left, vbad, Tail(q), "eraseUser")
  <2>1. \A i \in 1 .. Len(Tail(q)) : Tail(q)[i].block \notin b0
    BY <1>1, <1>4, TailErases
  <2> QED
    BY <2>1, <1>4, <1>6 DEF MapOK
<1>8. QueueOK(d, m, bad, bk, Tail(q), "eraseUser")
  BY <1>1, <1>6, TailErases DEF QueueOK
<1>9. MarksOK(m, bad, "eraseUser") /\ BookedOK(d, m, bad, bk, "eraseUser")
  BY <1>6 DEF DieOK, MarksOK, BookedOK
<1>10. ASSUME d \notin tn
       PROVE  /\ GivenUpOK(m, bad, Tail(q), "eraseUser", w)
              /\ SavedOK(m, bad, Tail(q), "eraseUser", fl)
  BY <1>1, <1>6, <1>10 DEF DieOK, GivenUpOK, SavedOK
<1> QED
  BY <1>3, <1>7, <1>8, <1>9, <1>10 DEF DieOK

LEMMA UserFails ==
    ASSUME NEW d, NEW n \in NandDie, NEW bad, NEW bk, NEW q, NEW w, NEW fl, NEW tn,
           q # << >>, DieOK(d, n, bad, bk, q, "eraseUser", w, fl, tn),
           NEW remap, NEW left, NEW vbad, MapOK(n, bad, remap, left, vbad, q, "eraseUser"),
           NEW b
    PROVE  /\ DieOK(d, n, bad \cup {b}, bk \cup {d}, Tail(q), "eraseUser", w \cup {b}, fl, tn)
           /\ MapOK(n, bad \cup {b}, remap, left, vbad, Tail(q), "eraseUser")
<1>1. q \in Seq(EraseOps) /\ n.table # Erased
  BY DEF DieOK, QueueOK
<1>2. PICK b0 \in SUBSET Blocks :
            /\ RemapOK(remap, left, b0) /\ vbad = VBad(remap, b0)
            /\ b0 \subseteq bad /\ BbtBlock \in b0 /\ n.marks \subseteq b0
            /\ \A i \in 1 .. Len(q) : q[i].block \notin b0
  BY DEF MapOK, MappedIn
<1>3. MapOK(n, bad \cup {b}, remap, left, vbad, Tail(q), "eraseUser")
  <2>1. \A i \in 1 .. Len(Tail(q)) : Tail(q)[i].block \notin b0
    BY <1>1, <1>2, TailErases
  <2>2. b0 \subseteq bad \cup {b}
    BY <1>2
  <2> QED
    BY <2>1, <2>2, <1>2 DEF MapOK
<1>4. QueueOK(d, n, bad \cup {b}, bk \cup {d}, Tail(q), "eraseUser")
  BY <1>1, TailErases DEF QueueOK
<1>5. /\ MarksOK(n, bad \cup {b}, "eraseUser")
      /\ BookedOK(d, n, bad \cup {b}, bk \cup {d}, "eraseUser")
  BY DEF DieOK, MarksOK, BookedOK
<1>6. ASSUME d \notin tn
      PROVE  /\ GivenUpOK(n, bad \cup {b}, Tail(q), "eraseUser", w \cup {b})
             /\ SavedOK(n, bad \cup {b}, Tail(q), "eraseUser", fl)
  BY <1>1, <1>6 DEF DieOK, GivenUpOK, SavedOK, MappedIn
<1> QED
  BY <1>3, <1>4, <1>5, <1>6 DEF DieOK

\* The table of a new device is made: erased, then programmed.
LEMMA NewSaved ==
    ASSUME NEW d, NEW n \in NandDie, NEW bad \in SUBSET Blocks, NEW bk, NEW q, NEW w, NEW fl,
           NEW tn, q # << >>, DieOK(d, n, bad, bk, q, "saveNew", w, fl, tn),
           NEW m \in Executed(n, Head(q))
    PROVE  m \in NandDie /\ DieOK(d, m, bad, bk, Tail(q), "saveNew", w, fl, tn)
<1>1. /\ q = <<ProgramTable(bad)>> \/ q = SaveBadBlockTable(bad)
      /\ n.table = Erased /\ n.marks \subseteq bad \cup {BbtBlock}
  BY DEF DieOK, QueueOK, MarksOK
<1>2. d \notin tn => /\ bad \subseteq n.marks \cup w \cup {BbtBlock} /\ n.data \subseteq w
                     /\ fl = {}
  BY <1>1 DEF DieOK, GivenUpOK, SavedOK
<1>3. CASE q = SaveBadBlockTable(bad)
  <2>1. Head(q) = EraseOp(BbtBlock) /\ Tail(q) = <<ProgramTable(bad)>>
    BY <1>3, SaveFacts
  <2>2. /\ m \in NandDie /\ m.table = Erased /\ m.data = n.data \ {BbtBlock}
        /\ m.marks \in {n.marks, n.marks \ {BbtBlock}}
    BY <2>1, BlockFacts, ErasedIs
  <2>3. QueueOK(d, m, bad, bk, Tail(q), "saveNew")
    BY <2>1, <2>2, SaveFacts DEF QueueOK
  <2>4. MarksOK(m, bad, "saveNew") /\ BookedOK(d, m, bad, bk, "saveNew")
    BY <1>1, <2>2 DEF MarksOK, BookedOK, MappedIn
  <2>5. d \notin tn => /\ GivenUpOK(m, bad, Tail(q), "saveNew", w)
                       /\ SavedOK(m, bad, Tail(q), "saveNew", fl)
    BY <1>2, <2>2 DEF GivenUpOK, SavedOK
  <2> QED
    BY <2>2, <2>3, <2>4, <2>5 DEF DieOK
<1>4. CASE q = <<ProgramTable(bad)>>
  <2>1. Head(q) = ProgramTable(bad) /\ Tail(q) = << >>
    BY <1>4, SaveFacts
  <2>2. m \in NandDie /\ m.table = bad /\ m.data = n.data /\ m.marks = n.marks /\ bad # Erased
    BY <2>1, ProgrammedIs, BlockFacts
  <2>3. QueueOK(d, m, bad, bk, Tail(q), "saveNew")
    BY <2>1, <2>2 DEF QueueOK
  <2>4. MarksOK(m, bad, "saveNew") /\ BookedOK(d, m, bad, bk, "saveNew")
    BY <1>1, <2>2 DEF MarksOK, BookedOK, MappedIn
  <2>5. d \notin tn => /\ GivenUpOK(m, bad, Tail(q), "saveNew", w)
                       /\ SavedOK(m, bad, Tail(q), "saveNew", fl)
    BY <1>2, <2>2 DEF GivenUpOK, SavedOK
  <2> QED
    BY <2>2, <2>3, <2>4, <2>5 DEF DieOK
<1> QED
  BY <1>1, <1>3, <1>4

\* The table of a used device is rewritten.
LEMMA GrownSaved ==
    ASSUME NEW d, NEW n \in NandDie, NEW bad \in SUBSET Blocks, NEW bk, NEW q, NEW w,
           NEW fl, NEW tn, NEW sv,
           q # << >>, DieOK(d, n, bad, bk, q, "saveGrown", w, fl, tn),
           SavingOK(n, bad, q, "saveGrown", sv),
           NEW remap, NEW left, NEW vbad, MapOK(n, bad, remap, left, vbad, q, "saveGrown"),
           NEW m \in Executed(n, Head(q))
    PROVE  /\ m \in NandDie /\ DieOK(d, m, bad, bk, Tail(q), "saveGrown", w, fl, tn)
           /\ MapOK(m, bad, remap, left, vbad, Tail(q), "saveGrown")
           /\ SavingOK(m, bad, Tail(q), "saveGrown", sv)
<1>0. PICK k : k = Pending(q)
  OBVIOUS
<1>1. /\ q = <<ProgramTable(k)>> \/ q = SaveBadBlockTable(k)
      /\ k \in SUBSET bad /\ n.marks \subseteq k \cup {BbtBlock} /\ d \in bk
      /\ sv \subseteq k \cup {BbtBlock} /\ sv \subseteq bad
  BY <1>0 DEF DieOK, QueueOK, SavingOK
<1>2. PICK b0 \in SUBSET Blocks :
            /\ RemapOK(remap, left, b0) /\ vbad = VBad(remap, b0)
            /\ b0 \subseteq bad /\ BbtBlock \in b0 /\ n.marks \subseteq b0
  BY DEF MapOK, MappedIn
<1>3. d \notin tn => /\ bad \subseteq n.marks \cup w \cup {BbtBlock}
                     /\ fl \subseteq bad \cup {BbtBlock}
                     /\ fl \subseteq k \cup {BbtBlock}
  BY <1>0 DEF DieOK, GivenUpOK, SavedOK, MappedIn
<1>4. CASE q = SaveBadBlockTable(k)
  <2>1. /\ Head(q) = EraseOp(BbtBlock) /\ Tail(q) = <<ProgramTable(k)>>
        /\ Pending(Tail(q)) = k /\ Tail(q) # << >>
    BY <1>4, SaveFacts
  <2>2. /\ m \in NandDie /\ m.table = Erased
        /\ m.marks \in {n.marks, n.marks \ {BbtBlock}}
    BY <2>1, BlockFacts, ErasedIs
  <2>3. QueueOK(d, m, bad, bk, Tail(q), "saveGrown")
    BY <1>1, <2>1, <2>2 DEF QueueOK
  <2>4. MarksOK(m, bad, "saveGrown") /\ BookedOK(d, m, bad, bk, "saveGrown")
    BY <1>1, <2>2 DEF MarksOK, BookedOK
  <2>5. d \notin tn => /\ GivenUpOK(m, bad, Tail(q), "saveGrown", w)
                       /\ SavedOK(m, bad, Tail(q), "saveGrown", fl)
    BY <1>3, <2>1, <2>2 DEF GivenUpOK, SavedOK
  <2>6. MapOK(m, bad, remap, left, vbad, Tail(q), "saveGrown")
    BY <1>2, <2>2 DEF MapOK
  <2>7. SavingOK(m, bad, Tail(q), "saveGrown", sv)
    BY <1>1, <2>1 DEF SavingOK
  <2> QED
    BY <2>2, <2>3, <2>4, <2>5, <2>6, <2>7 DEF DieOK
<1>5. CASE q = <<ProgramTable(k)>>
  <2>1. Head(q) = ProgramTable(k) /\ Tail(q) = << >>
    BY <1>5, SaveFacts
  <2>2. m \in NandDie /\ m.table = k /\ m.marks = n.marks /\ k # Erased
    BY <1>1, <2>1, ProgrammedIs, BlockFacts
  <2>3. QueueOK(d, m, bad, bk, Tail(q), "saveGrown")
    BY <2>1, <2>2 DEF QueueOK
  <2>4. MarksOK(m, bad, "saveGrown") /\ BookedOK(d, m, bad, bk, "saveGrown")
    BY <1>1, <2>2 DEF MarksOK, BookedOK
  <2>5. d \notin tn => /\ GivenUpOK(m, bad, Tail(q), "saveGrown", w)
                       /\ SavedOK(m, bad, Tail(q), "saveGrown", fl)
    BY <1>1, <1>3, <2>1, <2>2 DEF GivenUpOK, SavedOK
  <2>6. MapOK(m, bad, remap, left, vbad, Tail(q), "saveGrown")
    BY <1>2, <2>2 DEF MapOK
  <2>7. SavingOK(m, bad, Tail(q), "saveGrown", sv)
    BY <1>1, <2>1, <2>2 DEF SavingOK
  <2> QED
    BY <2>2, <2>3, <2>4, <2>5, <2>6, <2>7 DEF DieOK
<1> QED
  BY <1>1, <1>4, <1>5

\* What the device does in use: its data, and its failures.
LEMMA DataStep ==
    ASSUME NEW d, NEW n \in NandDie, NEW bad, NEW bk, NEW q, NEW w, NEW fl, NEW sv,
           NEW ph \in {"run", "saveGrown"},
           NEW tn, DieOK(d, n, bad, bk, q, ph, w, fl, tn), SavingOK(n, bad, q, ph, sv),
           NEW remap, NEW left, NEW vbad, MapOK(n, bad, remap, left, vbad, q, ph),
           NEW m, m.table = n.table, m.marks = n.marks
    PROVE  /\ DieOK(d, m, bad, bk, q, ph, w, fl, tn)
           /\ MapOK(m, bad, remap, left, vbad, q, ph)
           /\ SavingOK(m, bad, q, ph, sv)
<1>1. ph = "run" => n.table # Erased
  BY DEF DieOK, QueueOK
<1>2. MapOK(m, bad, remap, left, vbad, q, ph)
  BY DEF MapOK
<1>3. QueueOK(d, m, bad, bk, q, ph)
  BY <1>1 DEF DieOK, QueueOK
<1>4. MarksOK(m, bad, ph) /\ BookedOK(d, m, bad, bk, ph)
  BY DEF DieOK, MarksOK, BookedOK
<1>5. d \notin tn => GivenUpOK(m, bad, q, ph, w) /\ SavedOK(m, bad, q, ph, fl)
  BY <1>1 DEF DieOK, GivenUpOK, SavedOK
<1>6. SavingOK(m, bad, q, ph, sv)
  BY DEF SavingOK
<1> QED
  BY <1>2, <1>3, <1>4, <1>5, <1>6 DEF DieOK

LEMMA FailDie ==
    ASSUME NEW d, NEW n, NEW bad, NEW bk, NEW q, NEW w, NEW fl, NEW tn,
           NEW ph \in {"run", "saveGrown"}, DieOK(d, n, bad, bk, q, ph, w, fl, tn),
           NEW bad2, NEW bk2, NEW w2,
           bad \subseteq bad2, w \subseteq w2, bad2 \subseteq bad \cup w2, d \in bk2
    PROVE  DieOK(d, n, bad2, bk2, q, ph, w2, fl, tn)
<1>1. ph = "run" => q = << >> /\ n.table # Erased
  BY DEF DieOK, QueueOK
<1>2. QueueOK(d, n, bad2, bk2, q, ph)
  <2>1. CASE ph = "run"
    BY <1>1, <2>1 DEF QueueOK
  <2>2. CASE ph = "saveGrown"
    <3>1. q # << >> => Pending(q) \in SUBSET bad2
      BY <2>2 DEF DieOK, QueueOK
    <3> QED
      BY <2>2, <3>1 DEF DieOK, QueueOK
  <2> QED
    BY <2>1, <2>2
<1>3. MarksOK(n, bad2, ph) /\ BookedOK(d, n, bad2, bk2, ph)
  BY DEF DieOK, MarksOK, BookedOK
<1>4. d \notin tn => GivenUpOK(n, bad2, q, ph, w2) /\ SavedOK(n, bad2, q, ph, fl)
  BY <1>1 DEF DieOK, GivenUpOK, SavedOK, MappedIn
<1> QED
  BY <1>2, <1>3, <1>4 DEF DieOK

LEMMA FailMap ==
    ASSUME NEW n, NEW bad, NEW q, NEW ph \in {"run", "saveGrown"}, NEW sv, NEW f,
           NEW remap, NEW left, NEW vbad, MapOK(n, bad, remap, left, vbad, q, ph),
           SavingOK(n, bad, q, ph, sv)
    PROVE  /\ MapOK(n, bad \cup {f}, remap, left, vbad, q, ph)
           /\ SavingOK(n, bad \cup {f}, q, ph, sv)
<1>2. PICK b0 \in SUBSET Blocks :
            /\ RemapOK(remap, left, b0) /\ vbad = VBad(remap, b0)
            /\ b0 \subseteq bad /\ BbtBlock \in b0 /\ n.marks \subseteq b0
  BY DEF MapOK, MappedIn
<1>3. MapOK(n, bad \cup {f}, remap, left, vbad, q, ph)
  <2>1. b0 \subseteq bad \cup {f}
    BY <1>2
  <2> QED
    BY <2>1, <1>2 DEF MapOK
<1>7. SavingOK(n, bad \cup {f}, q, ph, sv)
  BY DEF SavingOK
<1> QED
  BY <1>3, <1>7

(***************************************************************************)
(* The steps of the firmware, on each die                                  *)
(***************************************************************************)

LEMMA OnDie ==
    ASSUME NEW d, NEW n \in NandDie, NEW w, NEW fl, NEW tn, NEW bad, NEW bk, NEW q,
           DieOK(d, n, bad, bk, q, "off", w, fl, tn)
    PROVE  /\ DieOK(d, n, {}, {}, EraseAll(Blocks), "eraseTotal", w, {}, tn)
           /\ DieOK(d, n, {}, {}, << >>, "eraseTotal", w, fl, tn)
<1>1. PICK s : s = EraseAll(Blocks)
  OBVIOUS
<1>2. ErasesOf(s, Blocks, 2 * TotalPerLun)
  BY <1>1, EraseAllIs
<1>3. s \in Seq(EraseOps)
  BY <1>2 DEF ErasesOf, EraseOps
<1>4. Len(s) > 0 /\ s[1] = EraseOp(BbtBlock)
  BY <1>2, BlockFacts, Sizes DEF ErasesOf
<1>5. s # << >> /\ Head(s) = EraseOp(BbtBlock)
  BY <1>3, <1>4
<1>6. n.data \subseteq {s[i].block : i \in 1 .. Len(s)}
  <2> SUFFICES ASSUME NEW x \in n.data PROVE \E i \in 1 .. Len(s) : x = s[i].block
    OBVIOUS
  <2>1. x \in Blocks /\ x \in 0 .. 2 * TotalPerLun - 1
    BY DEF NandDie, Blocks
  <2>2. PICK i \in 1 .. Len(s) : s[i] = EraseOp(x)
    BY <2>1, <1>2 DEF ErasesOf
  <2> QED
    BY <2>2, OpFacts
<1>7. QueueOK(d, n, {}, {}, s, "eraseTotal") /\ QueueOK(d, n, {}, {}, << >>, "eraseTotal")
  BY <1>3, <1>5 DEF QueueOK
<1>8. MarksOK(n, {}, "eraseTotal") /\ BookedOK(d, n, {}, {}, "eraseTotal")
  BY DEF DieOK, MarksOK, BookedOK, MappedIn
<1>9. d \notin tn => GivenUpOK(n, {}, s, "eraseTotal", w) /\ SavedOK(n, {}, s, "eraseTotal", {})
  <2>1. n.data \subseteq w \cup {s[i].block : i \in 1 .. Len(s)}
    BY <1>6
  <2> QED
    BY <2>1 DEF DieOK, GivenUpOK, SavedOK, MappedIn
<1>10. d \notin tn => /\ GivenUpOK(n, {}, << >>, "eraseTotal", w)
                      /\ SavedOK(n, {}, << >>, "eraseTotal", fl)
  <2>1. d \notin tn /\ n.table = Erased => n.data \subseteq w
    BY DEF DieOK, GivenUpOK
  <2>2. d \notin tn /\ n.table = Erased =>
          n.data \subseteq w \cup {<< >>[i].block : i \in 1 .. Len(<< >>)}
    BY <2>1
  <2> QED
    BY <2>2 DEF DieOK, GivenUpOK, SavedOK, MappedIn
<1> QED
  BY <1>1, <1>7, <1>8, <1>9, <1>10 DEF DieOK

\* With a table its blocks are bad; without one, the blocks with a mark are.
LEMMA RecoverDie ==
    ASSUME NEW d, NEW n \in NandDie, NEW w, NEW fl, NEW tn, NEW bad, NEW bk,
           DieOK(d, n, bad, bk, << >>, "eraseTotal", w, fl, tn)
    PROVE  /\ n.table # Erased =>
                DieOK(d, n, n.table, {}, << >>, "saveNew", w, fl, tn)
           /\ n.table = Erased =>
                DieOK(d, n, n.marks \cup n.data, {}, SaveBadBlockTable(n.marks \cup n.data),
                      "saveNew", w, fl, tn)
<1>1. CASE n.table # Erased
  <2>1. QueueOK(d, n, n.table, {}, << >>, "saveNew")
    BY DEF QueueOK
  <2>2. MarksOK(n, n.table, "saveNew") /\ BookedOK(d, n, n.table, {}, "saveNew")
    BY <1>1 DEF DieOK, MarksOK, BookedOK, MappedIn
  <2>3. d \notin tn => /\ GivenUpOK(n, n.table, << >>, "saveNew", w)
                       /\ SavedOK(n, n.table, << >>, "saveNew", fl)
    BY <1>1 DEF DieOK, GivenUpOK, SavedOK
  <2> QED
    BY <1>1, <2>1, <2>2, <2>3 DEF DieOK
<1>2. CASE n.table = Erased
  <2>1. PICK b, s : b = n.marks \cup n.data /\ s = SaveBadBlockTable(b)
    OBVIOUS
  <2>2. QueueOK(d, n, b, {}, s, "saveNew")
    BY <1>2, <2>1, SaveFacts DEF QueueOK
  <2>3. MarksOK(n, b, "saveNew") /\ BookedOK(d, n, b, {}, "saveNew")
    BY <1>2, <2>1 DEF MarksOK, BookedOK, MappedIn
  <2>4. d \notin tn => n.data \subseteq w
    <3>1. d \notin tn => n.data \subseteq w \cup {<< >>[i].block : i \in 1 .. Len(<< >>)}
      BY <1>2 DEF DieOK, GivenUpOK
    <3>2. {<< >>[i].block : i \in 1 .. Len(<< >>)} = {}
      OBVIOUS
    <3> QED
      BY <3>1, <3>2
  <2>5. d \notin tn => GivenUpOK(n, b, s, "saveNew", w) /\ SavedOK(n, b, s, "saveNew", fl)
    BY <1>2, <2>1, <2>4 DEF DieOK, GivenUpOK, SavedOK
  <2> QED
    BY <1>2, <2>1, <2>2, <2>3, <2>5 DEF DieOK
<1> QED
  BY <1>1, <1>2

\* The blocks behind the virtual blocks in use.
Behind(remap, vbad) == {PhyBlock(remap, v) : v \in VBlocks \ vbad}

LEMMA BehindIs ==
    ASSUME NEW remap, NEW left, NEW bad, RemapOK(remap, left, bad)
    PROVE  /\ Behind(remap, VBad(remap, bad))
                = {remap[TblOf(v)] : v \in VBlocks \ VBad(remap, bad)}
           /\ Behind(remap, VBad(remap, bad)) \subseteq Blocks \ bad
           /\ \A v \in VBlocks : PhyBlock(remap, v) = remap[TblOf(v)] /\ remap[TblOf(v)] \in Blocks
<1>1. \A v \in VBlocks : PhyBlock(remap, v) = remap[TblOf(v)] /\ remap[TblOf(v)] \in Blocks
  BY PhyIs DEF RemapOK
<1>2. \A v \in VBlocks \ VBad(remap, bad) : v \in VBlocks /\ remap[TblOf(v)] \notin bad
  BY DEF VBad
<1> QED
  BY <1>1, <1>2 DEF Behind

\* The map is made: the user blocks in use are erased, or they were at the X.
LEMMA MapDie ==
    ASSUME NEW d, NEW n \in NandDie, NEW w, NEW fl, NEW tn, NEW bad \in SUBSET Blocks,
           NEW bk, NEW map, map = RemapBadBlock(HideBbt(bad)), NEW q,
           DieOK(d, n, bad, bk, << >>, "saveNew", w, fl, tn),
           \/ q = << >>
           \/ q = EraseAll(Behind(map.remap, VBad(map.remap, HideBbt(bad))))
    PROVE  /\ DieOK(d, n, HideBbt(bad), bk, q, "eraseUser", w, fl, tn)
           /\ MapOK(n, HideBbt(bad), map.remap, map.left, VBad(map.remap, HideBbt(bad)), q,
                    "eraseUser")
<1>0. PICK b0, vbad : b0 = HideBbt(bad) /\ vbad = VBad(map.remap, HideBbt(bad))
  OBVIOUS
<1>1. b0 = bad \cup {BbtBlock} /\ b0 \in SUBSET Blocks
  BY <1>0, BlockFacts DEF HideBbt
<1>2. RemapOK(map.remap, map.left, b0)
  BY <1>0, RemapIs
<1>3. n.table = bad /\ n.table # Erased /\ n.marks \subseteq b0
  BY <1>1, BlockFacts DEF DieOK, QueueOK, MarksOK
<1>4. q \in Seq(EraseOps) /\ \A i \in 1 .. Len(q) : q[i].block \notin b0
  <2>1. CASE q = << >>
    BY <2>1
  <2>2. CASE q = EraseAll(Behind(map.remap, vbad))
    <3>1. ErasesOf(q, Behind(map.remap, vbad), 2 * TotalPerLun)
      BY <2>2, EraseAllIs
    <3>2. Behind(map.remap, vbad) \subseteq Blocks \ b0
      BY <1>0, <1>2, BehindIs
    <3> QED
      BY <3>1, <3>2 DEF ErasesOf, EraseOps
  <2> QED
    BY <1>0, <2>1, <2>2
<1>5. QueueOK(d, n, b0, bk, q, "eraseUser")
  BY <1>3, <1>4 DEF QueueOK
<1>6. MarksOK(n, b0, "eraseUser") /\ BookedOK(d, n, b0, bk, "eraseUser")
  BY <1>1, <1>3 DEF DieOK, MarksOK, BookedOK
<1>7. d \notin tn => GivenUpOK(n, b0, q, "eraseUser", w) /\ SavedOK(n, b0, q, "eraseUser", fl)
  BY <1>1, <1>3 DEF DieOK, GivenUpOK, SavedOK, MappedIn
<1>8. MapOK(n, b0, map.remap, map.left, vbad, q, "eraseUser")
  <2>1. b0 \subseteq b0 /\ BbtBlock \in b0
    BY <1>1
  <2> QED
    BY <2>1, <1>0, <1>1, <1>2, <1>3, <1>4 DEF MapOK
<1> QED
  BY <1>0, <1>5, <1>6, <1>7, <1>8 DEF DieOK

LEMMA StartDie ==
    ASSUME NEW d, NEW n, NEW w, NEW fl, NEW tn, NEW bad, NEW bk,
           DieOK(d, n, bad, bk, << >>, "eraseUser", w, fl, tn),
           NEW remap, NEW left, NEW vbad,
           MapOK(n, bad, remap, left, vbad, << >>, "eraseUser"),
           NEW ph \in {"run", "halted"}
    PROVE  /\ DieOK(d, n, bad, bk, << >>, ph, w, fl, tn)
           /\ MapOK(n, bad, remap, left, vbad, << >>, ph)
<1>1. QueueOK(d, n, bad, bk, << >>, ph)
  BY DEF DieOK, QueueOK
<1>2. MarksOK(n, bad, ph) /\ BookedOK(d, n, bad, bk, ph)
  BY DEF DieOK, MarksOK, BookedOK, MappedIn
<1>3. d \notin tn => GivenUpOK(n, bad, << >>, ph, w) /\ SavedOK(n, bad, << >>, ph, fl)
  BY DEF DieOK, QueueOK, GivenUpOK, SavedOK, MappedIn
<1>4. MapOK(n, bad, remap, left, vbad, << >>, ph)
  BY DEF MapOK, MappedIn
<1> QED
  BY <1>1, <1>2, <1>3, <1>4 DEF DieOK

LEMMA ShutDie ==
    ASSUME NEW d, NEW n, NEW w, NEW fl, NEW tn, NEW bad, NEW bk, NEW q0,
           DieOK(d, n, bad, bk, q0, "run", w, fl, tn),
           NEW remap, NEW left, NEW vbad, MapOK(n, bad, remap, left, vbad, q0, "run"),
           NEW q, q = IF d \in bk THEN SaveBadBlockTable(bad \ {BbtBlock}) ELSE << >>
    PROVE  /\ DieOK(d, n, bad, bk, q, "saveGrown", w, fl, tn)
           /\ MapOK(n, bad, remap, left, vbad, q, "saveGrown")
           /\ SavingOK(n, bad, q, "saveGrown", bad \cap w)
<1>0. PICK k : k = bad \ {BbtBlock}
  OBVIOUS
<1>a. /\ q # << >> => d \in bk /\ q = SaveBadBlockTable(k) /\ Pending(q) = k
      /\ d \in bk => q # << >>
  BY <1>0, SaveFacts
<1>b. PICK b0 \in SUBSET Blocks : b0 \subseteq bad /\ n.marks \subseteq b0
  BY DEF MapOK, MappedIn
<1>1. QueueOK(d, n, bad, bk, q, "saveGrown")
  <2>1. n.table # Erased
    BY DEF DieOK, QueueOK
  <2>2. k \in SUBSET bad /\ n.marks \subseteq k \cup {BbtBlock}
    BY <1>0, <1>b
  <2> QED
    BY <1>a, <2>1, <2>2 DEF QueueOK
<1>5. SavingOK(n, bad, q, "saveGrown", bad \cap w)
  <2>1. CASE q = << >>
    <3>1. bad \subseteq n.table \cup {BbtBlock}
      BY <1>a, <2>1 DEF DieOK, BookedOK, MappedIn
    <3> QED
      BY <2>1, <3>1 DEF SavingOK
  <2>2. CASE q # << >>
    BY <1>0, <1>a, <2>2 DEF SavingOK
  <2> QED
    BY <2>1, <2>2
<1>2. MarksOK(n, bad, "saveGrown") /\ BookedOK(d, n, bad, bk, "saveGrown")
  BY DEF DieOK, MarksOK, BookedOK, MappedIn
<1>3. d \notin tn => GivenUpOK(n, bad, q, "saveGrown", w) /\ SavedOK(n, bad, q, "saveGrown", fl)
  <2>1. d \notin tn => fl \subseteq bad \cup {BbtBlock}
    BY DEF DieOK, SavedOK, MappedIn
  <2>2. d \notin tn /\ q # << >> => fl \subseteq Pending(q) \cup {BbtBlock}
    BY <1>0, <1>a, <2>1
  <2> QED
    BY <2>2 DEF DieOK, QueueOK, GivenUpOK, SavedOK, MappedIn
<1>4. MapOK(n, bad, remap, left, vbad, q, "saveGrown")
  BY DEF MapOK, MappedIn
<1> QED
  BY <1>1, <1>2, <1>3, <1>4, <1>5 DEF DieOK

LEMMA ResumeDie ==
    ASSUME NEW d, NEW n, NEW w, NEW fl, NEW tn, NEW bad, NEW bk, NEW sv,
           DieOK(d, n, bad, bk, << >>, "saveGrown", w, fl, tn),
           SavingOK(n, bad, << >>, "saveGrown", sv),
           NEW remap, NEW left, NEW vbad,
           MapOK(n, bad, remap, left, vbad, << >>, "saveGrown")
    PROVE  /\ DieOK(d, n, bad, bk, << >>, "run", w, fl \cup sv, tn)
           /\ MapOK(n, bad, remap, left, vbad, << >>, "run")
<1>1. n.table # Erased
  BY DEF DieOK, QueueOK
<1>2. QueueOK(d, n, bad, bk, << >>, "run")
  BY <1>1 DEF QueueOK
<1>3. MarksOK(n, bad, "run") /\ BookedOK(d, n, bad, bk, "run")
  BY DEF DieOK, MarksOK, BookedOK, MappedIn
<1>4. sv \subseteq n.table \cup {BbtBlock} /\ sv \subseteq bad
  BY DEF SavingOK
<1>5. d \notin tn => GivenUpOK(n, bad, << >>, "run", w)
  BY <1>1 DEF DieOK, GivenUpOK
<1>6. d \notin tn => SavedOK(n, bad, << >>, "run", fl \cup sv)
  BY <1>1, <1>4 DEF DieOK, SavedOK, MappedIn
<1>7. MapOK(n, bad, remap, left, vbad, << >>, "run")
  BY DEF MapOK, MappedIn
<1> QED
  BY <1>2, <1>3, <1>5, <1>6, <1>7 DEF DieOK

\* A power cut: what was not finished counts as torn where data may be lost.
LEMMA CutDie ==
    ASSUME NEW d, NEW n, NEW w, NEW fl, NEW tn, NEW bad, NEW bk, NEW q,
           NEW ph \in Phases \ {"off"},
           DieOK(d, n, bad, bk, q, ph, w, fl, tn), NEW tn2,
           d \notin tn2 => d \notin tn /\ (ph \in {"saveGrown", "eraseTotal"} => q = << >>)
    PROVE  DieOK(d, n, {}, {}, << >>, "off", w, fl, tn2)
<1>1. QueueOK(d, n, {}, {}, << >>, "off")
  BY DEF QueueOK
<1>2. MarksOK(n, {}, "off") /\ BookedOK(d, n, {}, {}, "off")
  BY DEF DieOK, MarksOK, BookedOK, MappedIn
<1>3. ASSUME d \notin tn2
      PROVE  GivenUpOK(n, {}, << >>, "off", w) /\ SavedOK(n, {}, << >>, "off", fl)
  <2>1. GivenUpOK(n, bad, q, ph, w) /\ SavedOK(n, bad, q, ph, fl)
    BY <1>3 DEF DieOK
  <2>2. n.table = Erased => ph # "saveGrown"
    BY <1>3 DEF DieOK, QueueOK
  <2>3. n.table = Erased => n.data \subseteq w
    <3>1. CASE ph = "eraseTotal"
      <4>1. n.table = Erased => n.data \subseteq w \cup {q[i].block : i \in 1 .. Len(q)}
        BY <3>1, <2>1 DEF GivenUpOK
      <4>2. {q[i].block : i \in 1 .. Len(q)} = {}
        BY <3>1, <1>3
      <4> QED
        BY <4>1, <4>2
    <3>2. CASE ph # "eraseTotal"
      BY <3>2, <2>1, <2>2 DEF GivenUpOK
    <3> QED
      BY <3>1, <3>2
  <2> QED
    BY <2>1, <2>2, <2>3 DEF GivenUpOK, SavedOK, MappedIn
<1> QED
  BY <1>1, <1>2, <1>3 DEF DieOK

(***************************************************************************)
(* The invariant is inductive                                              *)
(***************************************************************************)

RamType == [bad : [Dies -> SUBSET Blocks], remap : [Dies -> [Blocks -> Blocks]],
            vbad : [Dies -> SUBSET VBlocks], booked : SUBSET Dies,
            left : [Dies -> Nat], eraseFlag : BOOLEAN]
OpsType == [Dies -> Seq(EraseOps \cup {ProgramTable(k) : k \in SUBSET Blocks})]

\* The invariant of die d.
Die(d) ==
    /\ DieOK(d, nand[d], ram.bad[d], ram.booked, ops[d], phase, worn[d], savedSinceRemake[d], torn)
    /\ MapOK(nand[d], ram.bad[d], ram.remap[d], ram.left[d], ram.vbad[d], ops[d], phase)
    /\ SavingOK(nand[d], ram.bad[d], ops[d], phase, saving[d])

Types ==
    /\ nand \in [Dies -> NandDie] /\ ram \in RamType /\ ops \in OpsType /\ phase \in Phases
    /\ worn \in [Dies -> SUBSET Blocks] /\ savedSinceRemake \in [Dies -> SUBSET Blocks]
    /\ saving \in [Dies -> SUBSET Blocks]
    /\ torn \subseteq Dies

LEMMA InvIs == Inv <=> Types /\ \A d \in Dies : Die(d)
<1>1. ASSUME ops \in OpsType
      PROVE  \A d \in Dies : \A i \in DOMAIN ops[d] : ops[d][i].block \in Blocks
  <2> SUFFICES ASSUME NEW d \in Dies, NEW i \in DOMAIN ops[d] PROVE ops[d][i].block \in Blocks
    OBVIOUS
  <2>1. ops[d] \in Seq(EraseOps \cup {ProgramTable(k) : k \in SUBSET Blocks})
    BY <1>1 DEF OpsType
  <2>2. ops[d][i] \in EraseOps \cup {ProgramTable(k) : k \in SUBSET Blocks}
    BY <2>1
  <2> QED
    BY <2>2, OpFacts, BlockFacts DEF EraseOps
<1> QED
  BY <1>1 DEF Inv, Types, TypeOK, Die, RamType, OpsType, NandDie

LEMMA NoRamIs ==
    /\ NoRam \in RamType /\ NoRam.booked = {}
    /\ \A d \in Dies : NoRam.bad[d] = {}
    /\ \A x \in BOOLEAN : /\ [NoRam EXCEPT !.eraseFlag = x] \in RamType
                          /\ [NoRam EXCEPT !.eraseFlag = x].booked = {}
                          /\ \A d \in Dies : [NoRam EXCEPT !.eraseFlag = x].bad[d] = {}
  BY DEF NoRam, RamType

\* Outside a shutdown nothing is being saved.
LEMMA NotSaving ==
    ASSUME NEW n, NEW bad, NEW q, NEW ph, NEW sv, ph # "saveGrown"
    PROVE  SavingOK(n, bad, q, ph, sv)
  BY DEF SavingOK

\* A die that has no map has nothing to show for it.
LEMMA NoMap ==
    ASSUME NEW n, NEW bad, NEW remap, NEW left, NEW vbad, NEW q, NEW ph, ~ MappedIn(ph)
    PROVE  MapOK(n, bad, remap, left, vbad, q, ph)
  BY DEF MapOK

LEMMA EmptyOps == [d \in Dies |-> << >>] \in OpsType
  BY DEF OpsType

LEMMA InitInv == Init => Inv
<1> SUFFICES ASSUME Init PROVE Types /\ \A d \in Dies : Die(d)
  BY InvIs
<1>1. PICK k \in [Dies -> SUBSET Blocks] :
        nand = [d \in Dies |-> [table |-> Erased, marks |-> k[d], data |-> {}]]
  BY DEF Init
<1>2. nand \in [Dies -> NandDie]
  BY <1>1 DEF NandDie
<1>3. Types
  BY <1>2, NoRamIs, EmptyOps DEF Init, Types, Phases
<1>4. ASSUME NEW d \in Dies PROVE Die(d)
  <2>1. /\ nand[d].table = Erased /\ nand[d].data = {} /\ ram.bad[d] = {} /\ d \notin ram.booked
        /\ ops[d] = << >> /\ worn[d] = {} /\ savedSinceRemake[d] = {} /\ d \notin torn /\ phase = "off"
    BY <1>1, NoRamIs DEF Init
  <2>2. QueueOK(d, nand[d], ram.bad[d], ram.booked, ops[d], phase)
    BY <2>1 DEF QueueOK
  <2>3. MarksOK(nand[d], ram.bad[d], phase) /\ BookedOK(d, nand[d], ram.bad[d], ram.booked, phase)
    BY <2>1 DEF MarksOK, BookedOK, MappedIn
  <2>4. /\ GivenUpOK(nand[d], ram.bad[d], ops[d], phase, worn[d])
        /\ SavedOK(nand[d], ram.bad[d], ops[d], phase, savedSinceRemake[d])
    BY <2>1 DEF GivenUpOK, SavedOK, MappedIn
  <2>5. ~ MappedIn(phase)
    BY <2>1 DEF MappedIn
  <2> QED
    BY <2>1, <2>2, <2>3, <2>4, <2>5, NoMap, NotSaving DEF Die, DieOK
<1> QED
  BY <1>3, <1>4

LEMMA PowerOnInv == ASSUME Inv, NEW x \in BOOLEAN, PowerOn(x) PROVE Inv'
<1>1. Types /\ \A d \in Dies : Die(d)
  BY InvIs
<1>2. EraseAll(Blocks) \in Seq(EraseOps)
  <2>1. ErasesOf(EraseAll(Blocks), Blocks, 2 * TotalPerLun)
    BY EraseAllIs
  <2> QED
    BY <2>1 DEF ErasesOf, EraseOps
<1>3. Types'
  <2>1. ram' \in RamType
    BY NoRamIs DEF PowerOn
  <2>2. ops' \in OpsType
    BY <1>2 DEF PowerOn, OpsType
  <2>3. savedSinceRemake' \in [Dies -> SUBSET Blocks]
    BY <1>1 DEF PowerOn, Types
  <2>4. /\ nand' = nand /\ worn' = worn /\ torn' = torn /\ saving' = saving
        /\ phase' = "eraseTotal"
    BY DEF PowerOn
  <2> QED
    BY <1>1, <2>1, <2>2, <2>3, <2>4 DEF Types, Phases
<1>4. ASSUME NEW d \in Dies PROVE Die(d)'
  <2>1. /\ nand'[d] = nand[d] /\ worn'[d] = worn[d] /\ torn' = torn /\ phase' = "eraseTotal"
        /\ ram'.bad[d] = {} /\ ram'.booked = {} /\ phase = "off"
        /\ nand[d] \in NandDie
    BY <1>1, NoRamIs DEF PowerOn, Types
  <2>2. ram'.booked = {} /\ torn' = torn
    BY <2>1
  <2>3. DieOK(d, nand[d], ram.bad[d], ram.booked, ops[d], "off", worn[d], savedSinceRemake[d], torn)
    BY <1>1, <2>1 DEF Die
  <2>4. /\ DieOK(d, nand[d], {}, {}, EraseAll(Blocks), "eraseTotal", worn[d], {}, torn)
        /\ DieOK(d, nand[d], {}, {}, << >>, "eraseTotal", worn[d], savedSinceRemake[d], torn)
    BY <2>1, <2>2, <2>3, OnDie
  <2>5. CASE x
    <3>1. ops'[d] = EraseAll(Blocks) /\ savedSinceRemake'[d] = {}
      BY <2>5 DEF PowerOn
    <3>2. DieOK(d, nand'[d], ram'.bad[d], ram'.booked, ops'[d], phase', worn'[d], savedSinceRemake'[d],
                torn')
      BY <2>1, <2>2, <2>4, <3>1
    <3> QED
      BY <3>2, <2>1, NoMap, NotSaving DEF Die, MappedIn
  <2>6. CASE ~ x
    <3>1. ops'[d] = << >> /\ savedSinceRemake'[d] = savedSinceRemake[d]
      BY <2>6 DEF PowerOn
    <3>2. DieOK(d, nand'[d], ram'.bad[d], ram'.booked, ops'[d], phase', worn'[d], savedSinceRemake'[d],
                torn')
      BY <2>1, <2>2, <2>4, <3>1
    <3> QED
      BY <3>2, <2>1, NoMap, NotSaving DEF Die, MappedIn
  <2> QED
    BY <2>5, <2>6
<1>5. (Types /\ \A d \in Dies : Die(d))'
  BY <1>3, <1>4
<1> QED
  BY <1>5, InvIs, PTL

LEMMA SaveTyped ==
    ASSUME NEW k \in SUBSET Blocks
    PROVE  SaveBadBlockTable(k) \in Seq(EraseOps \cup {ProgramTable(j) : j \in SUBSET Blocks})
<1>1. PICK S : S = EraseOps \cup {ProgramTable(j) : j \in SUBSET Blocks}
  OBVIOUS
<1>2. PICK e, p : e = EraseOp(BbtBlock) /\ p = ProgramTable(k)
  OBVIOUS
<1>3. e \in S /\ p \in S
  BY <1>1, <1>2, BlockFacts DEF EraseOps
<1>4. <<e, p>> \in Seq(S)
  BY <1>3
<1> QED
  BY <1>1, <1>2, <1>4 DEF SaveBadBlockTable

LEMMA RecoverInv == ASSUME Inv, RecoverBadBlockTable PROVE Inv'
<1>1. Types /\ \A d \in Dies : Die(d)
  BY InvIs
<1> DEFINE B(d) == IF TableExists(nand[d].table) THEN nand[d].table ELSE FindBadBlock(d)
           Q(d) == IF TableExists(nand[d].table) THEN << >> ELSE SaveBadBlockTable(B(d))
<1>2. /\ ram' = [ram EXCEPT !.bad = [d \in Dies |-> B(d)], !.booked = {}]
      /\ ops' = [d \in Dies |-> Q(d)]
      /\ phase = "eraseTotal" /\ phase' = "saveNew"
      /\ nand' = nand /\ worn' = worn /\ savedSinceRemake' = savedSinceRemake /\ saving' = saving /\ torn' = torn
      /\ \A d \in Dies : ops[d] = << >>
  BY DEF RecoverBadBlockTable, Quiet
<1>3. ASSUME NEW d \in Dies
      PROVE  /\ B(d) \in SUBSET Blocks
             /\ Q(d) \in Seq(EraseOps \cup {ProgramTable(j) : j \in SUBSET Blocks})
             /\ nand[d].table # Erased => B(d) = nand[d].table /\ Q(d) = << >>
             /\ nand[d].table = Erased =>
                  /\ B(d) = nand[d].marks \cup nand[d].data
                  /\ Q(d) = SaveBadBlockTable(nand[d].marks \cup nand[d].data)
  <2>1. nand[d] \in NandDie
    BY <1>1 DEF Types
  <2>2. CASE nand[d].table # Erased
    BY <2>1, <2>2 DEF TableExists, NandDie
  <2>3. CASE nand[d].table = Erased
    <3>1. nand[d].marks \cup nand[d].data \in SUBSET Blocks
      BY <2>1 DEF NandDie
    <3> QED
      BY <2>3, <3>1, SaveTyped DEF TableExists, FindBadBlock
  <2> QED
    BY <2>2, <2>3
<1> HIDE DEF B, Q
<1>4. /\ ram'.bad = [d \in Dies |-> B(d)] /\ ram'.booked = {} /\ ram' \in RamType
  <2>1. [d \in Dies |-> B(d)] \in [Dies -> SUBSET Blocks]
    BY <1>3
  <2> QED
    BY <1>1, <1>2, <2>1 DEF Types, RamType
<1>5. Types'
  <2>1. ops' \in OpsType
    BY <1>2, <1>3 DEF OpsType
  <2> QED
    BY <1>1, <1>2, <1>4, <2>1 DEF Types, Phases
<1>6. ASSUME NEW d \in Dies PROVE Die(d)'
  <2>1. /\ nand'[d] = nand[d] /\ worn'[d] = worn[d] /\ savedSinceRemake'[d] = savedSinceRemake[d]
        /\ nand[d] \in NandDie
        /\ ram'.bad[d] = B(d) /\ ops'[d] = Q(d) /\ phase' = "saveNew"
        /\ ram'.booked = {}
        /\ torn' = torn
    BY <1>1, <1>2, <1>4 DEF Types
  <2>2. DieOK(d, nand[d], ram.bad[d], ram.booked, << >>, "eraseTotal", worn[d], savedSinceRemake[d],
              torn)
    BY <1>1, <1>2 DEF Die
  <2>3. DieOK(d, nand[d], B(d), {}, Q(d), "saveNew", worn[d], savedSinceRemake[d], torn)
    <3>1. /\ nand[d].table # Erased =>
                DieOK(d, nand[d], nand[d].table, {}, << >>, "saveNew", worn[d], savedSinceRemake[d],
                      torn)
          /\ nand[d].table = Erased =>
                DieOK(d, nand[d], nand[d].marks \cup nand[d].data, {},
                      SaveBadBlockTable(nand[d].marks \cup nand[d].data), "saveNew", worn[d],
                      savedSinceRemake[d], torn)
      BY <2>1, <2>2, RecoverDie
    <3>2. CASE nand[d].table # Erased
      BY <3>1, <3>2, <1>3
    <3>3. CASE nand[d].table = Erased
      BY <3>1, <3>3, <1>3
    <3> QED
      BY <3>2, <3>3
  <2>4. DieOK(d, nand'[d], ram'.bad[d], ram'.booked, ops'[d], phase', worn'[d], savedSinceRemake'[d],
              torn')
    BY <2>1, <2>3
  <2> QED
    BY <2>1, <2>4, NoMap, NotSaving DEF Die, MappedIn
<1>7. (Types /\ \A d \in Dies : Die(d))'
  BY <1>5, <1>6
<1> QED
  BY <1>7, InvIs, PTL

LEMMA InitBlockMapInv == ASSUME Inv, InitBlockMap PROVE Inv'
<1>1. Types /\ \A d \in Dies : Die(d)
  BY InvIs
<1> DEFINE B(d) == HideBbt(ram.bad[d])
           M(d) == RemapBadBlock(B(d))
           V(d) == {v \in VBlocks : M(d).remap[Vblock2PblockOfTbs(v)] \in B(d)}
           Q(d) == IF ram.eraseFlag
                   THEN EraseAll({PhyBlock(M(d).remap, v) : v \in VBlocks \ V(d)}) ELSE << >>
<1>2. /\ ram' = [ram EXCEPT !.bad   = [d \in Dies |-> B(d)],
                            !.remap = [d \in Dies |-> M(d).remap],
                            !.left  = [d \in Dies |-> M(d).left],
                            !.vbad  = [d \in Dies |-> V(d)]]
      /\ ops' = [d \in Dies |-> Q(d)]
      /\ phase = "saveNew" /\ phase' = "eraseUser"
      /\ nand' = nand /\ worn' = worn /\ savedSinceRemake' = savedSinceRemake
      /\ saving' = saving /\ torn' = torn
      /\ \A d \in Dies : ops[d] = << >>
  BY DEF InitBlockMap, Quiet
<1>3. ASSUME NEW d \in Dies
      PROVE  /\ B(d) \in SUBSET Blocks /\ V(d) = VBad(M(d).remap, B(d)) /\ V(d) \in SUBSET VBlocks
             /\ \/ Q(d) = << >>
                \/ Q(d) = EraseAll(Behind(M(d).remap, VBad(M(d).remap, HideBbt(ram.bad[d]))))
  <2>1. ram.bad[d] \in SUBSET Blocks
    BY <1>1 DEF Types, RamType
  <2>2. V(d) = VBad(M(d).remap, B(d))
    BY DEF VBad, TblOf
  <2>3. B(d) \in SUBSET Blocks
    BY <2>1, BlockFacts DEF HideBbt
  <2> QED
    BY <2>2, <2>3 DEF Behind
<1>4. ASSUME NEW d \in Dies
      PROVE  M(d).remap \in [Blocks -> Blocks] /\ M(d).left \in Nat
  <2>1. RemapOK(M(d).remap, M(d).left, B(d))
    BY RemapIs
  <2> QED
    BY <2>1 DEF RemapOK
<1>5. ASSUME NEW d \in Dies
      PROVE  /\ DieOK(d, nand[d], B(d), ram.booked, Q(d), "eraseUser", worn[d], savedSinceRemake[d],
                      torn)
             /\ MapOK(nand[d], B(d), M(d).remap, M(d).left, V(d), Q(d), "eraseUser")
  <2>1. /\ nand[d] \in NandDie
        /\ ram.bad[d] \in SUBSET Blocks
    BY <1>1 DEF Types, RamType
  <2>2. DieOK(d, nand[d], ram.bad[d], ram.booked, << >>, "saveNew", worn[d], savedSinceRemake[d],
              torn)
    BY <1>1, <1>2 DEF Die
  <2>3. M(d) = RemapBadBlock(HideBbt(ram.bad[d])) /\ B(d) = HideBbt(ram.bad[d])
    OBVIOUS
  <2>4. V(d) = VBad(M(d).remap, HideBbt(ram.bad[d]))
    BY <1>3
  <2> HIDE DEF M, B, V, Q
  <2> QED
    BY <2>1, <2>2, <2>3, <2>4, <1>3, MapDie
<1> HIDE DEF B, M, V, Q
<1>6. /\ ram' \in RamType /\ ram'.booked = ram.booked /\ ram'.bad = [d \in Dies |-> B(d)]
      /\ ram'.remap = [d \in Dies |-> M(d).remap] /\ ram'.left = [d \in Dies |-> M(d).left]
      /\ ram'.vbad = [d \in Dies |-> V(d)]
  <2>1. /\ [d \in Dies |-> B(d)] \in [Dies -> SUBSET Blocks]
        /\ [d \in Dies |-> V(d)] \in [Dies -> SUBSET VBlocks]
    BY <1>3
  <2>2. /\ [d \in Dies |-> M(d).remap] \in [Dies -> [Blocks -> Blocks]]
        /\ [d \in Dies |-> M(d).left] \in [Dies -> Nat]
    BY <1>4
  <2> QED
    BY <1>1, <1>2, <2>1, <2>2 DEF Types, RamType
<1>7. Types'
  <2>1. ASSUME NEW d \in Dies PROVE Q(d) \in Seq(EraseOps)
    BY <1>5 DEF DieOK, QueueOK
  <2>2. ASSUME NEW d \in Dies
        PROVE  Q(d) \in Seq(EraseOps \cup {ProgramTable(j) : j \in SUBSET Blocks})
    BY <2>1
  <2>3. ops' \in OpsType
    BY <1>2, <2>2 DEF OpsType
  <2> QED
    BY <1>1, <1>2, <1>6, <2>3 DEF Types, Phases
<1>8. ASSUME NEW d \in Dies PROVE Die(d)'
  <2>1. /\ nand'[d] = nand[d] /\ worn'[d] = worn[d] /\ savedSinceRemake'[d] = savedSinceRemake[d]
        /\ ram'.bad[d] = B(d) /\ ops'[d] = Q(d) /\ phase' = "eraseUser"
        /\ ram'.remap[d] = M(d).remap /\ ram'.left[d] = M(d).left /\ ram'.vbad[d] = V(d)
        /\ ram'.booked = ram.booked /\ torn' = torn
    BY <1>2, <1>6
  <2>2. DieOK(d, nand'[d], ram'.bad[d], ram'.booked, ops'[d], phase', worn'[d], savedSinceRemake'[d],
              torn')
    BY <2>1, <1>5
  <2>3. MapOK(nand'[d], ram'.bad[d], ram'.remap[d], ram'.left[d], ram'.vbad[d], ops'[d], phase')
    BY <2>1, <1>5
  <2> QED
    BY <2>1, <2>2, <2>3, NotSaving DEF Die
<1>9. (Types /\ \A d \in Dies : Die(d))'
  BY <1>7, <1>8
<1> QED
  BY <1>9, InvIs, PTL

LEMMA StartInv == ASSUME Inv, InitCurrentBlockOfDieMap PROVE Inv'
<1>1. Types /\ \A d \in Dies : Die(d)
  BY InvIs
<1>2. /\ phase = "eraseUser" /\ phase' \in {"run", "halted"}
      /\ nand' = nand /\ ram' = ram /\ ops' = ops /\ worn' = worn 
      /\ savedSinceRemake' = savedSinceRemake /\ saving' = saving
      /\ torn' = torn /\ \A d \in Dies : ops[d] = << >>
  BY DEF InitCurrentBlockOfDieMap, Quiet
<1>3. Types'
  BY <1>1, <1>2 DEF Types, Phases
<1>4. ASSUME NEW d \in Dies PROVE Die(d)'
  <2>1. ops[d] = << >>
    BY <1>2
  <2>2. /\ DieOK(d, nand[d], ram.bad[d], ram.booked, << >>, "eraseUser", worn[d], savedSinceRemake[d],
              torn)
        /\ MapOK(nand[d], ram.bad[d], ram.remap[d], ram.left[d], ram.vbad[d], << >>, "eraseUser")
    BY <1>1, <1>2 DEF Die
  <2>3. /\ DieOK(d, nand[d], ram.bad[d], ram.booked, << >>, phase', worn[d], savedSinceRemake[d],
              torn)
        /\ MapOK(nand[d], ram.bad[d], ram.remap[d], ram.left[d], ram.vbad[d], << >>, phase')
    BY <2>1, <2>2, <1>2, StartDie
  <2> QED
    BY <2>1, <2>3, <1>2, NotSaving DEF Die
<1>5. (Types /\ \A d \in Dies : Die(d))'
  BY <1>3, <1>4
<1> QED
  BY <1>5, InvIs, PTL

\* A die that a step does not touch is as it was.
LEMMA OtherDie ==
    ASSUME NEW d, Die(d), phase' = phase,
           nand'[d] = nand[d], ram'.bad[d] = ram.bad[d], ram'.remap[d] = ram.remap[d],
           ram'.left[d] = ram.left[d], ram'.vbad[d] = ram.vbad[d], ops'[d] = ops[d],
           worn'[d] = worn[d], savedSinceRemake'[d] = savedSinceRemake[d],
           saving'[d] = saving[d],
           (d \in ram'.booked <=> d \in ram.booked), torn' = torn
    PROVE  Die(d)'
<1>1. DieOK(d, nand'[d], ram'.bad[d], ram'.booked, ops'[d], phase', worn'[d], savedSinceRemake'[d],
            torn')
  BY DEF Die, DieOK, QueueOK, BookedOK
<1>2. MapOK(nand'[d], ram'.bad[d], ram'.remap[d], ram'.left[d], ram'.vbad[d], ops'[d], phase')
  BY DEF Die
<1>3. SavingOK(nand'[d], ram'.bad[d], ops'[d], phase', saving'[d])
  BY DEF Die
<1> QED
  BY <1>1, <1>2, <1>3 DEF Die

\* A block behind a virtual block in use is a block.
LEMMA BehindBlock ==
    ASSUME Inv, NEW d \in Dies, NEW v \in VBlocks, Mapped
    PROVE  PhyBlock(ram.remap[d], v) \in Blocks
<1>1. MapOK(nand[d], ram.bad[d], ram.remap[d], ram.left[d], ram.vbad[d], ops[d], phase)
  BY InvIs DEF Die
<1>2. PICK b0 \in SUBSET Blocks : RemapOK(ram.remap[d], ram.left[d], b0)
  BY <1>1 DEF MapOK, MappedIn, Mapped
<1> QED
  BY <1>2, BehindIs

LEMMA InUseInv ==
    ASSUME Inv, NEW d0 \in Dies, NEW v \in VBlocks,
           Program(d0, v) \/ EraseBlock(d0, v) \/ FailInUse(d0, v)
    PROVE  Inv'
<1>1. Types /\ \A d \in Dies : Die(d)
  BY InvIs
<1>2. /\ phase \in {"run", "saveGrown"} /\ phase' = phase /\ ops' = ops
      /\ savedSinceRemake' = savedSinceRemake /\ saving' = saving /\ torn' = torn
  BY DEF Program, EraseBlock, FailInUse, InService
<1>3. PICK f : f = PhyBlock(ram.remap[d0], v)
  OBVIOUS
<1>4. f \in Blocks
  BY <1>2, <1>3, BehindBlock DEF Mapped
<1>5. /\ nand[d0] \in NandDie /\ nand \in [Dies -> NandDie] /\ ram \in RamType
      /\ worn \in [Dies -> SUBSET Blocks]
  BY <1>1 DEF Types
<1>6. /\ DieOK(d0, nand[d0], ram.bad[d0], ram.booked, ops[d0], phase, worn[d0],
               savedSinceRemake[d0], torn)
      /\ MapOK(nand[d0], ram.bad[d0], ram.remap[d0], ram.left[d0], ram.vbad[d0], ops[d0], phase)
      /\ SavingOK(nand[d0], ram.bad[d0], ops[d0], phase, saving[d0])
  BY <1>1, <1>2 DEF Die
<1>7. CASE Program(d0, v) \/ EraseBlock(d0, v)
  <2>1. ram' = ram /\ worn' = worn
    BY <1>7 DEF Program, EraseBlock
  <2>2. PICK k : k \in {nand[d0].data \cup {f}, nand[d0].data \ {f}}
                 /\ nand' = [nand EXCEPT ![d0].data = k]
    BY <1>3, <1>7 DEF Program, EraseBlock
  <2>3. k \in SUBSET Blocks
    BY <1>4, <1>5, <2>2 DEF NandDie
  <2>4. PICK m : m = [nand[d0] EXCEPT !.data = k]
    OBVIOUS
  <2>5. m \in NandDie /\ m.table = nand[d0].table /\ m.marks = nand[d0].marks
    BY <1>5, <2>3, <2>4 DEF NandDie
  <2>6. nand' = [nand EXCEPT ![d0] = m]
    BY <2>2, <2>4
  <2>7. Types'
    BY <1>1, <1>2, <2>1, <2>5, <2>6 DEF Types
  <2>8. ASSUME NEW d \in Dies PROVE Die(d)'
    <3>1. CASE d = d0
      <4>1. nand'[d0] = m
        BY <1>5, <2>6
      <4>2. /\ DieOK(d0, m, ram.bad[d0], ram.booked, ops[d0], phase, worn[d0],
                     savedSinceRemake[d0], torn)
            /\ MapOK(m, ram.bad[d0], ram.remap[d0], ram.left[d0], ram.vbad[d0], ops[d0], phase)
            /\ SavingOK(m, ram.bad[d0], ops[d0], phase, saving[d0])
        BY <1>2, <1>5, <1>6, <2>5, DataStep
      <4> QED
        BY <3>1, <4>1, <4>2, <1>2, <2>1 DEF Die
    <3>2. CASE d # d0
      <4>1. nand'[d] = nand[d] /\ Die(d)
        BY <3>2, <1>1, <1>5, <2>6
      <4> QED
        BY <3>2, <4>1, <1>2, <2>1, OtherDie
    <3> QED
      BY <3>1, <3>2
  <2>9. (Types /\ \A d \in Dies : Die(d))'
    BY <2>7, <2>8
  <2> QED
    BY <2>9, InvIs, PTL
<1>8. CASE FailInUse(d0, v)
  <2>1. /\ nand' = nand /\ worn' = [worn EXCEPT ![d0] = @ \cup {f}]
        /\ ram' = [ram EXCEPT !.bad[d0] = @ \cup {f}, !.booked = @ \cup {d0}]
    BY <1>3, <1>8 DEF FailInUse, Fail, UpdatePhyBlockMapForGrownBadBlock
  <2>2. /\ ram' \in RamType /\ ram'.bad = [ram.bad EXCEPT ![d0] = @ \cup {f}]
        /\ ram'.booked = ram.booked \cup {d0} /\ ram'.remap = ram.remap
        /\ ram'.left = ram.left /\ ram'.vbad = ram.vbad
    BY <1>4, <1>5, <2>1 DEF RamType
  <2>3. ram.bad \in [Dies -> SUBSET Blocks]
    BY <1>5 DEF RamType
  <2>4. worn' \in [Dies -> SUBSET Blocks]
    BY <1>4, <1>5, <2>1
  <2>5. Types'
    BY <1>1, <1>2, <2>1, <2>2, <2>4 DEF Types
  <2>6. ASSUME NEW d \in Dies PROVE Die(d)'
    <3>1. CASE d = d0
      <4>1. /\ ram'.bad[d0] = ram.bad[d0] \cup {f} /\ worn'[d0] = worn[d0] \cup {f}
            /\ ram'.booked = ram.booked \cup {d0}
        BY <1>5, <2>1, <2>2, <2>3
      <4>2. /\ DieOK(d0, nand[d0], ram.bad[d0] \cup {f}, ram.booked \cup {d0}, ops[d0], phase,
                     worn[d0] \cup {f}, savedSinceRemake[d0], torn)
            /\ MapOK(nand[d0], ram.bad[d0] \cup {f}, ram.remap[d0], ram.left[d0], ram.vbad[d0],
                     ops[d0], phase)
            /\ SavingOK(nand[d0], ram.bad[d0] \cup {f}, ops[d0], phase, saving[d0])
        <5>1. phase \in {"run", "saveGrown"} /\ nand[d0] \in NandDie
          BY <1>2, <1>5
        <5>2. PICK ph, n, bad, q, w, fl, sv :
                /\ ph = phase /\ n = nand[d0] /\ bad = ram.bad[d0] /\ q = ops[d0]
                /\ w = worn[d0] /\ fl = savedSinceRemake[d0] /\ sv = saving[d0]
          OBVIOUS
        <5>3. PICK remap, left, vbad :
                remap = ram.remap[d0] /\ left = ram.left[d0] /\ vbad = ram.vbad[d0]
          OBVIOUS
        <5>4. /\ ph \in {"run", "saveGrown"} /\ n \in NandDie
              /\ DieOK(d0, n, bad, ram.booked, q, ph, w, fl, torn)
              /\ SavingOK(n, bad, q, ph, sv) /\ MapOK(n, bad, remap, left, vbad, q, ph)
          BY <5>1, <5>2, <5>3, <1>6
        <5>5. DieOK(d0, n, bad \cup {f}, ram.booked \cup {d0}, q, ph, w \cup {f}, fl, torn)
          <6>1. PICK bad2, bk2, w2 : /\ bad2 = bad \cup {f} /\ bk2 = ram.booked \cup {d0}
                                     /\ w2 = w \cup {f}
            OBVIOUS
          <6>2. bad \subseteq bad2 /\ w \subseteq w2 /\ bad2 \subseteq bad \cup w2 /\ d0 \in bk2
            BY <6>1
          <6>3. DieOK(d0, n, bad2, bk2, q, ph, w2, fl, torn)
            BY <6>2, <5>4, FailDie
          <6> QED
            BY <6>1, <6>3
        <5>6. /\ MapOK(n, bad \cup {f}, remap, left, vbad, q, ph)
              /\ SavingOK(n, bad \cup {f}, q, ph, sv)
          BY <5>4, FailMap
        <5> QED
          BY <5>2, <5>3, <5>5, <5>6
      <4>3. DieOK(d, nand'[d], ram'.bad[d], ram'.booked, ops'[d], phase', worn'[d],
                  savedSinceRemake'[d], torn')
        BY <3>1, <4>1, <4>2, <1>2, <2>1
      <4>4. MapOK(nand'[d], ram'.bad[d], ram'.remap[d], ram'.left[d], ram'.vbad[d], ops'[d],
                  phase')
        BY <3>1, <4>1, <4>2, <1>2, <2>1, <2>2
      <4>5. SavingOK(nand'[d], ram'.bad[d], ops'[d], phase', saving'[d])
        BY <3>1, <4>1, <4>2, <1>2, <2>1
      <4> QED
        BY <4>3, <4>4, <4>5 DEF Die
    <3>2. CASE d # d0
      <4>1. /\ ram'.bad[d] = ram.bad[d] /\ worn'[d] = worn[d] /\ Die(d)
            /\ (d \in ram'.booked <=> d \in ram.booked)
        BY <3>2, <1>1, <1>5, <2>1, <2>2, <2>3
      <4> QED
        BY <3>2, <4>1, <1>2, <2>1, <2>2, OtherDie
    <3> QED
      BY <3>1, <3>2
  <2>7. (Types /\ \A d \in Dies : Die(d))'
    BY <2>5, <2>6
  <2> QED
    BY <2>7, InvIs, PTL
<1> QED
  BY <1>7, <1>8

LEMMA ShutdownInv == ASSUME Inv, UpdateBadBlockTableForGrownBadBlock PROVE Inv'
<1>1. Types /\ \A d \in Dies : Die(d)
  BY InvIs
<1> DEFINE Q(d) == IF d \in ram.booked THEN SaveBadBlockTable(TableOf(d)) ELSE << >>
<1>2. /\ phase = "run" /\ phase' = "saveGrown" /\ ops' = [d \in Dies |-> Q(d)]
      /\ nand' = nand /\ ram' = ram /\ worn' = worn /\ savedSinceRemake' = savedSinceRemake
      /\ saving' = [d \in Dies |-> ram.bad[d] \cap worn[d]] /\ torn' = torn
  BY DEF UpdateBadBlockTableForGrownBadBlock
<1>3. ASSUME NEW d \in Dies
      PROVE  /\ Q(d) \in Seq(EraseOps \cup {ProgramTable(j) : j \in SUBSET Blocks})
             /\ Q(d) = IF d \in ram.booked THEN SaveBadBlockTable(ram.bad[d] \ {BbtBlock})
                       ELSE << >>
  <2>1. TableOf(d) \in SUBSET Blocks /\ TableOf(d) = ram.bad[d] \ {BbtBlock}
    BY <1>1 DEF Types, RamType, TableOf
  <2> QED
    BY <2>1, SaveTyped
<1> HIDE DEF Q
<1>4. Types'
  <2>1. ops' \in OpsType
    BY <1>2, <1>3 DEF OpsType
  <2>2. saving' \in [Dies -> SUBSET Blocks]
    BY <1>1, <1>2 DEF Types
  <2> QED
    BY <1>1, <1>2, <2>1, <2>2 DEF Types, Phases
<1>5. ASSUME NEW d \in Dies PROVE Die(d)'
  <2>1. ops'[d] = Q(d) /\ saving'[d] = ram.bad[d] \cap worn[d]
    BY <1>2
  <2>2. /\ DieOK(d, nand[d], ram.bad[d], ram.booked, ops[d], "run", worn[d], savedSinceRemake[d],
              torn)
        /\ MapOK(nand[d], ram.bad[d], ram.remap[d], ram.left[d], ram.vbad[d], ops[d], "run")
    BY <1>1, <1>2 DEF Die
  <2>3. /\ DieOK(d, nand[d], ram.bad[d], ram.booked, Q(d), "saveGrown", worn[d], savedSinceRemake[d],
              torn)
        /\ MapOK(nand[d], ram.bad[d], ram.remap[d], ram.left[d], ram.vbad[d], Q(d), "saveGrown")
        /\ SavingOK(nand[d], ram.bad[d], Q(d), "saveGrown", ram.bad[d] \cap worn[d])
    <3>1. PICK q : q = Q(d)
      OBVIOUS
    <3>2. q = IF d \in ram.booked THEN SaveBadBlockTable(ram.bad[d] \ {BbtBlock}) ELSE << >>
      BY <3>1, <1>3
    <3> QED
      BY <3>1, <3>2, <2>2, ShutDie
  <2> QED
    BY <2>1, <2>3, <1>2 DEF Die
<1>6. (Types /\ \A d \in Dies : Die(d))'
  BY <1>4, <1>5
<1> QED
  BY <1>6, InvIs, PTL

LEMMA ResumeInv == ASSUME Inv, Resume PROVE Inv'
<1>1. Types /\ \A d \in Dies : Die(d)
  BY InvIs
<1>2. /\ phase = "saveGrown" /\ phase' = "run" /\ \A d \in Dies : ops[d] = << >>
      /\ savedSinceRemake' = [d \in Dies |-> savedSinceRemake[d] \cup saving[d]]
      /\ nand' = nand /\ ram' = ram /\ worn' = worn /\ ops' = ops /\ torn' = torn
      /\ saving' = [d \in Dies |-> {}]
  BY DEF Resume, Quiet
<1>3. Types'
  <2>1. savedSinceRemake' \in [Dies -> SUBSET Blocks]
    BY <1>1, <1>2 DEF Types
  <2>2. saving' \in [Dies -> SUBSET Blocks]
    BY <1>2
  <2> QED
    BY <1>1, <1>2, <2>1, <2>2 DEF Types, Phases
<1>4. ASSUME NEW d \in Dies PROVE Die(d)'
  <2>1. /\ ops[d] = << >>
        /\ savedSinceRemake'[d] = savedSinceRemake[d] \cup saving[d]
    BY <1>2
  <2>2. /\ DieOK(d, nand[d], ram.bad[d], ram.booked, << >>, "saveGrown", worn[d], savedSinceRemake[d],
              torn)
        /\ MapOK(nand[d], ram.bad[d], ram.remap[d], ram.left[d], ram.vbad[d], << >>, "saveGrown")
        /\ SavingOK(nand[d], ram.bad[d], << >>, "saveGrown", saving[d])
    BY <1>1, <1>2 DEF Die
  <2>3. /\ DieOK(d, nand[d], ram.bad[d], ram.booked, << >>, "run", worn[d],
                 savedSinceRemake[d] \cup saving[d], torn)
        /\ MapOK(nand[d], ram.bad[d], ram.remap[d], ram.left[d], ram.vbad[d], << >>, "run")
    BY <2>1, <2>2, ResumeDie
  <2> QED
    BY <2>1, <2>3, <1>2, NotSaving DEF Die
<1>5. (Types /\ \A d \in Dies : Die(d))'
  BY <1>3, <1>4
<1> QED
  BY <1>5, InvIs, PTL

\* A die has requests only while the firmware waits for them.
LEMMA Waiting ==
    ASSUME Inv, NEW d \in Dies, ops[d] # << >>
    PROVE  phase \in {"eraseTotal", "saveNew", "eraseUser", "saveGrown"}
<1>1. Types /\ Die(d)
  BY InvIs
<1>2. phase \in {"off", "run", "halted"} => ops[d] = << >>
  BY <1>1 DEF Die, DieOK, QueueOK
<1> QED
  BY <1>1, <1>2 DEF Types, Phases

LEMMA ExecuteInv == ASSUME Inv, NEW d0 \in Dies, ExecuteNandReq(d0) PROVE Inv'
<1>1. Types /\ \A d \in Dies : Die(d)
  BY InvIs
<1>2. PICK m \in Executed(nand[d0], Head(ops[d0])) : nand' = [nand EXCEPT ![d0] = m]
  BY DEF ExecuteNandReq
<1>3. /\ ops[d0] # << >> /\ ops' = [ops EXCEPT ![d0] = Tail(@)] /\ ram' = ram /\ phase' = phase
      /\ worn' = worn /\ savedSinceRemake' = savedSinceRemake /\ saving' = saving /\ torn' = torn
  BY DEF ExecuteNandReq
<1>4. /\ nand \in [Dies -> NandDie] /\ nand[d0] \in NandDie /\ ops \in OpsType
      /\ ram.bad[d0] \in SUBSET Blocks
  BY <1>1 DEF Types, RamType
<1>5. PICK q : q = ops[d0]
  OBVIOUS
<1>6. /\ DieOK(d0, nand[d0], ram.bad[d0], ram.booked, q, phase, worn[d0], savedSinceRemake[d0],
               torn)
      /\ MapOK(nand[d0], ram.bad[d0], ram.remap[d0], ram.left[d0], ram.vbad[d0], q, phase)
      /\ SavingOK(nand[d0], ram.bad[d0], q, phase, saving[d0])
      /\ q # << >> /\ m \in Executed(nand[d0], Head(q))
  BY <1>1, <1>3, <1>5 DEF Die
<1>7. /\ m \in NandDie
      /\ DieOK(d0, m, ram.bad[d0], ram.booked, Tail(q), phase, worn[d0], savedSinceRemake[d0],
               torn)
      /\ MapOK(m, ram.bad[d0], ram.remap[d0], ram.left[d0], ram.vbad[d0], Tail(q), phase)
      /\ SavingOK(m, ram.bad[d0], Tail(q), phase, saving[d0])
  <2>1. CASE phase = "eraseTotal"
    <3>1. /\ m \in NandDie
          /\ DieOK(d0, m, ram.bad[d0], ram.booked, Tail(q), "eraseTotal", worn[d0],
                   savedSinceRemake[d0], torn)
      BY <2>1, <1>4, <1>6, TotalErased
    <3> QED
      BY <2>1, <3>1, NoMap, NotSaving DEF MappedIn
  <2>2. CASE phase = "saveNew"
    <3>1. /\ m \in NandDie
          /\ DieOK(d0, m, ram.bad[d0], ram.booked, Tail(q), "saveNew", worn[d0],
                   savedSinceRemake[d0], torn)
      BY <2>2, <1>4, <1>6, NewSaved
    <3> QED
      BY <2>2, <3>1, NoMap, NotSaving DEF MappedIn
  <2>3. CASE phase = "eraseUser"
    BY <2>3, <1>4, <1>6, UserErased, NotSaving
  <2>4. CASE phase = "saveGrown"
    BY <2>4, <1>4, <1>6, GrownSaved
  <2> QED
    BY <2>1, <2>2, <2>3, <2>4, <1>3, Waiting
<1>8. ops' \in OpsType /\ ops'[d0] = Tail(q) /\ nand'[d0] = m
  <2>1. Tail(ops[d0]) \in Seq(EraseOps \cup {ProgramTable(k) : k \in SUBSET Blocks})
    <3>1. ops[d0] \in Seq(EraseOps \cup {ProgramTable(k) : k \in SUBSET Blocks})
      BY <1>4 DEF OpsType
    <3> QED
      BY <3>1, <1>3
  <2> QED
    BY <2>1, <1>2, <1>3, <1>4, <1>5 DEF OpsType
<1>9. Types'
  BY <1>1, <1>2, <1>3, <1>7, <1>8 DEF Types
<1>10. ASSUME NEW d \in Dies PROVE Die(d)'
  <2>1. CASE d = d0
    BY <2>1, <1>3, <1>7, <1>8 DEF Die
  <2>2. CASE d # d0
    <3>1. nand'[d] = nand[d] /\ ops'[d] = ops[d] /\ Die(d)
      BY <2>2, <1>1, <1>2, <1>3, <1>4 DEF OpsType
    <3> QED
      BY <3>1, <1>3, OtherDie
  <2> QED
    BY <2>1, <2>2
<1>11. (Types /\ \A d \in Dies : Die(d))'
  BY <1>9, <1>10
<1> QED
  BY <1>11, InvIs, PTL

LEMMA EraseFailsInv == ASSUME Inv, NEW d0 \in Dies, EraseFails(d0) PROVE Inv'
<1>1. Types /\ \A d \in Dies : Die(d)
  BY InvIs
<1>2. PICK q, b : q = ops[d0] /\ b = Head(q).block
  OBVIOUS
<1>3. /\ q # << >> /\ b # BbtBlock /\ ops' = [ops EXCEPT ![d0] = Tail(q)] /\ phase' = phase
      /\ nand' = nand /\ worn' = [worn EXCEPT ![d0] = @ \cup {b}]
      /\ ram' = [ram EXCEPT !.bad[d0] = @ \cup {b}, !.booked = @ \cup {d0}]
      /\ savedSinceRemake' = savedSinceRemake /\ saving' = saving /\ torn' = torn
  BY <1>2 DEF EraseFails, Fail, UpdatePhyBlockMapForGrownBadBlock
<1>4. /\ nand[d0] \in NandDie /\ ops \in OpsType /\ ram \in RamType
      /\ ram.bad \in [Dies -> SUBSET Blocks] /\ worn \in [Dies -> SUBSET Blocks]
  BY <1>1 DEF Types, RamType
<1>5. /\ DieOK(d0, nand[d0], ram.bad[d0], ram.booked, q, phase, worn[d0], savedSinceRemake[d0],
               torn)
      /\ MapOK(nand[d0], ram.bad[d0], ram.remap[d0], ram.left[d0], ram.vbad[d0], q, phase)
  BY <1>1, <1>2 DEF Die
<1>6. phase \in {"eraseTotal", "eraseUser"}
  <2>1. ASSUME NEW k, q = <<ProgramTable(k)>> \/ q = SaveBadBlockTable(k) PROVE FALSE
    <3>1. Head(q) = ProgramTable(k) \/ Head(q) = EraseOp(BbtBlock)
      BY <2>1, SaveFacts
    <3> QED
      BY <3>1, <1>2, <1>3, OpFacts
  <2>2. phase # "saveNew"
    BY <2>1, <1>3, <1>5 DEF DieOK, QueueOK
  <2>3. phase # "saveGrown"
    BY <2>1, <1>3, <1>5 DEF DieOK, QueueOK
  <2> QED
    BY <2>2, <2>3, <1>2, <1>3, Waiting
<1>7. q \in Seq(EraseOps)
  BY <1>5, <1>6 DEF DieOK, QueueOK
<1>8. Tail(q) \in Seq(EraseOps) /\ b \in Blocks
  BY <1>2, <1>3, <1>7, TailErases, OpFacts
<1>9. /\ DieOK(d0, nand[d0], ram.bad[d0] \cup {b}, ram.booked \cup {d0}, Tail(q), phase,
               worn[d0] \cup {b}, savedSinceRemake[d0], torn)
      /\ MapOK(nand[d0], ram.bad[d0] \cup {b}, ram.remap[d0], ram.left[d0], ram.vbad[d0], Tail(q),
               phase)
  <2>1. CASE phase = "eraseTotal"
    <3>1. DieOK(d0, nand[d0], ram.bad[d0] \cup {b}, ram.booked \cup {d0}, Tail(q), "eraseTotal",
                worn[d0] \cup {b}, savedSinceRemake[d0], torn)
      BY <2>1, <1>2, <1>3, <1>4, <1>5, TotalFails
    <3> QED
      BY <2>1, <3>1, NoMap DEF MappedIn
  <2>2. CASE phase = "eraseUser"
    BY <2>2, <1>3, <1>4, <1>5, UserFails
  <2> QED
    BY <2>1, <2>2, <1>6
<1>10. /\ ram' \in RamType /\ ram'.bad = [ram.bad EXCEPT ![d0] = @ \cup {b}]
       /\ ram'.booked = ram.booked \cup {d0} /\ ram'.remap = ram.remap
       /\ ram'.left = ram.left /\ ram'.vbad = ram.vbad
  BY <1>3, <1>4, <1>8 DEF RamType
<1>11. worn' \in [Dies -> SUBSET Blocks] /\ ops' \in OpsType /\ ops'[d0] = Tail(q)
  <2>1. Tail(q) \in Seq(EraseOps \cup {ProgramTable(k) : k \in SUBSET Blocks})
    BY <1>8
  <2> QED
    BY <2>1, <1>3, <1>4, <1>8 DEF OpsType
<1>12. Types'
  BY <1>1, <1>3, <1>10, <1>11 DEF Types
<1>13. ASSUME NEW d \in Dies PROVE Die(d)'
  <2>1. CASE d = d0
    <3>1. /\ ram'.bad[d0] = ram.bad[d0] \cup {b} /\ worn'[d0] = worn[d0] \cup {b}
          /\ ram'.booked = ram.booked \cup {d0}
      BY <1>3, <1>4, <1>10
    <3> QED
      <4>1. phase' # "saveGrown"
        BY <1>3, <1>6
      <4> QED
        <5>1. DieOK(d, nand'[d], ram'.bad[d], ram'.booked, ops'[d], phase', worn'[d],
                    savedSinceRemake'[d], torn')
          BY <2>1, <3>1, <1>3, <1>9, <1>11
        <5>2. MapOK(nand'[d], ram'.bad[d], ram'.remap[d], ram'.left[d], ram'.vbad[d], ops'[d],
                    phase')
          BY <2>1, <3>1, <1>3, <1>9, <1>10, <1>11
        <5>3. SavingOK(nand'[d], ram'.bad[d], ops'[d], phase', saving'[d])
          BY <4>1, NotSaving
        <5> QED
          BY <5>1, <5>2, <5>3 DEF Die
  <2>2. CASE d # d0
    <3>1. /\ ram'.bad[d] = ram.bad[d] /\ worn'[d] = worn[d] /\ ops'[d] = ops[d] /\ Die(d)
          /\ (d \in ram'.booked <=> d \in ram.booked)
      BY <2>2, <1>1, <1>3, <1>4, <1>10 DEF OpsType
    <3> QED
      BY <3>1, <1>3, <1>10, OtherDie
  <2> QED
    BY <2>1, <2>2
<1>14. (Types /\ \A d \in Dies : Die(d))'
  BY <1>12, <1>13
<1> QED
  BY <1>14, InvIs, PTL

LEMMA PowerCutInv == ASSUME Inv, PowerCut PROVE Inv'
<1>1. Types /\ \A d \in Dies : Die(d)
  BY InvIs
<1>2. /\ phase # "off" /\ phase' = "off" /\ ram' = NoRam /\ ops' = [d \in Dies |-> << >>]
      /\ nand' = nand /\ worn' = worn /\ savedSinceRemake' = savedSinceRemake
      /\ saving' = [d \in Dies |-> {}]
      /\ torn' = IF phase \in {"saveGrown", "eraseTotal"}
                 THEN torn \cup {d \in Dies : ops[d] # << >>} ELSE torn
  BY DEF PowerCut
<1>3. torn' \subseteq Dies
  BY <1>1, <1>2 DEF Types
<1>4. Types'
  <2>1. saving' \in [Dies -> SUBSET Blocks]
    BY <1>2
  <2> QED
    BY <1>1, <1>2, <1>3, <2>1, NoRamIs, EmptyOps DEF Types, Phases
<1>5. ASSUME NEW d \in Dies PROVE Die(d)'
  <2>1. /\ ops'[d] = << >>
        /\ ram'.bad[d] = {} /\ ram'.booked = {}
    BY <1>2, NoRamIs
  <2>2. d \notin torn' => d \notin torn /\ (phase \in {"saveGrown", "eraseTotal"} => ops[d] = << >>)
    BY <1>2
  <2>3. phase \in Phases \ {"off"}
    BY <1>1, <1>2 DEF Types
  <2>4. DieOK(d, nand[d], ram.bad[d], ram.booked, ops[d], phase, worn[d], savedSinceRemake[d], torn)
    BY <1>1 DEF Die
  <2>5. DieOK(d, nand[d], {}, {}, << >>, "off", worn[d], savedSinceRemake[d], torn')
    BY <2>1, <2>2, <2>3, <2>4, CutDie
  <2>6. DieOK(d, nand'[d], ram'.bad[d], ram'.booked, ops'[d], phase', worn'[d], savedSinceRemake'[d],
              torn')
    BY <2>1, <2>5, <1>2
  <2> QED
    BY <2>6, <1>2, NoMap, NotSaving DEF Die, MappedIn
<1>6. (Types /\ \A d \in Dies : Die(d))'
  BY <1>4, <1>5
<1> QED
  BY <1>6, InvIs, PTL

LEMMA NextInv == Inv /\ [Next]_vars => Inv'
<1> SUFFICES ASSUME Inv, [Next]_vars PROVE Inv'
  OBVIOUS
<1>1. CASE \E x \in BOOLEAN : PowerOn(x)
  BY <1>1, PowerOnInv
<1>2. CASE RecoverBadBlockTable
  BY <1>2, RecoverInv
<1>3. CASE InitBlockMap
  BY <1>3, InitBlockMapInv
<1>4. CASE InitCurrentBlockOfDieMap
  BY <1>4, StartInv
<1>5. CASE \E d \in Dies, v \in VBlocks : Program(d, v) \/ EraseBlock(d, v) \/ FailInUse(d, v)
  BY <1>5, InUseInv
<1>6. CASE UpdateBadBlockTableForGrownBadBlock
  BY <1>6, ShutdownInv
<1>7. CASE Resume
  BY <1>7, ResumeInv
<1>8. CASE \E d \in Dies : ExecuteNandReq(d) \/ EraseFails(d)
  BY <1>8, ExecuteInv, EraseFailsInv
<1>9. CASE PowerCut
  BY <1>9, PowerCutInv
<1>10. CASE UNCHANGED vars
  <2>1. /\ nand' = nand /\ ram' = ram /\ ops' = ops /\ phase' = phase /\ worn' = worn
        /\ savedSinceRemake' = savedSinceRemake /\ saving' = saving /\ torn' = torn
    BY <1>10 DEF vars
  <2>2. Types /\ \A d \in Dies : Die(d)
    BY InvIs
  <2>3. Types'
    BY <2>1, <2>2 DEF Types
  <2>4. ASSUME NEW d \in Dies PROVE Die(d)'
    BY <2>1, <2>2, OtherDie
  <2>5. (Types /\ \A d \in Dies : Die(d))'
    BY <2>3, <2>4
  <2> QED
    BY <2>5, InvIs, PTL
<1> QED
  BY <1>1, <1>2, <1>3, <1>4, <1>5, <1>6, <1>7, <1>8, <1>9, <1>10 DEF Next

(***************************************************************************)
(* Theorems                                                                *)
(***************************************************************************)

LEMMA InvAlways == Spec => []Inv
<1>1. Inv /\ [Next]_vars => Inv'
  BY NextInv
<1>2. Init => Inv
  BY InitInv
<1> QED
  BY <1>1, <1>2, PTL DEF Spec

\* The map of a die in use.
LEMMA MapFacts ==
    ASSUME Inv, Mapped, NEW d \in Dies
    PROVE  \E b0 \in SUBSET Blocks :
              /\ RemapOK(ram.remap[d], ram.left[d], b0) /\ ram.vbad[d] = VBad(ram.remap[d], b0)
              /\ b0 \subseteq ram.bad[d] /\ BbtBlock \in b0 /\ nand[d].marks \subseteq b0
              /\ InUse(d) = {ram.remap[d][TblOf(v)] : v \in GoodVBlocks(d)}
              /\ InUse(d) \subseteq Blocks \ b0
<1>1. MapOK(nand[d], ram.bad[d], ram.remap[d], ram.left[d], ram.vbad[d], ops[d], phase)
  BY InvIs DEF Die
<1>2. MappedIn(phase)
  BY DEF Mapped, MappedIn
<1>3. PICK b0 \in SUBSET Blocks :
            /\ RemapOK(ram.remap[d], ram.left[d], b0) /\ ram.vbad[d] = VBad(ram.remap[d], b0)
            /\ b0 \subseteq ram.bad[d] /\ BbtBlock \in b0 /\ nand[d].marks \subseteq b0
  BY <1>1, <1>2 DEF MapOK
<1>4. GoodVBlocks(d) = VBlocks \ VBad(ram.remap[d], b0)
  BY <1>3 DEF GoodVBlocks
<1>5. InUse(d) = Behind(ram.remap[d], VBad(ram.remap[d], b0))
  BY <1>4 DEF InUse, Behind
<1>6. /\ InUse(d) = {ram.remap[d][TblOf(v)] : v \in VBlocks \ VBad(ram.remap[d], b0)}
      /\ InUse(d) \subseteq Blocks \ b0
  BY <1>3, <1>5, BehindIs
<1> QED
  BY <1>3, <1>4, <1>6

LEMMA InUseSoundFromInv == Inv => InUseSound
<1> SUFFICES ASSUME Inv, Mapped, NEW d \in Dies
             PROVE  /\ Cardinality(InUse(d)) = Cardinality(GoodVBlocks(d))
                    /\ BbtBlock \notin InUse(d)
                    /\ InUse(d) \cap nand[d].marks = {}
  BY DEF InUseSound
<1>1. PICK b0 \in SUBSET Blocks :
              /\ RemapOK(ram.remap[d], ram.left[d], b0) /\ ram.vbad[d] = VBad(ram.remap[d], b0)
              /\ b0 \subseteq ram.bad[d] /\ BbtBlock \in b0 /\ nand[d].marks \subseteq b0
              /\ InUse(d) = {ram.remap[d][TblOf(v)] : v \in GoodVBlocks(d)}
              /\ InUse(d) \subseteq Blocks \ b0
  BY MapFacts
<1> DEFINE S == GoodVBlocks(d)
           T == InUse(d)
           f == [v \in S |-> ram.remap[d][TblOf(v)]]
<1>2. S \in SUBSET VBlocks
  BY DEF GoodVBlocks
<1>3. IsFiniteSet(S)
  BY <1>2, VBlocksCount, FS_Subset
<1>4. f \in [S -> T] /\ \A t \in T : \E v \in S : f[v] = t
  BY <1>1
<1>5. \A v, w \in S : f[v] = f[w] => v = w
  BY <1>1, <1>2, MapInjective
<1> HIDE DEF S, T, f
<1>6. Cardinality(T) = Cardinality(S)
  BY <1>3, <1>4, <1>5, SameCount
<1> QED
  BY <1>1, <1>6 DEF S, T

LEMMA CapacityFromInv == Inv => CapacityExact
<1> SUFFICES ASSUME Inv PROVE TypeOK /\ CapacityBacked /\ ReservesUsedUp
  BY DEF CapacityExact
<1>1. CapacityBacked
  <2> SUFFICES ASSUME Mapped, NEW d \in Dies
               PROVE  Cardinality(GoodVBlocks(d))
                        >= 2 * UserPerLun - Max({ram.left[e] : e \in Dies})
    BY DEF CapacityBacked
  <2> DEFINE S == {ram.left[e] : e \in Dies}
  <2>1. ASSUME NEW e \in Dies
        PROVE  /\ ram.left[e] \in 0 .. 2 * UserPerLun
               /\ Cardinality(GoodVBlocks(e)) = 2 * UserPerLun - ram.left[e]
    <3>1. PICK b0 \in SUBSET Blocks :
                /\ RemapOK(ram.remap[e], ram.left[e], b0)
                /\ ram.vbad[e] = VBad(ram.remap[e], b0)
      BY MapFacts
    <3>2. GoodVBlocks(e) = VBlocks \ VBad(ram.remap[e], b0)
      BY <3>1 DEF GoodVBlocks
    <3>3. PICK G : G = VBlocks \ VBad(ram.remap[e], b0)
      OBVIOUS
    <3>4. Cardinality(G) = 2 * UserPerLun - ram.left[e] /\ ram.left[e] \in 0 .. 2 * UserPerLun
      BY <3>1, <3>3, BadCount
    <3> QED
      BY <3>2, <3>3, <3>4
  <2>2. S \subseteq 0 .. 2 * UserPerLun /\ ram.left[d] \in S
    BY <2>1
  <2> HIDE DEF S
  <2>3. \E x \in S : \A y \in S : x >= y
    <3> DEFINE R == {n \in 0 .. 2 * UserPerLun : \A y \in S : y <= n}
    <3>1. 2 * UserPerLun \in R
      BY <2>2, Sizes
    <3>2. R \subseteq Nat /\ R # {}
      BY <3>1, Sizes
    <3> HIDE DEF R
    <3>3. PICK n \in R : \A k \in R : n <= k
      BY <3>2, LeastNat
    <3>4. n \in 0 .. 2 * UserPerLun /\ \A y \in S : y <= n
      BY <3>3 DEF R
    <3>5. n \in S
      <4> SUFFICES ASSUME n \notin S PROVE FALSE
        OBVIOUS
      <4>1. \A y \in S : y \in Nat /\ y # n /\ y <= n
        BY <3>4, <2>2, Sizes
      <4>2. n # 0
        <5>1. PICK l \in S : l \in Nat /\ l # n /\ l <= n
          BY <4>1, <2>2
        <5> QED
          BY <5>1
      <4>3. n - 1 \in 0 .. 2 * UserPerLun /\ \A y \in S : y <= n - 1
        BY <4>1, <4>2, <3>4, Sizes
      <4>4. n - 1 \in R
        BY <4>3 DEF R
      <4> QED
        BY <4>4, <3>3, <3>4, Sizes
    <3> QED
      BY <3>4, <3>5, <2>2, Sizes
  <2>4. Max(S) \in S /\ \A y \in S : Max(S) >= y
    BY <2>3 DEF Max
  <2>5. Cardinality(GoodVBlocks(d)) >= 2 * UserPerLun - Max(S)
    <3>1. PICK x, l : x = Max(S) /\ l = ram.left[d]
      OBVIOUS
    <3>2. x \in S /\ l \in S /\ x >= l
      BY <2>2, <2>4, <3>1
    <3>3. x \in Int /\ l \in Int
      BY <2>2, <3>2, Sizes
    <3>4. Cardinality(GoodVBlocks(d)) = 2 * UserPerLun - l
      BY <2>1, <3>1
    <3> QED
      BY <3>1, <3>2, <3>3, <3>4, Sizes
  <2> QED
    BY <2>5 DEF S
<1>2. ReservesUsedUp
  <2> SUFFICES ASSUME Mapped, NEW d \in Dies, NEW v \in ram.vbad[d],
                      NEW r \in UserPerLun .. TotalPerLun - 1
               PROVE  (v \div UserPerLun) * TotalPerLun + r \in ram.bad[d] \cup InUse(d)
    BY DEF ReservesUsedUp
  <2>1. PICK b0 \in SUBSET Blocks :
              /\ RemapOK(ram.remap[d], ram.left[d], b0) /\ ram.vbad[d] = VBad(ram.remap[d], b0)
              /\ b0 \subseteq ram.bad[d]
              /\ InUse(d) = {ram.remap[d][TblOf(w)] : w \in GoodVBlocks(d)}
    BY MapFacts
  <2>2. PICK q : q = (v \div UserPerLun) * TotalPerLun + r
    OBVIOUS
  <2>3. q \in b0 \/ \E w \in VBlocks : ram.remap[d][TblOf(w)] = q
    BY <2>1, <2>2, NoReserve
  <2>4. CASE q \notin b0
    <3>1. PICK w \in VBlocks : ram.remap[d][TblOf(w)] = q
      BY <2>3, <2>4
    <3>2. w \in GoodVBlocks(d)
      BY <2>1, <2>4, <3>1 DEF GoodVBlocks, VBad
    <3> QED
      BY <2>1, <2>2, <3>1, <3>2
  <2> QED
    BY <2>1, <2>2, <2>4
<1> QED
  BY <1>1, <1>2 DEF Inv

LEMMA GivenUpFromInv == Inv => OnlyBadGivenUp
<1> SUFFICES ASSUME Inv, NEW d \in Dies \ torn
             PROVE  ram.bad[d] \subseteq nand[d].marks \cup worn[d] \cup {BbtBlock}
  BY DEF OnlyBadGivenUp
<1>1. Die(d)
  BY InvIs
<1> QED
  BY <1>1 DEF Die, DieOK, GivenUpOK

\* Whatever the marks, the failures and the power cuts, no two virtual blocks in use
\* share a block, and none has a marked block or the block of the table behind it.
THEOREM InUseSoundHolds == Spec => []InUseSound
  BY InvAlways, InUseSoundFromInv, PTL

\* The capacity reported is backed by good blocks on every die, and a virtual block
\* goes without one only when the reserved blocks of its LUN are used up.
THEOREM CapacityExactHolds == Spec => []CapacityExact
  BY InvAlways, CapacityFromInv, PTL

\* On a die whose table was never lost, only marked blocks and blocks on which a
\* request failed are given up: data are never taken for marks.
THEOREM OnlyBadGivenUpHolds == Spec => []OnlyBadGivenUp
  BY InvAlways, GivenUpFromInv, PTL

\* Only InitBlockMap ends the phase in which a new table is saved.
LEMMA MapsNext ==
    ASSUME [Next]_vars, phase = "saveNew", phase' = "eraseUser"
    PROVE  InitBlockMap
<1>1. ASSUME NEW x, PowerOn(x) PROVE FALSE
  BY <1>1 DEF PowerOn
<1>2. ASSUME RecoverBadBlockTable PROVE FALSE
  BY <1>2 DEF RecoverBadBlockTable
<1>3. ASSUME InitCurrentBlockOfDieMap PROVE FALSE
  BY <1>3 DEF InitCurrentBlockOfDieMap
<1>4. ASSUME NEW d, NEW v, Program(d, v) \/ EraseBlock(d, v) \/ FailInUse(d, v) PROVE FALSE
  BY <1>4 DEF Program, EraseBlock, FailInUse, InService
<1>5. ASSUME UpdateBadBlockTableForGrownBadBlock \/ Resume \/ PowerCut PROVE FALSE
  BY <1>5 DEF UpdateBadBlockTableForGrownBadBlock, Resume, PowerCut
<1>6. ASSUME NEW d, ExecuteNandReq(d) \/ EraseFails(d) PROVE FALSE
  BY <1>6 DEF ExecuteNandReq, EraseFails
<1>7. ~ UNCHANGED vars
  BY DEF vars
<1> QED
  BY <1>1, <1>2, <1>3, <1>4, <1>5, <1>6, <1>7 DEF Next

LEMMA GrownStep ==
    ASSUME Inv, [Next]_vars, phase = "saveNew", phase' = "eraseUser", NEW d \in Dies \ torn
    PROVE  InUse(d)' \cap savedSinceRemake[d] = {}
<1>1. InitBlockMap
  BY MapsNext
<1>2. Die(d) /\ d \in Dies
  BY InvIs
<1>3. savedSinceRemake[d] \subseteq ram.bad[d] \cup {BbtBlock}
  BY <1>2 DEF Die, DieOK, SavedOK
<1>4. PICK b, map : b = HideBbt(ram.bad[d]) /\ map = RemapBadBlock(b)
  OBVIOUS
<1>5. savedSinceRemake[d] \subseteq b
  BY <1>3, <1>4 DEF HideBbt
<1>6. ram'.remap[d] = map.remap /\ ram'.vbad[d] = VBad(map.remap, b)
  <2> DEFINE B(e) == HideBbt(ram.bad[e])
             M(e) == RemapBadBlock(B(e))
             V(e) == {v \in VBlocks : M(e).remap[Vblock2PblockOfTbs(v)] \in B(e)}
  <2>1. ram' = [ram EXCEPT !.bad   = [e \in Dies |-> B(e)],
                           !.remap = [e \in Dies |-> M(e).remap],
                           !.left  = [e \in Dies |-> M(e).left],
                           !.vbad  = [e \in Dies |-> V(e)]]
    BY <1>1 DEF InitBlockMap
  <2>2. M(d) = map /\ V(d) = VBad(map.remap, b)
    BY <1>4 DEF VBad, TblOf
  <2> HIDE DEF B, M, V
  <2>3. ram \in RamType
    BY InvIs DEF Types
  <2>4. ram'.remap = [e \in Dies |-> M(e).remap] /\ ram'.vbad = [e \in Dies |-> V(e)]
    BY <2>1, <2>3 DEF RamType
  <2> QED
    BY <2>2, <2>4
<1>7. InUse(d)' = Behind(map.remap, VBad(map.remap, b))
  BY <1>6 DEF InUse, GoodVBlocks, Behind
<1>8. RemapOK(map.remap, map.left, b)
  BY <1>4, RemapIs
<1>9. Behind(map.remap, VBad(map.remap, b)) \subseteq Blocks \ b
  BY <1>8, BehindIs
<1> QED
  BY <1>5, <1>7, <1>9

\* A block that had gone bad when a shutdown built the table is in use after no start
\* that follows the completed save, although requests of the host go on and fail while
\* the table is saved: until the operator has the table re-made ('X'), and on a die
\* whose table was never lost while it was rewritten.
THEOREM GrownStaysOutHolds == Spec => GrownStaysOut
<1>1. Inv /\ [Next]_vars
        => [phase = "saveNew" /\ phase' = "eraseUser"
             => \A d \in Dies \ torn : InUse(d)' \cap savedSinceRemake[d] = {}]_vars
  BY GrownStep
<1> QED
  BY <1>1, InvAlways, PTL DEF Spec, GrownStaysOut
=============================================================================
