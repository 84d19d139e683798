-------------------------- MODULE CalculationProofs --------------------------
(***************************************************************************)
(* Proofs about the calculations that decide a verdict, for every input of *)
(* their types, where TLC has tried those around each boundary.            *)
(***************************************************************************)
EXTENDS Calculations, FoldLemmas, SequenceTheorems

-----------------------------------------------------------------------------
(* Positions: the elements of a set of numbers, counted and in order.      *)

(* How many elements of S there are up to k.                               *)
UpTo(S, k) == Cardinality({i \in S : i <= k})

LEMMA UpToSteps ==
    ASSUME NEW n \in Nat, NEW S \in SUBSET (1 .. n)
    PROVE  /\ IsFiniteSet(S) /\ Cardinality(S) \in Nat
           /\ \A k \in Nat : UpTo(S, k) \in Nat
           /\ UpTo(S, 0) = 0 /\ UpTo(S, n) = Cardinality(S)
           /\ \A k \in Nat : UpTo(S, k + 1) = IF k + 1 \in S THEN UpTo(S, k) + 1
                                              ELSE UpTo(S, k)
<1>0. \A i \in S : i \in Nat /\ 1 <= i /\ i <= n
  OBVIOUS
<1>1. IsFiniteSet(1 .. n)
  <2>1. 1 \in Int /\ n \in Int
    OBVIOUS
  <2> QED BY ONLY <2>1, FS_Interval
<1>2. \A T \in SUBSET S : IsFiniteSet(T) /\ Cardinality(T) \in Nat
  <2> SUFFICES ASSUME NEW T \in SUBSET S
               PROVE  IsFiniteSet(T) /\ Cardinality(T) \in Nat
    OBVIOUS
  <2>1. T \in SUBSET (1 .. n)
    OBVIOUS
  <2> QED BY <1>1, <2>1, FS_Subset, FS_CardinalityType
<1>3. \A k \in Nat : UpTo(S, k) \in Nat
  <2> SUFFICES ASSUME NEW k \in Nat PROVE UpTo(S, k) \in Nat
    OBVIOUS
  <2>1. {i \in S : i <= k} \in SUBSET S
    OBVIOUS
  <2> QED BY <1>2, <2>1 DEF UpTo
<1>4. UpTo(S, 0) = 0
  <2>1. {i \in S : i <= 0} = {}
    <3>1. \A i \in S : ~(i <= 0)
      BY <1>0
    <3> QED BY <3>1, Zenon
  <2> QED BY <2>1, FS_EmptySet DEF UpTo
<1>5. UpTo(S, n) = Cardinality(S)
  <2>1. {i \in S : i <= n} = S
    BY <1>0, Zenon
  <2> QED BY <2>1 DEF UpTo
<1>6. ASSUME NEW k \in Nat
      PROVE  UpTo(S, k + 1) = IF k + 1 \in S THEN UpTo(S, k) + 1 ELSE UpTo(S, k)
  <2> DEFINE below == {i \in S : i <= k}
  <2>1. {i \in S : i <= k + 1} = IF k + 1 \in S THEN below \cup {k + 1} ELSE below
    <3>1. \A i \in S : i <= k + 1 <=> i <= k \/ i = k + 1
      BY <1>0
    <3>2. k + 1 <= k + 1
      OBVIOUS
    <3> QED BY <3>1, <3>2, Zenon
  <2>2. below \in SUBSET S /\ k + 1 \notin below
    OBVIOUS
  <2> HIDE DEF below
  <2>3. IsFiniteSet(below)
    BY <1>2, <2>2
  <2>4. Cardinality(below \cup {k + 1}) = Cardinality(below) + 1
    BY <2>2, <2>3, FS_AddElement
  <2>5. CASE k + 1 \in S
    <3>1. UpTo(S, k + 1) = Cardinality(below \cup {k + 1})
      BY <2>1, <2>5 DEF UpTo
    <3> QED BY <2>4, <2>5, <3>1 DEF UpTo, below
  <2>6. CASE k + 1 \notin S
    BY <2>1, <2>6 DEF UpTo, below
  <2> QED BY <2>5, <2>6
<1>7. IsFiniteSet(S) /\ Cardinality(S) \in Nat
  BY <1>2
<1> QED BY <1>3, <1>4, <1>5, <1>6, <1>7

(* Each count is reached at exactly one element.                           *)
LEMMA CountIsReachedOnce ==
    ASSUME NEW n \in Nat, NEW S \in SUBSET (1 .. n)
    PROVE  /\ \A j \in 1 .. Cardinality(S) : \E k \in S : UpTo(S, k) = j
           /\ \A k \in S : UpTo(S, k) \in 1 .. Cardinality(S)
           /\ \A k, l \in S : UpTo(S, k) = UpTo(S, l) => k = l
<1> DEFINE c(k) == UpTo(S, k)
<1>1. /\ Cardinality(S) \in Nat
      /\ \A k \in Nat : c(k) \in Nat
      /\ c(0) = 0 /\ c(n) = Cardinality(S)
      /\ \A k \in Nat : c(k + 1) = IF k + 1 \in S THEN c(k) + 1 ELSE c(k)
  BY UpToSteps
<1> HIDE DEF c
<1>2. \A k, l \in Nat : k <= l => c(k) <= c(l)
  <2> SUFFICES ASSUME NEW k \in Nat, NEW l \in Nat, k <= l, ~(c(k) <= c(l))
               PROVE  FALSE
    OBVIOUS
  <2> DEFINE worse == {m \in Nat : k <= m /\ ~(c(k) <= c(m))}
  <2>1. PICK m \in worse : \A o \in worse : m <= o
    <3>1. worse \in SUBSET Nat /\ worse # {}
      OBVIOUS
    <3> QED BY <3>1, LeastNatural
  <2>2. /\ m \in Nat /\ k <= m /\ m # k /\ m - 1 \in Nat /\ k <= m - 1
        /\ (m - 1) + 1 = m
    BY <1>1, <2>1
  <2>3. c(k) <= c(m - 1)
    BY <2>1, <2>2
  <2>4. c(m) = IF m \in S THEN c(m - 1) + 1 ELSE c(m - 1)
    BY <1>1, <2>2
  <2>5. c(k) \in Nat /\ c(m) \in Nat /\ c(m - 1) \in Nat
    BY <1>1, <2>2
  <2>6. c(k) <= c(m)
    BY <2>3, <2>4, <2>5
  <2> QED BY <2>1, <2>6
<1>3. ASSUME NEW k \in S
      PROVE  /\ k \in Nat /\ k - 1 \in Nat /\ k <= n
             /\ c(k) = c(k - 1) + 1
             /\ c(k) \in Nat /\ c(k - 1) \in Nat
  <2>1. k \in Nat /\ k - 1 \in Nat /\ k <= n /\ (k - 1) + 1 = k
    OBVIOUS
  <2>2. c((k - 1) + 1) = c(k - 1) + 1
    BY <1>1, <2>1
  <2> QED BY <1>1, <2>1, <2>2
<1>4. ASSUME NEW j \in 1 .. Cardinality(S) PROVE \E k \in S : c(k) = j
  <2> DEFINE J == {k \in Nat : j <= c(k)}
  <2>1. J \in SUBSET Nat /\ n \in J
    BY <1>1
  <2>2. PICK m \in J : \A k \in J : m <= k
    BY <2>1, LeastNatural
  <2>3. m \in Nat /\ m # 0 /\ j <= c(m)
    BY <1>1, <2>2
  <2>4. m - 1 \in Nat /\ (m - 1) + 1 = m /\ ~(j <= c(m - 1))
    BY <2>2, <2>3
  <2>5. c(m) = IF m \in S THEN c(m - 1) + 1 ELSE c(m - 1)
    BY <1>1, <2>4
  <2>6. c(m - 1) \in Nat /\ c(m) \in Nat /\ j \in Nat
    BY <1>1, <2>3, <2>4
  <2> QED BY <2>3, <2>4, <2>5, <2>6
<1>5. \A k \in S : c(k) \in 1 .. Cardinality(S)
  BY <1>1, <1>2, <1>3
<1>6. ASSUME NEW k \in S, NEW l \in S, k < l PROVE c(k) < c(l)
  <2>1. k <= l - 1
    BY <1>3, <1>6
  <2>2. c(k) <= c(l - 1)
    BY <1>2, <1>3, <2>1
  <2> QED BY <1>3, <2>2
<1>7. \A k, l \in S : c(k) = c(l) => k = l
  <2> SUFFICES ASSUME NEW k \in S, NEW l \in S, c(k) = c(l) PROVE k = l
    OBVIOUS
  <2> QED BY <1>3, <1>6
<1> QED BY <1>4, <1>5, <1>7 DEF c

LEMMA UpToIsBounded ==
    ASSUME NEW n \in Nat, NEW S \in SUBSET (1 .. n), NEW k
    PROVE  UpTo(S, k) <= Cardinality(S)
<1>1. IsFiniteSet(S)
  BY UpToSteps
<1>2. {i \in S : i <= k} \in SUBSET S
  OBVIOUS
<1> QED BY <1>1, <1>2, FS_Subset DEF UpTo

(* So they are in order: the j-th is the one at which the count is j.      *)
LEMMA InOrderIs ==
    ASSUME NEW n \in Nat, NEW S \in SUBSET (1 .. n)
    PROVE  /\ Cardinality(S) \in Nat /\ DOMAIN InOrder(S) = 1 .. Cardinality(S)
           /\ InOrder(S) \in Seq(S)
           /\ \A j \in 1 .. Cardinality(S) :
                InOrder(S)[j] \in S /\ UpTo(S, InOrder(S)[j]) = j
           /\ \A k \in S : /\ UpTo(S, k) \in 1 .. Cardinality(S)
                           /\ InOrder(S)[UpTo(S, k)] = k
<1>1. Cardinality(S) \in Nat
  BY UpToSteps
<1>2. /\ DOMAIN InOrder(S) = 1 .. Cardinality(S)
      /\ \A j \in 1 .. Cardinality(S) :
            InOrder(S)[j] = CHOOSE k \in S : UpTo(S, k) = j
  BY DEF InOrder, UpTo
<1>3. \A j \in 1 .. Cardinality(S) : InOrder(S)[j] \in S /\ UpTo(S, InOrder(S)[j]) = j
  <2>1. \A j \in 1 .. Cardinality(S) : \E k \in S : UpTo(S, k) = j
    BY CountIsReachedOnce
  <2> QED BY ONLY <1>2, <2>1
<1>4. ASSUME NEW k \in S
      PROVE  UpTo(S, k) \in 1 .. Cardinality(S) /\ InOrder(S)[UpTo(S, k)] = k
  <2>1. UpTo(S, k) \in 1 .. Cardinality(S)
    BY CountIsReachedOnce
  <2>2. InOrder(S)[UpTo(S, k)] \in S /\ UpTo(S, InOrder(S)[UpTo(S, k)]) = UpTo(S, k)
    BY <1>3, <2>1
  <2> QED BY <2>1, <2>2, CountIsReachedOnce
<1>5. InOrder(S) \in Seq(S)
  <2>1. InOrder(S) = [j \in 1 .. Cardinality(S) |-> InOrder(S)[j]]
    BY DEF InOrder
  <2> QED BY <1>1, <1>3, <2>1
<1> QED BY <1>1, <1>2, <1>3, <1>4, <1>5

(* As many places hold a member of a part of S as the part has members.    *)
LEMMA InOrderCounts ==
    ASSUME NEW n \in Nat, NEW S \in SUBSET (1 .. n), NEW T \in SUBSET S
    PROVE  Cardinality({j \in 1 .. Cardinality(S) : InOrder(S)[j] \in T}) = Cardinality(T)
<1> DEFINE m == Cardinality(S)
           held == {j \in 1 .. m : InOrder(S)[j] \in T}
           f == [j \in held |-> InOrder(S)[j]]
<1>1. /\ m \in Nat
      /\ \A j \in 1 .. m : InOrder(S)[j] \in S /\ UpTo(S, InOrder(S)[j]) = j
      /\ \A k \in S : UpTo(S, k) \in 1 .. m /\ InOrder(S)[UpTo(S, k)] = k
  BY InOrderIs
<1>2. IsFiniteSet(held)
  <2>1. held \in SUBSET (1 .. m)
    OBVIOUS
  <2> HIDE DEF held, m
  <2> QED BY <1>1, <2>1, UpToSteps
<1>3. f \in [held -> T]
  OBVIOUS
<1>4. \A i, j \in held : f[i] = f[j] => i = j
  BY <1>1
<1>5. \A k \in T : \E j \in held : f[j] = k
  <2> SUFFICES ASSUME NEW k \in T PROVE \E j \in held : f[j] = k
    OBVIOUS
  <2>1. UpTo(S, k) \in held
    BY <1>1
  <2> QED BY <1>1, <2>1
<1> HIDE DEF f, held
<1>6. f \in Bijection(held, T)
  BY <1>3, <1>4, <1>5 DEF Bijection, Injection, Surjection, IsInjective
<1>7. ExistsBijection(held, T)
  BY <1>6 DEF ExistsBijection
<1> QED BY <1>2, <1>7, FS_Bijection DEF held, m

(* The numbers up to n are in order as they are.                           *)
LEMMA IntervalInOrder ==
    ASSUME NEW n \in Nat
    PROVE  Cardinality(1 .. n) = n /\ \A k \in 1 .. n : InOrder(1 .. n)[k] = k
<1> DEFINE S == 1 .. n
<1>1. S \in SUBSET (1 .. n)
  OBVIOUS
<1>2. ASSUME NEW k \in Nat PROVE k <= n => UpTo(S, k) = k
  <2> DEFINE bad == {m \in Nat : m <= n /\ UpTo(S, m) # m}
  <2> SUFFICES ASSUME bad # {} PROVE FALSE
    OBVIOUS
  <2>1. PICK m \in bad : \A l \in bad : m <= l
    <3>1. bad \in SUBSET Nat
      OBVIOUS
    <3> QED BY <3>1, LeastNatural
  <2>2. /\ UpTo(S, 0) = 0
        /\ \A i \in Nat : UpTo(S, i + 1) = IF i + 1 \in S THEN UpTo(S, i) + 1
                                           ELSE UpTo(S, i)
    BY <1>1, UpToSteps
  <2>0. UpTo(S, 0) = 0
    BY <2>2
  <2>3. m # 0 /\ m - 1 \in Nat /\ (m - 1) + 1 = m /\ m \in S /\ m - 1 <= n
    BY <2>0, <2>1
  <2>4. UpTo(S, m - 1) = m - 1
    BY <2>1, <2>3
  <2>5. UpTo(S, (m - 1) + 1) = UpTo(S, m - 1) + 1
    BY <2>2, <2>3
  <2> QED BY <2>1, <2>3, <2>4, <2>5
<1>3. Cardinality(S) = n
  <2>1. UpTo(S, n) = Cardinality(S)
    BY <1>1, UpToSteps
  <2> QED BY <1>2, <2>1
<1>4. \A k \in S : InOrder(S)[UpTo(S, k)] = k
  BY <1>1, InOrderIs
<1> QED BY <1>2, <1>3, <1>4

(* The largest of some numbers is one of them.                             *)
LEMMA MaxIsElement ==
    ASSUME NEW n \in Nat, NEW s \in SUBSET (1 .. n), s # {}
    PROVE  Max(s) \in s
<1> DEFINE below == {n - k : k \in s}
<1>1. \A k \in s : k \in Nat /\ k <= n
  OBVIOUS
<1>2. below \in SUBSET Nat /\ below # {}
  <2>1. \A k \in s : n - k \in Nat
    BY <1>1
  <2>2. PICK k : k \in s
    OBVIOUS
  <2>3. n - k \in below
    BY <2>2
  <2> QED BY <2>1, <2>3
<1>3. PICK m \in below : \A k \in below : m <= k
  BY <1>2, LeastNatural
<1>4. PICK k \in s : m = n - k
  BY <1>3
<1>5. ASSUME NEW i \in s PROVE k >= i
  <2>1. n - k <= n - i
    BY <1>3, <1>4
  <2> QED BY <1>1, <2>1
<1> QED BY <1>5 DEF Max

-----------------------------------------------------------------------------
(* Folds of sequences, from left to right.                                 *)

(* What holds of 0 and of each number after one of which it holds, holds   *)
(* of the numbers up to n.                                                 *)
LEMMA CountingUp ==
    ASSUME NEW n \in Nat, NEW A, 0 \in A, \A k \in 1 .. n : k - 1 \in A => k \in A
    PROVE  \A k \in 0 .. n : k \in A
<1> DEFINE bad == {k \in 0 .. n : k \notin A}
<1> SUFFICES ASSUME bad # {} PROVE FALSE
  OBVIOUS
<1>1. PICK m \in bad : \A k \in bad : m <= k
  <2>1. bad \in SUBSET Nat
    OBVIOUS
  <2> QED BY <2>1, LeastNatural
<1>2. m \in 1 .. n /\ m - 1 \in 0 .. n /\ ~ (m <= m - 1)
  BY <1>1
<1> QED BY <1>1, <1>2

LEMMA MaxOfPrefix ==
    ASSUME NEW n \in Nat, NEW k \in 1 .. n
    PROVE  /\ Max(1 .. k) = k
           /\ 1 .. k \in SUBSET (1 .. n) /\ 1 .. k # {}
           /\ (1 .. k) \ {k} = 1 .. (k - 1)
<1>1. k \in Nat /\ k \in 1 .. k /\ 1 .. k \in SUBSET (1 .. n)
  OBVIOUS
<1>2. \A i \in 1 .. k : k >= i /\ (i >= k => i = k)
  OBVIOUS
<1>3. Max(1 .. k) = k
  <2>1. \A x \in 1 .. k : (\A i \in 1 .. k : x >= i) <=> x = k
    BY <1>1, <1>2
  <2> QED BY <1>1, <2>1 DEF Max
<1>4. (1 .. k) \ {k} = 1 .. (k - 1)
  OBVIOUS
<1> QED BY <1>1, <1>3, <1>4

(* FoldLeft is a function of the sets of positions, the last taken first;  *)
(* its value at the first k positions follows from that at the first k-1.  *)
PositionSets(n) == SUBSET (1 .. n)

FoldsLeft(g, base, op, s, n) ==
    g = [t \in SUBSET (1 .. n) |-> IF t = {} THEN base
                                  ELSE op[s[Max(t)]][g[t \ {Max(t)}]]]

RunsOver(g, base, op, s, n) ==
    g[1 .. 0] = base /\ \A k \in 1 .. n : g[1 .. k] = op[s[k]][g[1 .. (k - 1)]]

RunsUp(f, base, op, s, n) == f[0] = base /\ \A k \in 1 .. n : f[k] = op[s[k]][f[k - 1]]

LEMMA LeftFoldsExist ==
    ASSUME NEW n \in Nat, NEW V, NEW W, NEW base \in W,
           NEW op \in [V -> [W -> W]], NEW s \in [1 .. n -> V]
    PROVE  \E g \in [PositionSets(n) -> W] :
             FoldsLeft(g, base, op, s, n) /\ RunsOver(g, base, op, s, n)
<1> DEFINE S == 1 .. n
           first == [t \in SUBSET S |-> Max(t)]
<1>1. Takes(first, S) /\ \A t \in SUBSET S : first[t] = Max(t)
  BY MaxIsElement DEF Takes
<1>2. IsFiniteSet(S)
  BY UpToSteps
<1> HIDE DEF first
<1>3. PICK g \in [SUBSET S -> W] : Folding(g, base, op, s, first, S)
  BY <1>1, <1>2, FoldsExist
<1>4. \A t \in SUBSET S : g[t] = IF t = {} THEN base
                                 ELSE op[s[Max(t)]][g[t \ {Max(t)}]]
  BY <1>1, <1>3 DEF Folding
<1>5. FoldsLeft(g, base, op, s, n)
  BY <1>3, <1>4 DEF FoldsLeft
<1>6. g[1 .. 0] = base
  <2>1. 1 .. 0 = {}
    OBVIOUS
  <2> QED BY <1>4, <2>1
<1>7. \A k \in 1 .. n : g[1 .. k] = op[s[k]][g[1 .. (k - 1)]]
  BY <1>4, MaxOfPrefix
<1>8. RunsOver(g, base, op, s, n)
  BY <1>6, <1>7 DEF RunsOver
<1> QED BY <1>5, <1>8 DEF PositionSets

(* The values a fold passes through.                                       *)
LEMMA RunsExist ==
    ASSUME NEW n \in Nat, NEW V, NEW W, NEW base \in W,
           NEW op \in [V -> [W -> W]], NEW s \in [1 .. n -> V]
    PROVE  \E f \in [0 .. n -> W] : RunsUp(f, base, op, s, n)
<1>1. PICK g \in [PositionSets(n) -> W] :
         FoldsLeft(g, base, op, s, n) /\ RunsOver(g, base, op, s, n)
  BY LeftFoldsExist
<1>2. \A k \in 0 .. n : 1 .. k \in PositionSets(n)
  BY DEF PositionSets
<1> DEFINE f == [k \in 0 .. n |-> g[1 .. k]]
<1>3. f \in [0 .. n -> W]
  BY <1>2
<1>4. 0 \in 0 .. n /\ \A k \in 1 .. n : k \in 0 .. n /\ k - 1 \in 0 .. n
  OBVIOUS
<1>5. RunsUp(f, base, op, s, n)
  BY <1>1, <1>4 DEF RunsUp, RunsOver
<1> QED BY <1>3, <1>5

(* Sequences put end to end, one after the other.                          *)
Concatenates(f, parts) ==
    f[0] = <<>> /\ \A k \in 1 .. Len(parts) : f[k] = f[k - 1] \o parts[k]

LEMMA FlattenedRuns ==
    ASSUME NEW C, NEW parts \in Seq(Seq(C))
    PROVE  \E f \in [0 .. Len(parts) -> Seq(C)] :
             Concatenates(f, parts) /\ FlattenSeq(parts) = f[Len(parts)]
<1> DEFINE n == Len(parts)
           join == [s \in Seq(C) |-> [t \in Seq(C) |-> t \o s]]
           up(h) == h = [i \in 1 .. n |-> IF i = 1 THEN parts[i] ELSE h[i - 1] \o parts[i]]
<1>1. /\ n \in Nat /\ parts \in [1 .. n -> Seq(C)] /\ <<>> \in Seq(C)
      /\ \A k \in 1 .. n : parts[k] \in Seq(C)
      /\ n = 0 => parts = <<>>
  BY LenProperties, EmptySeq
<1> HIDE DEF n
<1>2. join \in [Seq(C) -> [Seq(C) -> Seq(C)]] /\ \A s, t \in Seq(C) : join[s][t] = t \o s
  OBVIOUS
<1> HIDE DEF join
<1>3. PICK f \in [0 .. n -> Seq(C)] : RunsUp(f, <<>>, join, parts, n)
  BY <1>1, <1>2, RunsExist
<1>4. f[0] = <<>> /\ \A k \in 1 .. n : /\ f[k - 1] \in Seq(C) /\ f[k] \in Seq(C)
                                       /\ f[k] = f[k - 1] \o parts[k]
  <2>1. \A k \in 1 .. n : f[k - 1] \in Seq(C) /\ f[k] \in Seq(C)
    BY <1>1
  <2> QED BY <1>1, <1>2, <1>3, <2>1 DEF RunsUp
<1>5. CASE n = 0
  <2>1. FlattenSeq(parts) = parts
    BY <1>5 DEF FlattenSeq, n
  <2> QED BY <1>1, <1>4, <1>5, <2>1 DEF Concatenates, n
<1>6. CASE n # 0
  <2> DEFINE h == [i \in 1 .. n |-> f[i]]
  <2>1. 1 \in 1 .. n /\ f[1] = parts[1]
    <3>1. 1 \in 1 .. n /\ 1 - 1 = 0
      BY <1>1, <1>6
    <3>2. f[1] = <<>> \o parts[1]
      BY <1>4, <3>1
    <3> QED BY <1>1, <3>1, <3>2
  <2>2. up(h)
    <3>1. ASSUME NEW i \in 1 .. n
          PROVE  h[i] = IF i = 1 THEN parts[i] ELSE h[i - 1] \o parts[i]
      <4>1. i # 1 => i - 1 \in 1 .. n
        BY <1>1
      <4> QED BY <1>4, <2>1, <4>1
    <3> HIDE DEF h
    <3>2. h = [i \in 1 .. n |-> h[i]]
      BY DEF h
    <3> QED BY <3>1, <3>2
  <2>3. PICK g : up(g) /\ FlattenSeq(parts) = g[n]
    <3>1. Len(parts) # 0
      BY <1>6 DEF n
    <3>2. \E g : up(g) /\ FlattenSeq(parts) = g[n]
      BY <2>2, <3>1 DEF FlattenSeq, n
    <3> QED BY <3>2
  <2>4. \A i \in 1 .. n : g[i] = IF i = 1 THEN parts[i] ELSE g[i - 1] \o parts[i]
    BY <2>3
  <2> HIDE DEF up, h
  <2> DEFINE A == {0} \cup {k \in 1 .. n : g[k] = f[k]}
  <2>5. ASSUME NEW k \in 1 .. n, k - 1 \in A PROVE k \in A
    <3>1. CASE k = 1
      BY <2>1, <2>4, <3>1
    <3>2. CASE k # 1
      <4>1. k - 1 # 0 /\ g[k - 1] = f[k - 1]
        BY <1>1, <2>5, <3>2
      <4> QED BY <1>4, <2>4, <3>2, <4>1
    <3> QED BY <3>1, <3>2
  <2>6. \A k \in 0 .. n : k \in A
    <3> HIDE DEF A
    <3>1. 0 \in A
      BY DEF A
    <3> QED BY <1>1, <2>5, <3>1, CountingUp
  <2>7. g[n] = f[n]
    BY <1>1, <1>6, <2>6
  <2> QED BY <1>4, <2>3, <2>7 DEF Concatenates, n
<1> QED BY <1>5, <1>6

-----------------------------------------------------------------------------
(* Functions of a number defined by an earlier value.                      *)

Recurs(f, base, op, down) ==
    \A k \in Nat : f[k] = IF k = 0 THEN base ELSE op[k][f[down[k]]]

LEMMA RecursionExists ==
    ASSUME NEW W, NEW base \in W, NEW op \in [Nat -> [W -> W]],
           NEW down \in [Nat -> Nat], \A k \in Nat : k # 0 => down[k] < k
    PROVE  \E f \in [Nat -> W] : Recurs(f, base, op, down)
<1> DEFINE next(f, k) == IF k = 0 THEN base ELSE op[k][f[down[k]]]
           part(f, n) == f \in [0 .. n -> W] /\ \A k \in 0 .. n : f[k] = next(f, k)
           B == {n \in Nat : ~ \E f : part(f, n)}
<1>1. \E f : part(f, 0)
  <2> DEFINE f == [k \in 0 .. 0 |-> base]
  <2>1. part(f, 0)
    OBVIOUS
  <2> QED BY <2>1
<1>2. ASSUME NEW n \in Nat, NEW f, part(f, n) PROVE \E g : part(g, n + 1)
  <2> DEFINE g == [k \in 0 .. n + 1 |-> next(f, k)]
  <2>1. \A k \in 0 .. n + 1 : k # 0 => down[k] \in 0 .. n
    OBVIOUS
  <2>2. \A k \in 0 .. n + 1 : g[k] = next(f, k) /\ next(f, k) \in W
    BY <1>2, <2>1
  <2>3. \A k \in 0 .. n : k \in 0 .. n + 1 /\ g[k] = f[k]
    BY <1>2, <2>2
  <2>4. \A k \in 0 .. n + 1 : next(g, k) = next(f, k)
    BY <2>1, <2>3
  <2>5. g \in [0 .. n + 1 -> W]
    BY <2>2
  <2> HIDE DEF g, next
  <2>6. part(g, n + 1)
    BY <2>2, <2>4, <2>5
  <2> QED BY <2>6
<1> HIDE DEF part
<1>3. B = {}
  <2> SUFFICES ASSUME B # {} PROVE FALSE
    OBVIOUS
  <2>1. PICK m \in B : \A k \in B : m <= k
    BY LeastNatural
  <2>0. m \in Nat /\ m # 0
    BY <1>1
  <2>2. m - 1 \in Nat /\ (m - 1) + 1 = m /\ ~ (m <= m - 1)
    BY <2>0
  <2>3. PICK f : part(f, m - 1)
    BY <2>1, <2>2
  <2>4. \E g : part(g, (m - 1) + 1)
    BY <1>2, <2>2, <2>3
  <2> QED BY <2>1, <2>2, <2>4
<1>4. ASSUME NEW n \in Nat, NEW m \in Nat, NEW f, NEW g, part(f, n), part(g, m)
      PROVE  \A k \in Nat : k <= n /\ k <= m => f[k] = g[k]
  <2> DEFINE bad == {k \in Nat : k <= n /\ k <= m /\ f[k] # g[k]}
  <2> SUFFICES ASSUME bad # {} PROVE FALSE
    OBVIOUS
  <2>1. PICK k \in bad : \A i \in bad : k <= i
    <3>1. bad \in SUBSET Nat
      OBVIOUS
    <3> QED BY <3>1, LeastNatural
  <2>2. k \in 0 .. n /\ k \in 0 .. m
    BY <2>1
  <2>3. f[k] = next(f, k) /\ g[k] = next(g, k)
    BY <1>4, <2>2 DEF part
  <2>4. k # 0 => f[down[k]] = g[down[k]]
    BY <2>1, <2>2
  <2> QED BY <2>1, <2>3, <2>4
<1> DEFINE p(k) == CHOOSE f : part(f, k)
           h == [k \in Nat |-> p(k)[k]]
<1>5. \A k \in Nat : part(p(k), k)
  BY <1>3
<1>6. ASSUME NEW k \in Nat PROVE h[k] \in W /\ h[k] = next(h, k)
  <2>1. k \in 0 .. k /\ p(k) \in [0 .. k -> W] /\ p(k)[k] = next(p(k), k)
    <3> HIDE DEF p, next
    <3>1. part(p(k), k) /\ k \in 0 .. k
      BY <1>5
    <3> QED BY <3>1 DEF part
  <2>2. h[k] = p(k)[k]
    OBVIOUS
  <2>3. k # 0 => h[down[k]] = p(k)[down[k]]
    <3> SUFFICES ASSUME k # 0 PROVE h[down[k]] = p(k)[down[k]]
      OBVIOUS
    <3>1. down[k] \in Nat /\ down[k] <= k /\ down[k] <= down[k]
      OBVIOUS
    <3>2. h[down[k]] = p(down[k])[down[k]]
      BY <3>1
    <3> HIDE DEF p, h
    <3> QED BY <1>4, <1>5, <3>1, <3>2
  <2> HIDE DEF p, h
  <2> QED BY <2>1, <2>2, <2>3
<1>7. h \in [Nat -> W]
  <2>1. h = [k \in Nat |-> h[k]]
    OBVIOUS
  <2> HIDE DEF h
  <2> QED BY <1>6, <2>1
<1> HIDE DEF h
<1> QED BY <1>6, <1>7 DEF Recurs

-----------------------------------------------------------------------------
(* A behaviour is a call and its answer.                                   *)

Calls ==
    UNION {Comparisons, Assessments, Requirements, HijriMonths, WrittenDates,
           Timelines, Files, Indexes, Lists, Discoveries, Profiles}

(* The answer, once there is one, is what the calculation of that name     *)
(* yields.                                                                 *)
AnswerInv ==
    /\ call \in Calls
    /\ Answered("compare") =>
            answer = LET old == ExtractClauses(call.old)
                         new == ExtractClauses(call.new)
                     IN  [pairs |-> MatchedPairs(old, new),
                          changes |-> CompareClauseSets(old, new)]
    /\ Answered("assess") =>
            answer = AssessChange(call.change_type, call.authority, call.clause,
                                  call.company, call.evidence)
    /\ Answered("match") => answer = CompareRequirement(call.requirement, call.passage)
    /\ Answered("hijri") => answer = [d \in 1..30 |-> HijriToGregorian(call.y, call.m, d)]
    /\ Answered("date") => answer = ParseDate(call.written)
    /\ Answered("status") =>
            answer = EvaluateTemporalStatus(call.publication, call.effective,
                        call.repealed, call.legal_status, call.grace, call.day)
    /\ Answered("extract") => answer = ExtractDocumentContent(call.kind, call.file)
    /\ Answered("nca") => answer = NCADiscover(call.sends, call.index, call.details)
    /\ Answered("saso") => answer = SASODiscover(call.sends, call.page)
    /\ Answered("classify") =>
            answer = ClassifyDiscoveredDocument(call.document, call.snapshot)
    /\ Answered("scope") => answer = ScopeOf(call.chunks)

LEMMA AnswersFollowCalls == CalculationSpec => []AnswerInv
<1>1. CalculationInit => AnswerInv
  BY DEF CalculationInit, AnswerInv, Answered, Calls
<1>2. AnswerInv /\ [CalculationNext]_calculationVars => AnswerInv'
  BY DEF AnswerInv, Answered, CalculationNext, calculationVars, Answer, Compare,
         Assess, Match, ConvertMonth, ReadDate, Evaluate, Extract, DiscoverNCA,
         DiscoverSASO, Sort, ScopeCompany
<1> QED BY <1>1, <1>2, PTL DEF CalculationSpec

(* What is assumed of the calls of one name holds of the call of that name.*)
LEMMA CallsOfTheirKind ==
    ASSUME call \in Calls
    PROVE  /\ call.fn = "compare" => call \in Comparisons
           /\ call.fn = "assess" => call \in Assessments
           /\ call.fn = "match" => call \in Requirements
           /\ call.fn = "hijri" => call \in HijriMonths
           /\ call.fn = "date" => call \in WrittenDates
           /\ call.fn = "status" => call \in Timelines
           /\ call.fn = "extract" => call \in Files
           /\ call.fn = "nca" => call \in Indexes
           /\ call.fn = "saso" => call \in Lists
           /\ call.fn = "scope" => call \in Profiles
BY CallAssumption DEF Calls

-----------------------------------------------------------------------------
(* The status of a regulation on a day.                                    *)

(* How far a regulation has come with a status.                            *)
Stage(s) == CASE s = "not_yet_published" -> 1
              [] s \in {"upcoming_requirement", "transition_period"} -> 2
              [] s = "currently_effective" -> 3
              [] s = "repealed" -> 4

(* Each stage is reached on a day, in terms of the dates alone.            *)
LEMMA StageOnADay ==
    ASSUME NEW publication \in Nat \cup {Never}, NEW effective \in Nat \cup {Never},
           NEW repealed \in Nat \cup {Never}, NEW legal_status, NEW grace,
           NEW day \in Nat
    PROVE  LET status == EvaluateTemporalStatus(publication, effective, repealed,
                                                legal_status, grace, day)
               over == legal_status = "repealed" \/ (repealed # Never /\ day >= repealed)
               published == publication = Never \/ day >= publication
               inEffect == effective = Never \/ day >= effective
           IN  Stage(status) = IF over THEN 4 ELSE IF ~published THEN 1
                               ELSE IF ~inEffect THEN 2 ELSE 3
BY DEF EvaluateTemporalStatus, Stage, Never

(* It binds between the later of publication and effect and the repeal.    *)
LEMMA ForceOnADay ==
    ASSUME NEW publication \in Nat \cup {Never}, NEW effective \in Nat \cup {Never},
           NEW repealed \in Nat \cup {Never}, NEW legal_status, NEW grace,
           NEW day \in Nat
    PROVE  IsApplicable(EvaluateTemporalStatus(publication, effective, repealed,
                                               legal_status, grace, day))
           <=> /\ legal_status # "repealed"
               /\ publication = Never \/ day >= publication
               /\ effective = Never \/ day >= effective
               /\ repealed = Never \/ day < repealed
BY DEF EvaluateTemporalStatus, IsApplicable, Never

(* On every timeline the status says exactly whether the regulation binds, *)
(* and no later day takes it back to an earlier stage.                     *)
THEOREM ForceNeverReturns == CalculationSpec => []ForceIsAnInterval
<1>1. AnswerInv => ForceIsAnInterval
  <2> SUFFICES ASSUME AnswerInv, Answered("status") PROVE ForceIsAnInterval
    BY DEF ForceIsAnInterval
  <2> DEFINE StatusOn(day) ==
                EvaluateTemporalStatus(call.publication, call.effective,
                        call.repealed, call.legal_status, call.grace, day)
  <2>1. call \in Timelines
    BY CallsOfTheirKind DEF AnswerInv, Answered
  <2>2. /\ call.day \in Nat /\ call.day + 1 \in Nat
        /\ call.publication \in Nat \cup {Never}
        /\ call.effective \in Nat \cup {Never}
        /\ call.repealed \in Nat \cup {Never}
    BY <2>1, TimelineAssumption
  <2>3. answer = StatusOn(call.day)
    BY DEF AnswerInv
  <2>4. IsApplicable(answer) = (/\ call.legal_status # "repealed"
                                /\ call.publication = Never \/ call.day >= call.publication
                                /\ call.effective = Never \/ call.day >= call.effective
                                /\ call.repealed = Never \/ call.day < call.repealed)
    <3>1. IsApplicable(StatusOn(call.day)) <=>
            /\ call.legal_status # "repealed"
            /\ call.publication = Never \/ call.day >= call.publication
            /\ call.effective = Never \/ call.day >= call.effective
            /\ call.repealed = Never \/ call.day < call.repealed
      <4> DEFINE publication == call.publication
                 effective == call.effective
                 repealed == call.repealed
                 day == call.day
      <4>1. /\ publication \in Nat \cup {Never} /\ effective \in Nat \cup {Never}
            /\ repealed \in Nat \cup {Never} /\ day \in Nat
        BY <2>2
      <4> HIDE DEF publication, effective, repealed, day
      <4>2. IsApplicable(EvaluateTemporalStatus(publication, effective, repealed,
                                                call.legal_status, call.grace, day))
            <=> /\ call.legal_status # "repealed"
                /\ publication = Never \/ day >= publication
                /\ effective = Never \/ day >= effective
                /\ repealed = Never \/ day < repealed
        BY ONLY <4>1, ForceOnADay
      <4> QED BY <4>2 DEF publication, effective, repealed, day
    <3> HIDE DEF StatusOn
    <3> QED BY <2>3, <3>1, Zenon DEF IsApplicable
  <2>5. Stage(StatusOn(call.day + 1)) >= Stage(answer)
    BY <2>2, <2>3, StageOnADay DEF Never
  <2> HIDE DEF StatusOn
  <2> QED BY <2>4, <2>5 DEF ForceIsAnInterval, Stage, StatusOn
<1> QED BY <1>1, AnswersFollowCalls, PTL

-----------------------------------------------------------------------------
(* Headcounts.                                                             *)

(* A quotient is the greatest integer whose multiple is not above.         *)
LEMMA CeilingIsLeast ==
    ASSUME NEW n \in Nat, NEW d \in Nat \ {0}, NEW t \in Nat
    PROVE  t >= Ceiling(n, d) <=> t * d >= n
<1> DEFINE q == (n + d - 1) \div d
           r == (n + d - 1) % d
<1>1. /\ q \in Int /\ r \in 0 .. d - 1
      /\ n + d - 1 = q * d + r
  OBVIOUS
<1> QED BY <1>1 DEF Ceiling

(* Counts satisfy a ratio exactly when they do as fractions, whatever the  *)
(* company's size.                                                         *)
THEOREM CountsMeetRatio == CalculationSpec => []HeadcountsMeetRatio
<1>1. AnswerInv => HeadcountsMeetRatio
  <2> SUFFICES ASSUME AnswerInv, Answered("match") PROVE HeadcountsMeetRatio
    BY DEF HeadcountsMeetRatio
  <2>1. call \in Requirements
    BY CallsOfTheirKind DEF AnswerInv, Answered
  <2> DEFINE ratio == call.requirement.ratio
             p == call.passage
  <2>2. /\ ratio \in Nat /\ p.ratio \in Nat
        /\ p.employees \in Nat \cup {Unstated}
        /\ p.trainees \in Nat \cup {Unstated}
    BY <2>1, RequirementAssumption
  <2>3. answer = CompareRequirement(call.requirement, p)
    BY DEF AnswerInv
  <2> QED BY <2>2, <2>3, CeilingIsLeast
          DEF HeadcountsMeetRatio, CompareRequirement, Verdict, RequiredCount, Related
<1> QED BY <1>1, AnswersFollowCalls, PTL

-----------------------------------------------------------------------------
(* Evidence.                                                               *)

EvidenceItem == [type : STRING, matches : STRING, about : STRING, value : Int,
                 valid : BOOLEAN, score : Nat]

(* Retrieval returns eligible items only, and all of them as long as there *)
(* are no more items than it may return.                                   *)
LEMMA RetrievedIsEligible ==
    ASSUME NEW clause, NEW evidence \in Seq(EvidenceItem)
    PROVE  /\ \A i \in Retrieve(clause, evidence) :
                    i \in ToSet(evidence) /\ Eligible(clause, i)
           /\ Len(evidence) <= MaxEvidence =>
                \A i \in ToSet(evidence) :
                    Eligible(clause, i) => i \in Retrieve(clause, evidence)
<1> DEFINE eligible == {k \in DOMAIN evidence : Eligible(clause, evidence[k])}
           Before(j, k) == \/ evidence[j].score > evidence[k].score
                           \/ evidence[j].score = evidence[k].score /\ j > k
           Ahead(k) == {j \in eligible : Before(j, k)}
<1>0. Retrieve(clause, evidence) =
        {evidence[k] : k \in {i \in eligible : Cardinality(Ahead(i)) < MaxEvidence}}
  BY DEF Retrieve
<1>1. DOMAIN evidence = 1 .. Len(evidence) /\ Len(evidence) \in Nat
  OBVIOUS
<1>2. ASSUME Len(evidence) <= MaxEvidence, NEW k \in eligible
      PROVE  Cardinality(Ahead(k)) < MaxEvidence
  <2>1. evidence[k].score \in Nat /\ k \in Nat
    <3>1. k \in 1 .. Len(evidence)
      BY <1>1
    <3>2. evidence[k] \in EvidenceItem
      BY <3>1
    <3> QED BY <3>1, <3>2 DEF EvidenceItem
  <2>2. Ahead(k) \subseteq (1 .. Len(evidence)) \ {k}
    BY <1>1, <2>1
  <2> HIDE DEF Ahead
  <2>3. /\ IsFiniteSet(1 .. Len(evidence))
        /\ Cardinality(1 .. Len(evidence)) = Len(evidence)
    <3>1. /\ 1 \in Int /\ Len(evidence) \in Int
          /\ (IF 1 > Len(evidence) THEN 0 ELSE Len(evidence) - 1 + 1) = Len(evidence)
      BY <1>1
    <3> QED BY ONLY <3>1, FS_Interval
  <2>4. /\ IsFiniteSet((1 .. Len(evidence)) \ {k})
        /\ Cardinality((1 .. Len(evidence)) \ {k}) = Len(evidence) - 1
    <3>1. k \in 1 .. Len(evidence)
      BY <1>1
    <3> QED BY <2>3, <3>1, FS_RemoveElement
  <2>5. IsFiniteSet(Ahead(k)) /\ Cardinality(Ahead(k)) <= Len(evidence) - 1
    BY <2>2, <2>4, FS_Subset
  <2>6. Cardinality(Ahead(k)) \in Nat
    BY <2>5, FS_CardinalityType
  <2> QED BY <1>1, <1>2, <2>5, <2>6, MaxEvidenceAssumption
<1> HIDE DEF Ahead
<1> QED BY <1>0, <1>2 DEF ToSet

(* The items a limit is held against are the measurements comparable with  *)
(* it, and all of those as long as retrieval returns all there is.         *)
LEMMA ComparedIsMeasured ==
    ASSUME NEW clause, clause.limit # NoLimit,
           NEW evidence \in Seq(EvidenceItem)
    PROVE  LET compared == Comparable(clause.limit, Retrieve(clause, evidence))
               measured == Measured(clause.limit, ToSet(evidence))
           IN  /\ compared \subseteq measured
               /\ Len(evidence) <= MaxEvidence => compared = measured
BY RetrievedIsEligible DEF Comparable, Measured, Eligible

(* A limit as the clause states it.                                        *)
IsLimit(limit) ==
    /\ limit.raw \in {"<=", "not exceeding", "maximum", "<", ">=", "minimum", ">"}
    /\ limit.value \in Int

(* A measurement is a gap exactly if the limit does not allow its value,   *)
(* whichever way the limit is worded.                                      *)
LEMMA GapIsBreach ==
    ASSUME NEW limit, IsLimit(limit), NEW m, m.value \in Int
    PROVE  IsGap(limit, m) <=> ~Allowed(limit, m.value)
<1>0. \A x, y \in Int : (x > y <=> ~(x <= y)) /\ (x < y <=> ~(x >= y))
  OBVIOUS
<1>t. limit.value \in Int
  BY DEF IsLimit
<1>1. CASE limit.raw \in {"<=", "not exceeding", "maximum"}
  <2>1. Operator(limit.raw) = "<="
    BY <1>1 DEF Operator
  <2>2. IsGap(limit, m) <=> m.value > limit.value
    BY <2>1, Zenon DEF IsGap
  <2>3. Allowed(limit, m.value) <=> m.value <= limit.value
    BY <1>1, Zenon DEF Allowed
  <2> QED BY <1>0, <1>t, <2>2, <2>3, Zenon
<1>2. CASE limit.raw \in {">=", "minimum"}
  <2>1. Operator(limit.raw) = ">="
    BY <1>2 DEF Operator
  <2>2. IsGap(limit, m) <=> m.value < limit.value
    BY <2>1, Zenon DEF IsGap
  <2>3. Allowed(limit, m.value) <=> m.value >= limit.value
    BY <1>2, Zenon DEF Allowed
  <2> QED BY <1>0, <1>t, <2>2, <2>3, Zenon
<1>3. CASE limit.raw \in {"<"}
  <2>1. Operator(limit.raw) = "<"
    BY <1>3 DEF Operator
  <2>2. IsGap(limit, m) <=> m.value >= limit.value
    BY <2>1, Zenon DEF IsGap
  <2>3. Allowed(limit, m.value) <=> m.value < limit.value
    BY <1>3, Zenon DEF Allowed
  <2> QED BY <1>0, <1>t, <2>2, <2>3, Zenon
<1>4. CASE limit.raw \in {">"}
  <2>1. Operator(limit.raw) = ">"
    BY <1>4 DEF Operator
  <2>2. IsGap(limit, m) <=> m.value <= limit.value
    BY <2>1, Zenon DEF IsGap
  <2>3. Allowed(limit, m.value) <=> m.value > limit.value
    BY <1>4, Zenon DEF Allowed
  <2> QED BY <1>0, <1>t, <2>2, <2>3, Zenon
<1> QED BY <1>1, <1>2, <1>3, <1>4 DEF IsLimit

(* What is assumed of a clause and of a company.                           *)
IsClause(clause) ==
    /\ clause.markers \subseteq {"must", "required", "prohibited", "may allow"}
    /\ clause.limit = NoLimit \/ IsLimit(clause.limit)

IsCompany(company) ==
    /\ company.inScope \in BOOLEAN /\ company.assets \in BOOLEAN
    /\ company.fact \in {"true", "false", "absent"}

(* An obligation is held against evidence exactly if the text binds and    *)
(* the company's scope is proven.                                          *)
LEMMA ConcernIsProven ==
    ASSUME NEW change_type, NEW authority, NEW clause, IsClause(clause),
           NEW company, IsCompany(company)
    PROVE  /\ Obligated(change_type, clause)
           /\ CheckApplicability(authority, clause, company) = "applicable"
           /\ Modality(clause.markers) # "permission_option"
           <=>
           /\ change_type \notin {"editorial", "deleted"}
           /\ "may allow" \notin clause.markers
           /\ \/ clause.markers # {}
              \/ change_type \in {"numeric_threshold", "deadline", "scope"}
           /\ ScopeProven(authority, clause.topic, company)
<1>1. Modality(clause.markers) = "unknown" <=> clause.markers = {}
  BY DEF Modality, IsClause
<1>2. Modality(clause.markers) = "permission_option" <=> "may allow" \in clause.markers
  BY DEF Modality
<1>3. ASSUME Modality(clause.markers) # "permission_option"
      PROVE  CheckApplicability(authority, clause, company) = "applicable"
             <=> ScopeProven(authority, clause.topic, company)
  <2>1. CASE authority \in {"NCA", "SASO"}
    <3>1. ScopeProven(authority, clause.topic, company) <=> company.inScope
      BY <2>1 DEF ScopeProven
    <3>2. CheckApplicability(authority, clause, company) = "applicable"
            <=> company.inScope
      BY <2>1 DEF CheckApplicability, IsCompany
    <3> QED BY <3>1, <3>2, Zenon
  <2>2. CASE authority \notin {"NCA", "SASO"} /\ clause.topic = "stationary"
    BY <2>2 DEF CheckApplicability, ScopeProven
  <2>3. CASE /\ authority \notin {"NCA", "SASO"}
             /\ clause.topic \in {"marine discharge", "publish"}
    BY <2>3 DEF CheckApplicability, ScopeProven, IsCompany
  <2>4. CASE /\ authority \notin {"NCA", "SASO"}
             /\ clause.topic \notin {"stationary", "marine discharge", "publish"}
    BY <1>3, <2>4 DEF CheckApplicability, ScopeProven
  <2> QED BY <2>1, <2>2, <2>3, <2>4
<1> QED BY <1>1, <1>2, <1>3 DEF Obligated

(* The verdict against measurements, in terms of the limit.                *)
LEMMA ComparedToLimit ==
    ASSUME NEW clause, IsLimit(clause.limit), clause.limit # NoLimit,
           NEW evidence \in Seq(EvidenceItem)
    PROVE  LET limit == clause.limit
               compared == Comparable(limit, Retrieve(clause, evidence))
               verdict == CompareMeasurements(limit, Retrieve(clause, evidence))
           IN  /\ verdict = "gap" <=> /\ ~Conflicting(compared)
                                      /\ \E m \in compared : ~Allowed(limit, m.value)
               /\ verdict = "supported_compliant" =>
                        /\ compared # {}
                        /\ \A m \in compared : Allowed(limit, m.value)
<1> DEFINE limit == clause.limit
           items == Retrieve(clause, evidence)
           compared == Comparable(limit, items)
<1>1. ASSUME NEW m \in compared PROVE m.value \in Int
  <2>1. m \in ToSet(evidence)
    BY RetrievedIsEligible DEF Comparable
  <2>2. m \in EvidenceItem
    BY <2>1 DEF ToSet
  <2> QED BY <2>2 DEF EvidenceItem
<1>2. ASSUME NEW m \in compared PROVE IsGap(limit, m) <=> ~Allowed(limit, m.value)
  BY <1>1, GapIsBreach
<1>3. /\ CompareMeasurements(limit, items) = "gap" <=>
            /\ compared # {} /\ ~Conflicting(compared)
            /\ \E m \in compared : IsGap(limit, m)
      /\ CompareMeasurements(limit, items) = "supported_compliant" =>
            compared # {} /\ \A m \in compared : ~IsGap(limit, m)
  BY DEF CompareMeasurements
<1> HIDE DEF items, compared
<1>4. (\E m \in compared : IsGap(limit, m)) <=>
            \E m \in compared : ~Allowed(limit, m.value)
  BY <1>2, Zenon
<1>5. (\A m \in compared : ~IsGap(limit, m)) =>
            \A m \in compared : Allowed(limit, m.value)
  BY <1>2, Zenon
<1> QED BY <1>3, <1>4, <1>5, Zenon DEF items, compared

-----------------------------------------------------------------------------
(* Verdicts and tasks.                                                     *)

(* An answer to an assessment, in terms of what it was computed from.      *)
LEMMA AssessmentOfCall ==
    ASSUME AnswerInv, Answered("assess")
    PROVE  /\ IsClause(call.clause) /\ IsCompany(call.company)
           /\ call.evidence \in Seq(EvidenceItem)
           /\ answer = AssessChange(call.change_type, call.authority, call.clause,
                                    call.company, call.evidence)
<1>1. call \in Assessments
  BY CallsOfTheirKind DEF AnswerInv, Answered
<1> QED BY <1>1, AssessmentAssumption
        DEF AnswerInv, IsClause, IsCompany, IsLimit, EvidenceItem

(* No limit is stated as the limits are.                                   *)
LEMMA NoLimitIsNone == ASSUME NEW limit, IsLimit(limit) PROVE limit # NoLimit
<1>1. NoLimit.raw = "none"
  BY DEF NoLimit
<1>2. limit.raw # "none"
  BY DEF IsLimit
<1> QED BY <1>1, <1>2

(* When the chain drafts a task, and when it finds compliance.             *)
LEMMA AssessChangeYields ==
    ASSUME NEW change_type, NEW authority, NEW clause, NEW company, NEW evidence
    PROVE  LET a == AssessChange(change_type, authority, clause, company, evidence)
               items == Retrieve(clause, evidence)
               scope == CheckApplicability(authority, clause, company)
               permitted == Modality(clause.markers) = "permission_option"
           IN  /\ a.due # 0 <=> /\ Obligated(change_type, clause)
                                /\ scope = "applicable" /\ ~permitted
                                /\ clause.limit # NoLimit
                                /\ CompareMeasurements(clause.limit, items) = "gap"
               /\ a.verdict = "supported_compliant" =>
                    \/ scope = "not_applicable"
                    \/ permitted
                    \/ /\ Obligated(change_type, clause)
                       /\ scope = "applicable" /\ ~permitted
                       /\ IF clause.limit # NoLimit
                          THEN CompareMeasurements(clause.limit, items)
                                    = "supported_compliant"
                          ELSE \E i \in items : i.type = "permission" /\ i.valid
<1> DEFINE items == Retrieve(clause, evidence)
           scope == CheckApplicability(authority, clause, company)
           verdict == AnalyzeGap(clause, scope, items)
           permitted == Modality(clause.markers) = "permission_option"
<1>1. scope \in {"applicable", "not_applicable", "unknown", "needs_review"}
  BY DEF CheckApplicability
<1>2. verdict = "gap" <=> /\ scope = "applicable" /\ ~permitted
                          /\ clause.limit # NoLimit
                          /\ CompareMeasurements(clause.limit, items) = "gap"
  BY <1>1 DEF AnalyzeGap
<1>3. verdict = "supported_compliant" =>
        \/ scope = "not_applicable"
        \/ permitted
        \/ /\ scope = "applicable" /\ ~permitted
           /\ IF clause.limit # NoLimit
              THEN CompareMeasurements(clause.limit, items) = "supported_compliant"
              ELSE \E i \in items : i.type = "permission" /\ i.valid
  BY <1>1 DEF AnalyzeGap
<1>4. DueDays(verdict, Priority(clause, verdict)) # 0 <=> verdict = "gap"
  BY DEF DueDays
<1> HIDE DEF items, scope, verdict, permitted
<1>5. AssessChange(change_type, authority, clause, company, evidence) =
        IF ~Obligated(change_type, clause) THEN [verdict |-> "none", due |-> 0]
        ELSE [verdict |-> verdict, due |-> DueDays(verdict, Priority(clause, verdict))]
  BY DEF AssessChange, items, scope, verdict
<1> QED BY <1>2, <1>3, <1>4, <1>5 DEF items, scope, permitted

(* A task answers a change that binds, on a company it is shown to concern,*)
(* and that some measurement breaks; and if nothing is left out and the    *)
(* measurements agree, such a change gets its task.                        *)
THEOREM TasksAnswerBreaches == CalculationSpec => []TasksAreWarranted
<1>1. AnswerInv => TasksAreWarranted
  <2> SUFFICES ASSUME AnswerInv, Answered("assess") PROVE TasksAreWarranted
    BY DEF TasksAreWarranted
  <2> DEFINE clause == call.clause
             limit == clause.limit
             measured == Measured(limit, ToSet(call.evidence))
             compared == Comparable(limit, Retrieve(clause, call.evidence))
             concerned == /\ call.change_type \notin {"editorial", "deleted"}
                          /\ "may allow" \notin clause.markers
                          /\ \/ clause.markers # {}
                             \/ call.change_type \in {"numeric_threshold", "deadline",
                                                      "scope"}
                          /\ ScopeProven(call.authority, clause.topic, call.company)
             broken == limit # NoLimit /\ \E m \in measured : ~Allowed(limit, m.value)
             agreeing == \A m, n \in measured : m.about = n.about => m.value = n.value
  <2>1. /\ IsClause(clause) /\ IsCompany(call.company)
        /\ call.evidence \in Seq(EvidenceItem)
        /\ answer = AssessChange(call.change_type, call.authority, clause,
                                 call.company, call.evidence)
    BY AssessmentOfCall
  <2>2. answer.due # 0 <=>
            /\ concerned /\ limit # NoLimit
            /\ CompareMeasurements(limit, Retrieve(clause, call.evidence)) = "gap"
    <3>1. answer.due # 0 <=>
            /\ Obligated(call.change_type, clause)
            /\ CheckApplicability(call.authority, clause, call.company) = "applicable"
            /\ Modality(clause.markers) # "permission_option"
            /\ limit # NoLimit
            /\ CompareMeasurements(limit, Retrieve(clause, call.evidence)) = "gap"
      BY <2>1, AssessChangeYields
    <3>2. /\ Obligated(call.change_type, clause)
          /\ CheckApplicability(call.authority, clause, call.company) = "applicable"
          /\ Modality(clause.markers) # "permission_option"
          <=> concerned
      BY <2>1, ConcernIsProven, Zenon
    <3> HIDE DEF concerned
    <3> QED BY <3>1, <3>2, Zenon
  <2>3. limit # NoLimit => IsLimit(limit)
    BY <2>1 DEF IsClause
  <2>4. limit # NoLimit =>
            /\ compared \subseteq measured
            /\ Len(call.evidence) <= MaxEvidence => compared = measured
    BY <2>1, ComparedIsMeasured
  <2>5. limit # NoLimit =>
            (CompareMeasurements(limit, Retrieve(clause, call.evidence)) = "gap"
                <=> /\ ~Conflicting(compared)
                    /\ \E m \in compared : ~Allowed(limit, m.value))
    BY <2>1, <2>3, ComparedToLimit
  <2>6. Conflicting(measured) <=> ~agreeing
    BY DEF Conflicting
  <2> HIDE DEF measured, compared, concerned, agreeing, limit
  <2>7. answer.due # 0 => concerned /\ broken
    BY <2>2, <2>4, <2>5
  <2>8. Len(call.evidence) <= MaxEvidence =>
            (answer.due # 0 <=> concerned /\ broken /\ agreeing)
    BY <2>2, <2>4, <2>5, <2>6
  <2>9. agreeing \in BOOLEAN /\ concerned \in BOOLEAN
    BY DEF agreeing, concerned
  <2>10. Len(call.evidence) <= MaxEvidence =>
            ((answer.due # 0) = (concerned /\ broken /\ agreeing))
    BY <2>8, Zenon
  <2> QED BY <2>7, <2>10, Zenon
          DEF TasksAreWarranted, measured, concerned, agreeing, limit
<1> QED BY <1>1, AnswersFollowCalls, PTL

(* Compliance is never found by default: it takes a recorded fact that the *)
(* change does not concern the company, an option, a valid permit, or      *)
(* measurements all of which the limit allows.                             *)
THEOREM ComplianceHasGrounds == CalculationSpec => []ComplianceIsShown
<1>1. AnswerInv => ComplianceIsShown
  <2> SUFFICES ASSUME AnswerInv, Answered("assess"),
                      answer.verdict = "supported_compliant"
               PROVE  ComplianceIsShown
    BY DEF ComplianceIsShown
  <2> DEFINE clause == call.clause
             limit == clause.limit
             items == Retrieve(clause, call.evidence)
             compared == Comparable(limit, items)
             measured == Measured(limit, items)
             scope == CheckApplicability(call.authority, clause, call.company)
  <2>1. /\ IsClause(clause) /\ IsCompany(call.company)
        /\ call.evidence \in Seq(EvidenceItem)
        /\ answer = AssessChange(call.change_type, call.authority, clause,
                                 call.company, call.evidence)
    BY AssessmentOfCall
  <2>2. CASE scope = "not_applicable"
    <3>1. call.company.fact = "false" /\ call.authority \notin {"NCA", "SASO"}
      BY <2>2 DEF CheckApplicability
    <3> QED BY <3>1 DEF ComplianceIsShown
  <2>3. CASE Modality(clause.markers) = "permission_option"
    BY <2>3 DEF Modality, ComplianceIsShown
  <2>4. CASE scope # "not_applicable" /\ Modality(clause.markers) # "permission_option"
    <3>1. /\ Obligated(call.change_type, clause)
          /\ scope = "applicable"
          /\ IF limit # NoLimit
             THEN CompareMeasurements(limit, items) = "supported_compliant"
             ELSE \E i \in items : i.type = "permission" /\ i.valid
      BY <2>1, <2>4, AssessChangeYields
    <3>2. ScopeProven(call.authority, clause.topic, call.company)
      <4>1. IsClause(clause) /\ IsCompany(call.company)
        BY <2>1
      <4>2. /\ Obligated(call.change_type, clause)
            /\ CheckApplicability(call.authority, clause, call.company) = "applicable"
            /\ Modality(clause.markers) # "permission_option"
        BY <2>4, <3>1
      <4> QED BY <4>1, <4>2, ConcernIsProven, Zenon
    <3>3. limit # NoLimit => measured # {} /\ \A m \in measured : Allowed(limit, m.value)
      <4>1. limit # NoLimit => measured = compared
        BY <2>1, RetrievedIsEligible DEF Measured, Comparable, Eligible
      <4>2. limit # NoLimit => IsLimit(limit)
        BY <2>1 DEF IsClause
      <4> QED BY <2>1, <3>1, <4>1, <4>2, ComparedToLimit
    <3> HIDE DEF measured
    <3> QED BY <3>1, <3>2, <3>3, Zenon DEF ComplianceIsShown, measured
  <2> QED BY <2>2, <2>3, <2>4
<1> QED BY <1>1, AnswersFollowCalls, PTL

-----------------------------------------------------------------------------
(* Applicability of discovered documents.                                  *)

(* How much a document is said to concern the company.                     *)
Concern(a) == CASE a.status = "not_applicable" -> 0 [] a.status = "needs_review" -> 1
             [] a.status = "potentially_applicable" -> 2
             [] a.status = "applicable" -> 3

(* The rules of an authority applied to the words a company's facts give.  *)
ClassifyWords(document, words) ==
    CASE document.authority = "NCA" -> ClassifyNCA(document.category, words)
      [] document.authority = "SASO" ->
            ClassifySASO(document.category, document.title, words)
      [] OTHER -> NeedsReview

(* More words never make a document concern the company less.              *)
LEMMA MoreWordsWeighMore ==
    ASSUME NEW document, NEW words, NEW fewer \in SUBSET words
    PROVE  Concern(ClassifyWords(document, fewer)) <= Concern(ClassifyWords(document, words))
<1>1. CASE document.authority = "NCA"
  BY <1>1 DEF ClassifyWords, ClassifyNCA, Concern, Discovered, NeedsReview
<1>2. CASE document.authority = "SASO"
  BY <1>2 DEF ClassifyWords, ClassifySASO, Concern, Discovered, NeedsReview
<1>3. CASE document.authority \notin {"NCA", "SASO"}
  BY <1>3 DEF ClassifyWords, Concern, Discovered, NeedsReview
<1> QED BY <1>1, <1>2, <1>3

(* Applicability takes a word, and what needs review has no priority yet.  *)
LEMMA ApplicableTakesWords ==
    ASSUME NEW document, NEW words
    PROVE  LET a == ClassifyWords(document, words)
           IN  /\ a.status = "applicable" => words # {}
               /\ a.priority = "pending_review" <=> a.status = "needs_review"
<1>1. CASE document.authority = "NCA"
  BY <1>1 DEF ClassifyWords, ClassifyNCA, Discovered, NeedsReview
<1>2. CASE document.authority = "SASO"
  BY <1>2 DEF ClassifyWords, ClassifySASO, Discovered, NeedsReview
<1>3. CASE document.authority \notin {"NCA", "SASO"}
  BY <1>3 DEF ClassifyWords, Discovered, NeedsReview
<1> QED BY <1>1, <1>2, <1>3

(* Only what the company affirms counts: a denied fact weighs as one left  *)
(* unsaid, and a fact more never makes a document concern it less.         *)
THEOREM OnlyAffirmedFactsCount == CalculationSpec => []FactsMustBeAffirmed
<1>1. AnswerInv => FactsMustBeAffirmed
  <2> SUFFICES ASSUME AnswerInv, Answered("classify") PROVE FactsMustBeAffirmed
    BY DEF FactsMustBeAffirmed
  <2> DEFINE Said(facts) == ClassifyDiscoveredDocument(call.document, facts)
             affirmed == {f \in call.snapshot : f.value # "false"}
  <2>1. answer = Said(call.snapshot)
    BY DEF AnswerInv
  <2>2. ASSUME NEW facts
        PROVE  Said(facts) = ClassifyWords(call.document, CompanyText(facts))
    BY DEF ClassifyDiscoveredDocument, ClassifyWords
  <2>3. CompanyText(affirmed) = CompanyText(call.snapshot)
    BY DEF CompanyText
  <2>4. \A f \in call.snapshot :
            CompanyText(call.snapshot \ {f}) \in SUBSET CompanyText(call.snapshot)
    BY DEF CompanyText
  <2>5. CompanyText(call.snapshot) # {} => \E f \in call.snapshot : f.value # "false"
    BY DEF CompanyText
  <2> HIDE DEF Said, affirmed
  <2>6. answer = Said(affirmed)
    BY <2>1, <2>2, <2>3
  <2>7. \A f \in call.snapshot : Concern(Said(call.snapshot \ {f})) <= Concern(answer)
    BY <2>1, <2>2, <2>4, MoreWordsWeighMore
  <2>8. answer.status = "applicable" => \E f \in call.snapshot : f.value # "false"
    BY <2>1, <2>2, <2>5, ApplicableTakesWords
  <2>9. answer.priority = "pending_review" <=> answer.status = "needs_review"
    BY <2>1, <2>2, ApplicableTakesWords
  <2>10. (answer.priority = "pending_review") = (answer.status = "needs_review")
    BY <2>9, Zenon
  <2> QED BY <2>6, <2>7, <2>8, <2>10, Zenon
          DEF FactsMustBeAffirmed, Concern, Said, affirmed
<1> QED BY <1>1, AnswersFollowCalls, PTL

-----------------------------------------------------------------------------
(* The listing of the NCA's controls.                                      *)

Candidate == [annex : BOOLEAN, titled : BOOLEAN, coded : BOOLEAN]

(* Among candidates there is a first of the best.                          *)
LEMMA PrimaryPdfIsBest ==
    ASSUME NEW candidates \in Seq(Candidate), candidates # <<>>
    PROVE  /\ PrimaryPdf(candidates) \in DOMAIN candidates
           /\ \A i \in DOMAIN candidates :
                    Score(candidates[i]) <= Score(candidates[PrimaryPdf(candidates)])
<1> DEFINE score(k) == Score(candidates[k])
           D == DOMAIN candidates
<1>1. /\ D = 1 .. Len(candidates) /\ Len(candidates) \in Nat /\ Len(candidates) # 0
      /\ \A k \in D : candidates[k] \in Candidate
  OBVIOUS
<1>2. \A k \in D : score(k) \in Int /\ score(k) <= 5
  <2> SUFFICES ASSUME NEW c \in Candidate PROVE Score(c) \in Int /\ Score(c) <= 5
    BY <1>1
  <2> QED BY DEF Score, Candidate
<1> HIDE DEF score
<1>3. PICK k \in D : \A i \in D : score(i) <= score(k)
  <2> DEFINE lags == {5 - score(i) : i \in D}
  <2>1. lags \in SUBSET Nat /\ lags # {}
    BY <1>1, <1>2
  <2>2. PICK m \in lags : \A l \in lags : m <= l
    BY <2>1, LeastNatural
  <2>3. PICK k \in D : m = 5 - score(k)
    BY <2>2
  <2>4. ASSUME NEW i \in D PROVE score(i) <= score(k)
    <3>1. 5 - score(k) <= 5 - score(i)
      BY <2>2, <2>3
    <3> QED BY <1>2, <3>1
  <2> QED BY <2>4
<1>4. PICK f \in D : /\ \A i \in D : score(i) <= score(f)
                     /\ \A i \in D : score(i) = score(f) => f <= i
  <2> DEFINE best == {i \in D : score(i) = score(k)}
  <2>1. best \in SUBSET Nat /\ best # {}
    BY <1>1, <1>3
  <2>2. PICK f \in best : \A i \in best : f <= i
    BY <2>1, LeastNatural
  <2> QED BY <1>3, <2>2
<1> DEFINE IsFirst(n) == \A i \in D : score(i) < score(n) \/ (score(i) = score(n) /\ n <= i)
<1>5. IsFirst(f)
  BY <1>2, <1>4
<1>6. PrimaryPdf(candidates) = CHOOSE n \in D : IsFirst(n)
  BY DEF PrimaryPdf, score
<1>7. PrimaryPdf(candidates) \in D /\ IsFirst(PrimaryPdf(candidates))
  BY <1>5, <1>6
<1> QED BY <1>2, <1>7 DEF score

(* An annex is chosen only where there is nothing else.                    *)
LEMMA AnnexOnlyAlone ==
    ASSUME NEW candidates \in Seq(Candidate)
    PROVE  IF candidates = <<>> THEN PrimaryPdf(candidates) = 0
           ELSE candidates[PrimaryPdf(candidates)].annex =>
                    \A k \in DOMAIN candidates : candidates[k].annex
<1>1. CASE candidates = <<>>
  BY <1>1 DEF PrimaryPdf
<1>2. CASE candidates # <<>>
  <2> DEFINE f == PrimaryPdf(candidates)
  <2>1. /\ f \in DOMAIN candidates
        /\ \A i \in DOMAIN candidates : Score(candidates[i]) <= Score(candidates[f])
    BY <1>2, PrimaryPdfIsBest
  <2>2. \A i \in DOMAIN candidates : candidates[i] \in Candidate
    OBVIOUS
  <2>3. \A c, d \in Candidate : c.annex /\ Score(d) <= Score(c) => d.annex
    BY DEF Score, Candidate
  <2> HIDE DEF f
  <2>4. candidates[f].annex => \A k \in DOMAIN candidates : candidates[k].annex
    BY <2>1, <2>2, <2>3
  <2> QED BY <1>2, <2>4 DEF f
<1> QED BY <1>1, <1>2

(* What a listing of the NCA holds when it is read.                        *)
LEMMA NCAListing ==
    ASSUME AnswerInv, Answered("nca"), answer.read
    PROVE  /\ answer.documents =
                {[link |-> l, file |-> PrimaryPdf(call.details[l.slug].candidates)] :
                    l \in Links(call.index)}
           /\ \A l \in Links(call.index) : Request(l.official, call.details[l.slug].sends)
           /\ \A l \in Links(call.index) :
                /\ l.slug \in TargetSlugs
                /\ DOMAIN call.details[l.slug].sends = 1 .. MaxRetries + 1
                /\ call.details[l.slug].candidates \in Seq(Candidate)
<1>1. call \in Indexes
  BY CallsOfTheirKind DEF AnswerInv, Answered
<1>2. answer = NCADiscover(call.sends, call.index, call.details)
  BY DEF AnswerInv
<1>3. \A l \in Links(call.index) : l.slug \in TargetSlugs
  BY DEF Links
<1>4. \A s \in TargetSlugs :
        /\ DOMAIN call.details[s].sends = 1 .. MaxRetries + 1
        /\ call.details[s].candidates \in Seq(Candidate)
  BY <1>1, IndexAssumption DEF Candidate
<1>5. Failed.read = FALSE
  BY DEF Failed
<1>6. answer # Failed
  BY <1>5
<1>7. /\ \A l \in Links(call.index) : Request(l.official, call.details[l.slug].sends)
      /\ answer = Listed({[link |-> l, file |-> PrimaryPdf(call.details[l.slug].candidates)] :
                            l \in Links(call.index)})
  BY <1>2, <1>6 DEF NCADiscover
<1> QED BY <1>3, <1>4, <1>7 DEF Listed

(* A file that is compared for a control is one of the control's own.      *)
LEMMA ControlsComeFirst == ASSUME AnswerInv PROVE ControlsBeforeAnnexes
<1> SUFFICES ASSUME Answered("nca"), answer.read, NEW e \in answer.documents
             PROVE  LET candidates == call.details[e.link.slug].candidates
                    IN  IF candidates = <<>> THEN e.file = 0
                        ELSE candidates[e.file].annex =>
                                \A k \in DOMAIN candidates : candidates[k].annex
  BY DEF ControlsBeforeAnnexes
<1>1. PICK l \in Links(call.index) :
        e = [link |-> l, file |-> PrimaryPdf(call.details[l.slug].candidates)]
  BY NCAListing
<1>2. call.details[l.slug].candidates \in Seq(Candidate)
  BY NCAListing
<1>3. e.link = l /\ e.file = PrimaryPdf(call.details[l.slug].candidates)
  BY <1>1
<1> QED BY <1>2, <1>3, AnnexOnlyAlone

-----------------------------------------------------------------------------
(* The listing of SASO's regulations.                                      *)

(* Where an item occurs for the first time, and those items in order.      *)
Firsts(items) == {k \in DOMAIN items : \A i \in 1 .. k - 1 : items[i] # items[k]}

Unrepeated(items) ==
    [j \in DOMAIN InOrder(Firsts(items)) |-> items[InOrder(Firsts(items))[j]]]

(* Taking each item the first time it occurs leaves every item once.       *)
LEMMA FirstsAreTheItems ==
    ASSUME NEW T, NEW items \in Seq(T)
    PROVE  /\ ToSet(Unrepeated(items)) = ToSet(items)
           /\ Len(Unrepeated(items)) = Cardinality(ToSet(Unrepeated(items)))
<1> DEFINE seen == Firsts(items)
           size == Cardinality(seen)
           place(j) == InOrder(seen)[j]
           documents == [j \in 1 .. size |-> items[place(j)]]
<1>1. /\ DOMAIN items = 1 .. Len(items) /\ Len(items) \in Nat
      /\ seen \in SUBSET (1 .. Len(items))
  BY DEF Firsts
<1>2. \A k, l \in seen : items[k] = items[l] => k = l
  <2> SUFFICES ASSUME NEW k \in seen, NEW l \in seen, items[k] = items[l], k < l
               PROVE  FALSE
    BY <1>1
  <2>1. k \in 1 .. l - 1
    BY <1>1
  <2> QED BY <2>1 DEF Firsts
<1>3. \A i \in DOMAIN items : \E k \in seen : items[k] = items[i]
  <2> SUFFICES ASSUME NEW i \in DOMAIN items
               PROVE  \E k \in seen : items[k] = items[i]
    OBVIOUS
  <2> DEFINE same == {k \in DOMAIN items : items[k] = items[i]}
  <2>1. same \in SUBSET Nat /\ i \in same
    BY <1>1
  <2>2. PICK k \in same : \A l \in same : k <= l
    BY <2>1, LeastNatural
  <2>3. k \in seen
    BY <1>1, <2>2 DEF Firsts
  <2> QED BY <2>2, <2>3
<1>4. size \in Nat /\ DOMAIN InOrder(seen) = 1 .. size
  BY <1>1, InOrderIs
<1>0. documents = Unrepeated(items)
  BY <1>4 DEF Unrepeated
<1> HIDE DEF seen
<1>5. \A j \in 1 .. size : place(j) \in seen /\ UpTo(seen, place(j)) = j
  BY <1>1, InOrderIs
<1>6. \A k \in seen : \E j \in 1 .. size : place(j) = k
  BY <1>1, InOrderIs
<1> HIDE DEF place, size
<1>7. seen \subseteq DOMAIN items
  BY <1>1
<1>8. DOMAIN documents = 1 .. size /\ Len(documents) = size
  BY <1>4
<1>9. \A j \in 1 .. size : documents[j] = items[place(j)]
  OBVIOUS
<1> HIDE DEF documents
<1>10. ToSet(documents) = {documents[j] : j \in 1 .. size}
       /\ ToSet(items) = {items[k] : k \in DOMAIN items}
  BY <1>8 DEF ToSet
<1>11. ToSet(documents) = ToSet(items)
  <2>1. ToSet(documents) \subseteq ToSet(items)
    BY <1>5, <1>7, <1>9, <1>10
  <2>2. ASSUME NEW x \in ToSet(items) PROVE x \in ToSet(documents)
    <3>1. PICK i \in DOMAIN items : x = items[i]
      BY <1>10
    <3>2. PICK k \in seen : items[k] = x
      BY <1>3, <3>1
    <3>3. PICK j \in 1 .. size : place(j) = k
      BY <1>6
    <3> QED BY <1>9, <1>10, <3>2, <3>3
  <2> QED BY <2>1, <2>2
<1>12. documents \in Bijection(1 .. size, ToSet(documents))
  <2>1. documents \in [1 .. size -> ToSet(documents)]
    BY <1>8, <1>10 DEF documents
  <2>2. \A i, j \in 1 .. size : documents[i] = documents[j] => i = j
    BY <1>2, <1>5, <1>9
  <2>3. \A x \in ToSet(documents) : \E j \in 1 .. size : documents[j] = x
    BY <1>10
  <2> QED BY <2>1, <2>2, <2>3 DEF Bijection, Injection, IsInjective, Surjection
<1>13. Cardinality(ToSet(documents)) = size
  <2>1. ExistsBijection(1 .. size, ToSet(documents))
    BY <1>12 DEF ExistsBijection
  <2>2. IsFiniteSet(1 .. size) /\ Cardinality(1 .. size) = size
    <3>1. /\ 1 \in Int /\ size \in Int
          /\ (IF 1 > size THEN 0 ELSE size - 1 + 1) = size
      BY <1>4
    <3> QED BY ONLY <3>1, FS_Interval
  <2> QED BY <2>1, <2>2, FS_Bijection
<1> QED BY <1>0, <1>8, <1>11, <1>13

(* discover, for any pages and failures: a listing of the NCA that succeeds*)
(* holds every control under all its links, each on the authority's host   *)
(* and its page read; one of SASO holds what its page does, expanded where *)
(* that is offered; and no annex is taken for a control.                   *)
THEOREM ListingsHoldTheirPages == CalculationSpec => []ListingsFollowPages
<1>1. AnswerInv => PagesAreListed
  <2> SUFFICES ASSUME AnswerInv PROVE PagesAreListed
    OBVIOUS
  <2>1. ASSUME Answered("nca"), answer.read
        PROVE  /\ TargetSlugs = {e.link.slug : e \in answer.documents}
               /\ {l \in call.index : l.slug \in TargetSlugs}
                    \subseteq {e.link : e \in answer.documents}
               /\ \A e \in answer.documents :
                    /\ e.link.official
                    /\ \E k \in DOMAIN call.details[e.link.slug].sends :
                            call.details[e.link.slug].sends[k] = "page"
    <3> DEFINE file(l) == PrimaryPdf(call.details[l.slug].candidates)
               links == Links(call.index)
    <3>1. /\ answer.documents = {[link |-> l, file |-> file(l)] : l \in links}
          /\ \A l \in links :
                /\ Request(l.official, call.details[l.slug].sends)
                /\ DOMAIN call.details[l.slug].sends = 1 .. MaxRetries + 1
                /\ l.slug \in TargetSlugs
      BY <2>1, NCAListing
    <3>2. ASSUME NEW s \in TargetSlugs PROVE \E l \in links : l.slug = s
      <4>1. [slug |-> s, official |-> TRUE, slash |-> TRUE] \in links
        BY DEF Links
      <4> QED BY <4>1
    <3>3. {l \in call.index : l.slug \in TargetSlugs} \subseteq links
      BY DEF Links
    <3>4. \A l \in links :
            /\ l.official
            /\ \E k \in DOMAIN call.details[l.slug].sends :
                    call.details[l.slug].sends[k] = "page"
      BY <3>1 DEF Request
    <3> HIDE DEF file, links
    <3>5. {e.link : e \in answer.documents} = links
      <4>1. ASSUME NEW e \in answer.documents PROVE e.link \in links
        BY <3>1
      <4>2. ASSUME NEW l \in links PROVE l \in {e.link : e \in answer.documents}
        <5>1. [link |-> l, file |-> file(l)] \in answer.documents
          BY <3>1
        <5> QED BY <5>1
      <4> QED BY <4>1, <4>2
    <3> QED BY <3>1, <3>2, <3>3, <3>4, <3>5
  <2>2. ASSUME Answered("saso"), answer.read
        PROVE  /\ call.page.selector => call.page.posted = "page"
               /\ ToSet(answer.documents) = ToSet(IF call.page.selector
                                                  THEN call.page.expanded
                                                  ELSE call.page.items)
               /\ Len(answer.documents) = Cardinality(ToSet(answer.documents))
    <3> DEFINE items == IF call.page.selector THEN call.page.expanded ELSE call.page.items
    <3>1. items \in Seq(STRING)
      <4>1. call \in Lists
        BY <2>2, CallsOfTheirKind DEF AnswerInv, Answered
      <4> QED BY <4>1, ListAssumption
    <3>2. answer = SASODiscover(call.sends, call.page)
      BY <2>2 DEF AnswerInv
    <3>3. Failed.read = FALSE
      BY DEF Failed
    <3>4. answer # Failed
      BY <2>2, <3>3
    <3>5. answer = Listed(Unrepeated(items))
          /\ (call.page.selector => call.page.posted = "page")
      BY <3>2, <3>4 DEF SASODiscover, Unrepeated, Firsts
    <3> HIDE DEF items
    <3>6. answer.documents = Unrepeated(items)
      BY <3>5 DEF Listed
    <3>7. /\ ToSet(Unrepeated(items)) = ToSet(items)
          /\ Len(Unrepeated(items)) = Cardinality(ToSet(Unrepeated(items)))
      BY <3>1, FirstsAreTheItems
    <3> QED BY <3>5, <3>6, <3>7 DEF items
  <2> QED BY <2>1, <2>2, Zenon DEF PagesAreListed
<1>2. AnswerInv => ListingsFollowPages
  BY <1>1, ControlsComeFirst DEF ListingsFollowPages
<1> QED BY <1>2, AnswersFollowCalls, PTL

-----------------------------------------------------------------------------
(* The scope of a company.                                                 *)

FactValue == {"unsaid", "true", "false"}

(* A fact is merged to "true" exactly if some chunk affirms it: what is    *)
(* "true" stays so, and what is not becomes so only by a "true".           *)
LEMMA MergedIsAffirmed ==
    ASSUME NEW values \in Seq(FactValue)
    PROVE  FoldLeft(Merge, "unsaid", values) = "true"
             <=> \E k \in DOMAIN values : values[k] = "true"
<1> DEFINE D == DOMAIN values
           merge == [a \in FactValue |-> [b \in FactValue |-> Merge(b, a)]]
           first == [s \in SUBSET D |-> Max(s)]
           up(g) == g = [s \in SUBSET D |-> IF s = {} THEN "unsaid"
                                          ELSE Merge(g[s \ {Max(s)}], values[Max(s)])]
<1>1. D = 1 .. Len(values) /\ Len(values) \in Nat /\ values \in [D -> FactValue]
  BY LenProperties
<1>2. IsFiniteSet(D)
  <2> HIDE DEF D
  <2>1. IsFiniteSet(1 .. Len(values))
    BY <1>1, FS_Interval
  <2> QED BY <1>1, <2>1
<1>3. \A s \in SUBSET D : s # {} => Max(s) \in s
  BY <1>1, MaxIsElement
<1> HIDE DEF D
<1>4. /\ merge \in [FactValue -> [FactValue -> FactValue]]
      /\ \A a, b \in FactValue : merge[a][b] = Merge(b, a)
      /\ \A a, b \in FactValue : Merge(b, a) = "true" <=> a = "true" \/ b = "true"
  BY DEF Merge, FactValue
<1>5. Takes(first, D) /\ \A s \in SUBSET D : first[s] = Max(s)
  BY <1>3 DEF Takes
<1>6. "unsaid" \in FactValue
  BY DEF FactValue
<1> HIDE DEF merge, first
<1>7. PICK h \in [SUBSET D -> FactValue] : Folding(h, "unsaid", merge, values, first, D)
  BY <1>1, <1>2, <1>4, <1>5, <1>6, FoldsExist
<1>8. \A s \in SUBSET D :
        h[s] = IF s = {} THEN "unsaid" ELSE Merge(h[s \ {Max(s)}], values[Max(s)])
  <2> SUFFICES ASSUME NEW s \in SUBSET D
               PROVE  h[s] = IF s = {} THEN "unsaid"
                             ELSE Merge(h[s \ {Max(s)}], values[Max(s)])
    OBVIOUS
  <2>1. h[s] = IF s = {} THEN "unsaid" ELSE merge[values[Max(s)]][h[s \ {Max(s)}]]
    BY <1>5, <1>7 DEF Folding
  <2>2. s # {} => values[Max(s)] \in FactValue /\ h[s \ {Max(s)}] \in FactValue
    BY <1>1, <1>3, <1>7
  <2> QED BY <1>4, <2>1, <2>2
<1>9. up(h)
  BY <1>7, <1>8
<1>10. PICK g : up(g) /\ FoldLeft(Merge, "unsaid", values) = g[D]
  BY <1>9 DEF FoldLeft, MapThenFoldSet, D
<1>11. \A s \in SUBSET D :
        g[s] = IF s = {} THEN "unsaid" ELSE Merge(g[s \ {Max(s)}], values[Max(s)])
  BY <1>10
<1> HIDE DEF up
<1> DEFINE ok(s) == g[s] \in FactValue
                    /\ (g[s] = "true" <=> \E k \in s : values[k] = "true")
           B == {s \in SUBSET D : ~ ok(s)}
<1>12. B = {}
  <2> SUFFICES ASSUME B # {} PROVE FALSE
    OBVIOUS
  <2>1. PICK s \in B : \A x \in s : s \ {x} \notin B
    BY <1>2, SmallestSet
  <2>2. CASE s = {}
    BY <1>6, <1>11, <2>1, <2>2
  <2>3. CASE s # {}
    <3> DEFINE m == Max(s)
    <3>1. m \in s /\ m \in D /\ s \ {m} \in SUBSET D
      BY <1>3, <2>1, <2>3
    <3>2. g[s] = Merge(g[s \ {m}], values[m]) /\ values[m] \in FactValue
      BY <1>1, <1>11, <2>1, <2>3, <3>1
    <3>3. ok(s \ {m})
      BY <2>1, <3>1
    <3> HIDE DEF m
    <3>4. Merge(g[s \ {m}], values[m]) \in FactValue
      BY <3>2, <3>3 DEF Merge
    <3>5. g[s] = "true" <=> values[m] = "true" \/ g[s \ {m}] = "true"
      BY <1>4, <3>2, <3>3
    <3>6. ok(s)
      BY <3>1, <3>2, <3>3, <3>4, <3>5
    <3> QED BY <2>1, <3>6
  <2> QED BY <2>2, <2>3
<1>13. ok(D)
  BY <1>12
<1> QED BY <1>10, <1>13 DEF D

Affirmed(chunks, f) == \E k \in DOMAIN chunks : FactMatch(chunks[k], f) = "true"

(* So a domain's row depends on what is affirmed, and on nothing else.     *)
LEMMA FactIsAffirmed ==
    ASSUME NEW C, NEW chunks \in Seq(C), NEW f
    PROVE  MergedFact(chunks, f) = "true" <=> Affirmed(chunks, f)
<1> DEFINE values == [k \in DOMAIN chunks |-> FactMatch(chunks[k], f)]
<1>1. DOMAIN chunks = 1 .. Len(chunks) /\ Len(chunks) \in Nat
  BY LenProperties
<1>2. \A k \in DOMAIN chunks : FactMatch(chunks[k], f) \in FactValue
  BY DEF FactMatch, FactValue
<1>3. values \in Seq(FactValue) /\ DOMAIN values = DOMAIN chunks
  BY <1>1, <1>2
<1>4. \A k \in DOMAIN chunks : values[k] = FactMatch(chunks[k], f)
  OBVIOUS
<1> HIDE DEF values
<1>5. FoldLeft(Merge, "unsaid", values) = "true" <=> \E k \in DOMAIN values : values[k] = "true"
  BY <1>3, MergedIsAffirmed
<1> QED BY <1>3, <1>4, <1>5 DEF MergedFact, Affirmed, values

CompanyChunk == [mentions : [{"has_employees", "manufactures_products",
                        "imports_or_exports"} -> Seq(SUBSET {"affirmed", "denied"})],
           unconfirmed : BOOLEAN]

(* The order of the chunks is not seen, and a chunk less affirms no more.  *)
LEMMA OrderIsNotSeen ==
    ASSUME NEW C, NEW chunks \in Seq(C), NEW f
    PROVE  /\ Reverse(chunks) \in Seq(C)
           /\ Affirmed(Reverse(chunks), f) <=> Affirmed(chunks, f)
<1> DEFINE n == Len(chunks)
<1>1. DOMAIN chunks = 1 .. n /\ n \in Nat /\ \A k \in 1 .. n : chunks[k] \in C
  BY LenProperties
<1> HIDE DEF n
<1>2. Reverse(chunks) = [i \in 1 .. n |-> chunks[(n - i) + 1]]
  BY DEF Reverse, n
<1>3. \A i \in 1 .. n : (n - i) + 1 \in 1 .. n /\ (n - ((n - i) + 1)) + 1 = i
  BY <1>1
<1>4. DOMAIN Reverse(chunks) = 1 .. n
      /\ \A i \in 1 .. n : Reverse(chunks)[i] = chunks[(n - i) + 1]
  BY <1>2
<1>5. Reverse(chunks) \in Seq(C)
  BY <1>1, <1>2, <1>3
<1>6. ASSUME NEW k \in 1 .. n PROVE Reverse(chunks)[(n - k) + 1] = chunks[k]
  BY <1>3, <1>4
<1>7. Affirmed(Reverse(chunks), f) <=> Affirmed(chunks, f)
  BY <1>1, <1>3, <1>4, <1>6 DEF Affirmed
<1> QED BY <1>5, <1>7

LEMMA FewerAffirmLess ==
    ASSUME NEW C, NEW chunks \in Seq(C), NEW f, NEW k \in DOMAIN chunks
    PROVE  /\ RemoveAt(chunks, k) \in Seq(C)
           /\ Affirmed(RemoveAt(chunks, k), f) => Affirmed(chunks, f)
<1> DEFINE n == Len(chunks)
           s == SubSeq(chunks, 1, k - 1)
           t == SubSeq(chunks, k + 1, n)
<1>1. DOMAIN chunks = 1 .. n /\ n \in Nat /\ \A i \in 1 .. n : chunks[i] \in C
  BY LenProperties
<1>2. k \in 1 .. n
  BY <1>1
<1> HIDE DEF n
<1>3. /\ s \in Seq(C) /\ Len(s) = k - 1
      /\ \A i \in 1 .. k - 1 : s[i] = chunks[i]
  <2>1. \A i \in 1 .. k - 1 : chunks[i] \in C
    BY <1>1, <1>2
  <2>2. /\ s \in Seq(C) /\ Len(s) = IF 1 <= k - 1 THEN k - 1 - 1 + 1 ELSE 0
        /\ \A i \in 1 .. (k - 1) - 1 + 1 : s[i] = chunks[1 + i - 1]
    BY <1>1, <1>2, <2>1, SubSeqProperties
  <2> HIDE DEF s
  <2> QED BY <1>1, <1>2, <2>2
<1>4. /\ t \in Seq(C) /\ Len(t) = n - k
      /\ \A i \in 1 .. n - k : t[i] = chunks[k + i]
  <2>1. \A i \in k + 1 .. n : chunks[i] \in C
    BY <1>1, <1>2
  <2>2. /\ t \in Seq(C) /\ Len(t) = IF k + 1 <= n THEN n - (k + 1) + 1 ELSE 0
        /\ \A i \in 1 .. n - (k + 1) + 1 : t[i] = chunks[(k + 1) + i - 1]
    BY <1>1, <1>2, <2>1, SubSeqProperties
  <2> HIDE DEF t
  <2>3. Len(t) = n - k
    BY <1>1, <1>2, <2>2
  <2>4. ASSUME NEW i \in 1 .. n - k PROVE t[i] = chunks[k + i]
    <3>1. i \in 1 .. n - (k + 1) + 1
      BY <1>1, <1>2
    <3>2. (k + 1) + i - 1 = k + i
      BY <1>1, <1>2
    <3>3. t[i] = chunks[(k + 1) + i - 1]
      BY <2>2, <3>1
    <3> QED BY <3>2, <3>3
  <2> QED BY <2>2, <2>3, <2>4
<1>5. RemoveAt(chunks, k) = s \o t
  BY DEF RemoveAt, n
<1> HIDE DEF s, t
<1>6. /\ s \o t \in Seq(C) /\ Len(s \o t) = Len(s) + Len(t)
      /\ \A i \in 1 .. Len(s) + Len(t) :
            (s \o t)[i] = IF i <= Len(s) THEN s[i] ELSE t[i - Len(s)]
  BY <1>3, <1>4, ConcatProperties
<1>7. ASSUME NEW i \in DOMAIN (s \o t) PROVE \E j \in 1 .. n : (s \o t)[i] = chunks[j]
  <2>0. Len(s \o t) = n - 1
    BY <1>1, <1>2, <1>3, <1>4, <1>6
  <2>1. DOMAIN (s \o t) = 1 .. n - 1
    BY <1>6, <2>0, LenProperties
  <2>2. CASE i <= k - 1
    <3>1. (s \o t)[i] = chunks[i]
      BY <1>1, <1>2, <1>3, <1>4, <1>6, <2>1, <2>2
    <3> QED BY <1>1, <2>1, <3>1
  <2>3. CASE ~ (i <= k - 1)
    <3>1. i - (k - 1) \in 1 .. n - k
      BY <1>1, <1>2, <2>1, <2>3
    <3>2. (s \o t)[i] = t[i - (k - 1)]
      BY <1>1, <1>2, <1>3, <1>4, <1>6, <2>1, <2>3
    <3>3. t[i - (k - 1)] = chunks[k + (i - (k - 1))]
      BY <1>4, <3>1
    <3>4. k + (i - (k - 1)) \in 1 .. n
      BY <1>1, <1>2, <2>1, <3>1
    <3> QED BY <3>2, <3>3, <3>4
  <2> QED BY <2>2, <2>3
<1>8. Affirmed(s \o t, f) => Affirmed(chunks, f)
  BY <1>1, <1>7 DEF Affirmed
<1> QED BY <1>5, <1>6, <1>8

(* The scope of a company is that of its documents as a set: reading them  *)
(* in another order gives the same, and one more document takes no domain  *)
(* out of scope nor makes a sure one doubtful.                             *)
THEOREM ScopeGrowsWithDocuments == CalculationSpec => []ScopeIsCumulative
<1>1. AnswerInv => ScopeIsCumulative
  <2> SUFFICES ASSUME AnswerInv, Answered("scope")
               PROVE  ScopeIsCumulative
    BY DEF ScopeIsCumulative
  <2> DEFINE chunks == call.chunks
             Row(code, required, made) ==
                IF required THEN "mandatory"
                ELSE IF code = "export_control" /\ made THEN "needs_confirmation"
                ELSE "absent"
             RowOf(cs, code) == Row(code, Affirmed(cs, RequiredFact[code]),
                                    Affirmed(cs, "manufactures_products"))
  <2>1. chunks \in Seq(CompanyChunk) /\ answer = ScopeOf(chunks)
    BY CallsOfTheirKind, ProfileAssumption DEF AnswerInv, Answered, CompanyChunk
  <2> HIDE DEF chunks
  <2>2. ASSUME NEW cs \in Seq(CompanyChunk), NEW code \in DOMAIN RequiredFact
        PROVE  ScopeOf(cs)[code] = RowOf(cs, code)
    <3>1. /\ MergedFact(cs, RequiredFact[code]) = "true"
               <=> Affirmed(cs, RequiredFact[code])
          /\ MergedFact(cs, "manufactures_products") = "true"
               <=> Affirmed(cs, "manufactures_products")
      BY FactIsAffirmed
    <3> QED BY <3>1 DEF ScopeOf
  <2>3. DOMAIN answer = DOMAIN RequiredFact
    BY <2>1 DEF ScopeOf
  <2>4. ASSUME NEW code \in DOMAIN answer
        PROVE  ScopeOf(Reverse(chunks))[code] = answer[code]
    BY <2>1, <2>2, <2>3, OrderIsNotSeen
  <2>5. ASSUME NEW code \in DOMAIN answer, NEW k \in DOMAIN chunks
        PROVE  \/ ScopeOf(RemoveAt(chunks, k))[code] = "absent"
               \/ answer[code] = "mandatory"
               \/ ScopeOf(RemoveAt(chunks, k))[code] = answer[code]
    <3> DEFINE fewer == RemoveAt(chunks, k)
    <3>1. fewer \in Seq(CompanyChunk) /\ \A f : Affirmed(fewer, f) => Affirmed(chunks, f)
      BY <2>1, FewerAffirmLess
    <3> HIDE DEF fewer
    <3>2. ScopeOf(fewer)[code] = RowOf(fewer, code) /\ answer[code] = RowOf(chunks, code)
      BY <2>1, <2>2, <2>3, <3>1
    <3> QED BY <3>1, <3>2 DEF fewer
  <2>6. \A code \in DOMAIN answer :
          answer[code] \in {"mandatory", "needs_confirmation", "absent"}
    BY <2>1, <2>3 DEF ScopeOf
  <2> DEFINE Rank(class) == CASE class = "absent" -> 0
                              [] class = "needs_confirmation" -> 1
                              [] class = "mandatory" -> 2
  <2>7. ASSUME NEW code \in DOMAIN answer, NEW k \in DOMAIN chunks
        PROVE  Rank(ScopeOf(RemoveAt(chunks, k))[code]) <= Rank(answer[code])
    <3>1. CASE ScopeOf(RemoveAt(chunks, k))[code] = "absent"
      BY <2>6, <3>1
    <3>2. CASE answer[code] = "mandatory"
      <4>1. ScopeOf(RemoveAt(chunks, k))[code]
              \in {"mandatory", "needs_confirmation", "absent"}
        BY <2>1, <2>2, <2>3, FewerAffirmLess
      <4> QED BY <3>2, <4>1
    <3>3. CASE ScopeOf(RemoveAt(chunks, k))[code] = answer[code]
      BY <2>6, <3>3
    <3> QED BY <2>5, <3>1, <3>2, <3>3
  <2> QED BY <2>4, <2>7 DEF chunks, ScopeIsCumulative
<1> QED BY <1>1, AnswersFollowCalls, PTL

-----------------------------------------------------------------------------
(* Numbers of words: what a total is.                                      *)

Adds(f, words) ==
    f[0] = 0 /\ \A k \in 1 .. Len(words) : f[k] = f[k - 1] + words[k]

LEMMA TotalIsSum ==
    ASSUME NEW words \in Seq(Nat)
    PROVE  \E f \in [0 .. Len(words) -> Nat] :
             Adds(f, words) /\ Total(words) = f[Len(words)]
<1> DEFINE n == Len(words)
           plus == [w \in Nat |-> [sum \in Nat |-> sum + w]]
           up(g) == g = [t \in SUBSET DOMAIN words |->
                            IF t = {} THEN 0 ELSE g[t \ {Max(t)}] + words[Max(t)]]
<1>1. /\ n \in Nat /\ DOMAIN words = 1 .. n /\ words \in [1 .. n -> Nat]
      /\ \A k \in 1 .. n : words[k] \in Nat
  BY LenProperties
<1> HIDE DEF n
<1>2. plus \in [Nat -> [Nat -> Nat]] /\ \A w, sum \in Nat : plus[w][sum] = sum + w
  OBVIOUS
<1> HIDE DEF plus
<1>3. PICK g \in [PositionSets(n) -> Nat] :
         FoldsLeft(g, 0, plus, words, n) /\ RunsOver(g, 0, plus, words, n)
  BY <1>1, <1>2, LeftFoldsExist
<1>4. \A t \in SUBSET (1 .. n) :
         g[t] = IF t = {} THEN 0 ELSE g[t \ {Max(t)}] + words[Max(t)]
  <2> SUFFICES ASSUME NEW t \in SUBSET (1 .. n)
               PROVE  g[t] = IF t = {} THEN 0 ELSE g[t \ {Max(t)}] + words[Max(t)]
    OBVIOUS
  <2>1. g[t] = IF t = {} THEN 0 ELSE plus[words[Max(t)]][g[t \ {Max(t)}]]
    BY <1>3 DEF FoldsLeft
  <2>2. t # {} => Max(t) \in 1 .. n /\ g[t \ {Max(t)}] \in Nat
    BY <1>1, <1>3, MaxIsElement DEF PositionSets
  <2> QED BY <1>1, <1>2, <2>1, <2>2
<1>5. up(g)
  BY <1>1, <1>3, <1>4 DEF PositionSets
<1>6. PICK h : up(h) /\ Total(words) = h[DOMAIN words]
  BY <1>5 DEF Total, FoldLeft, MapThenFoldSet
<1>7. \A t \in SUBSET (1 .. n) :
         h[t] = IF t = {} THEN 0 ELSE h[t \ {Max(t)}] + words[Max(t)]
  BY <1>1, <1>6
<1> HIDE DEF up
<1> DEFINE f == [k \in 0 .. n |-> g[1 .. k]]
<1>8. /\ f \in [0 .. n -> Nat] /\ f[0] = g[1 .. 0]
      /\ \A k \in 1 .. n : f[k] = g[1 .. k] /\ f[k - 1] = g[1 .. (k - 1)]
  <2>1. \A k \in 0 .. n : 1 .. k \in PositionSets(n)
    BY <1>1 DEF PositionSets
  <2>2. 0 \in 0 .. n /\ \A k \in 1 .. n : k \in 0 .. n /\ k - 1 \in 0 .. n
    BY <1>1
  <2> QED BY <1>3, <2>1, <2>2
<1>9. Adds(f, words)
  <2> HIDE DEF f
  <2>1. \A k \in 1 .. n : /\ Max(1 .. k) = k /\ 1 .. k \in SUBSET (1 .. n)
                          /\ 1 .. k # {} /\ (1 .. k) \ {k} = 1 .. (k - 1)
    BY <1>1, MaxOfPrefix
  <2>2. 1 .. 0 = {}
    OBVIOUS
  <2> QED BY <1>4, <1>8, <2>1, <2>2 DEF Adds, n
<1>10. \A k \in 0 .. n : g[1 .. k] = h[1 .. k]
  <2> DEFINE A == {k \in 0 .. n : g[1 .. k] = h[1 .. k]}
  <2>1. 0 \in A
    <3>1. 1 .. 0 = {} /\ 0 \in 0 .. n
      BY <1>1
    <3> QED BY <1>4, <1>7, <3>1
  <2>2. \A k \in 1 .. n : k - 1 \in A => k \in A
    <3> SUFFICES ASSUME NEW k \in 1 .. n, k - 1 \in A PROVE k \in A
      OBVIOUS
    <3>1. /\ Max(1 .. k) = k /\ 1 .. k \in SUBSET (1 .. n)
          /\ 1 .. k # {} /\ (1 .. k) \ {k} = 1 .. (k - 1)
      BY <1>1, MaxOfPrefix
    <3>2. g[1 .. k] = g[1 .. (k - 1)] + words[k] /\ h[1 .. k] = h[1 .. (k - 1)] + words[k]
      BY <1>4, <1>7, <3>1
    <3> QED BY <1>1, <3>2
  <2> HIDE DEF A
  <2>3. \A k \in 0 .. n : k \in A
    BY <1>1, <2>1, <2>2, CountingUp
  <2> QED BY <2>3 DEF A
<1>11. Total(words) = f[n]
  BY <1>1, <1>6, <1>8, <1>10
<1> QED BY <1>8, <1>9, <1>11 DEF n

(* The sums are the same however they are found.                           *)
LEMMA TotalIs ==
    ASSUME NEW words \in Seq(Nat), NEW f, Adds(f, words)
    PROVE  /\ Total(words) = f[Len(words)]
           /\ \A k \in 0 .. Len(words) : f[k] \in Nat
<1>1. PICK g \in [0 .. Len(words) -> Nat] :
         Adds(g, words) /\ Total(words) = g[Len(words)]
  BY TotalIsSum
<1> DEFINE A == {k \in 0 .. Len(words) : f[k] = g[k]}
<1>2. Len(words) \in Nat /\ 0 \in 0 .. Len(words)
  BY LenProperties
<1>3. 0 \in A
  BY <1>1, <1>2 DEF Adds
<1>4. \A k \in 1 .. Len(words) : k - 1 \in A => k \in A
  BY <1>1, <1>2 DEF Adds
<1> HIDE DEF A
<1>5. \A k \in 0 .. Len(words) : k \in A
  BY <1>2, <1>3, <1>4, CountingUp
<1> QED BY <1>1, <1>2, <1>5 DEF A

LEMMA TotalOfConcatenation ==
    ASSUME NEW a \in Seq(Nat), NEW b \in Seq(Nat)
    PROVE  Total(a \o b) = Total(a) + Total(b)
<1> DEFINE m == Len(a)
           n == Len(b)
<1>1. m \in Nat /\ n \in Nat /\ a \o b \in Seq(Nat) /\ Len(a \o b) = m + n
  BY LenProperties, ConcatProperties
<1>2. PICK f \in [0 .. m -> Nat] : Adds(f, a) /\ Total(a) = f[m]
  BY TotalIsSum
<1>3. PICK g \in [0 .. n -> Nat] : Adds(g, b) /\ Total(b) = g[n]
  BY TotalIsSum
<1> DEFINE h == [k \in 0 .. m + n |-> IF k <= m THEN f[k] ELSE f[m] + g[k - m]]
<1>4. \A k \in 1 .. m + n : (a \o b)[k] = IF k <= m THEN a[k] ELSE b[k - m]
  BY ConcatProperties
<1>5. h[0] = 0
  BY <1>1, <1>2 DEF Adds
<1>6. ASSUME NEW k \in 1 .. m + n PROVE h[k] = h[k - 1] + (a \o b)[k]
  <2>1. k - 1 \in 0 .. m + n /\ k \in 0 .. m + n
    BY <1>1
  <2>2. CASE k <= m
    <3>1. f[k] = f[k - 1] + a[k]
      BY <1>1, <1>2, <2>2 DEF Adds
    <3> QED BY <1>1, <1>4, <2>1, <2>2, <3>1
  <2>3. CASE k > m
    <3>1. k - m \in 1 .. n
      BY <1>1, <2>3
    <3>2. g[k - m] = g[(k - m) - 1] + b[k - m] /\ g[0] = 0
      BY <1>3, <3>1 DEF Adds
    <3>3. /\ f[m] \in Nat /\ g[(k - m) - 1] \in Nat /\ b[k - m] \in Nat
          /\ (k - m) - 1 = (k - 1) - m
      <4>1. (k - m) - 1 \in 0 .. n /\ m \in 0 .. m /\ (k - m) - 1 = (k - 1) - m
        BY <1>1, <3>1
      <4>2. b[k - m] \in Nat
        BY <3>1, LenProperties
      <4> QED BY <1>2, <1>3, <4>1, <4>2
    <3>4. h[k] = f[m] + (g[(k - 1) - m] + b[k - m])
      <4>1. h[k] = f[m] + g[k - m]
        BY <1>1, <2>1, <2>3
      <4> QED BY <3>2, <3>3, <4>1
    <3>5. h[k - 1] = f[m] + g[(k - 1) - m]
      <4>1. CASE k - 1 = m
        BY <1>1, <2>1, <3>2, <3>3, <4>1
      <4>2. CASE k - 1 # m
        BY <1>1, <2>1, <2>3, <4>2
      <4> QED BY <4>1, <4>2
    <3> QED BY <1>4, <2>3, <3>3, <3>4, <3>5
  <2> QED BY <1>1, <2>2, <2>3
<1>7. h[m + n] = f[m] + g[n]
  <2>1. m + n \in 0 .. m + n /\ f[m] \in Nat /\ g[0] = 0 /\ (m + n) - m = n
    BY <1>1, <1>2, <1>3 DEF Adds
  <2>2. h[m + n] = IF m + n <= m THEN f[m + n] ELSE f[m] + g[n]
    BY <2>1
  <2>3. m + n <= m => m + n = m /\ n = 0
    BY <1>1
  <2> HIDE DEF h, m, n
  <2> QED BY <2>1, <2>2, <2>3
<1> HIDE DEF h
<1>8. Adds(h, a \o b)
  BY <1>1, <1>5, <1>6 DEF Adds
<1> QED BY <1>1, <1>2, <1>3, <1>7, <1>8, TotalIs

LEMMA TotalOfNothing == Total(<<>>) = 0
<1>1. <<>> \in Seq(Nat) /\ Len(<<>>) = 0
  OBVIOUS
<1>2. PICK f \in [0 .. Len(<<>>) -> Nat] : Adds(f, <<>>) /\ Total(<<>>) = f[Len(<<>>)]
  BY <1>1, TotalIsSum
<1> QED BY <1>1, <1>2 DEF Adds

LEMMA TotalIsZero ==
    ASSUME NEW words \in Seq(Nat)
    PROVE  /\ Total(words) \in Nat
           /\ Total(words) = 0 <=> \A k \in DOMAIN words : words[k] = 0
<1> DEFINE n == Len(words)
<1>1. n \in Nat /\ DOMAIN words = 1 .. n /\ \A k \in 1 .. n : words[k] \in Nat
  BY LenProperties
<1>2. PICK f \in [0 .. n -> Nat] : Adds(f, words) /\ Total(words) = f[n]
  BY TotalIsSum
<1> HIDE DEF n
<1>3. f[0] = 0 /\ \A k \in 1 .. n : /\ f[k] = f[k - 1] + words[k]
                                    /\ f[k] \in Nat /\ f[k - 1] \in Nat
  BY <1>1, <1>2 DEF Adds, n
<1> DEFINE A == {k \in 0 .. n : f[k] = 0 <=> \A i \in 1 .. k : words[i] = 0}
<1>4. 0 \in A
  BY <1>1, <1>3
<1>5. ASSUME NEW k \in 1 .. n, k - 1 \in A PROVE k \in A
  <2>1. k \in 0 .. n /\ k \in 1 .. k /\ \A i \in 1 .. k : i = k \/ i \in 1 .. (k - 1)
    BY <1>1
  <2>2. \A i \in 1 .. (k - 1) : i \in 1 .. k
    BY <1>1
  <2>3. f[k] = 0 <=> f[k - 1] = 0 /\ words[k] = 0
    BY <1>1, <1>3
  <2>4. f[k - 1] = 0 <=> \A i \in 1 .. (k - 1) : words[i] = 0
    BY <1>5
  <2>5. (\A i \in 1 .. k : words[i] = 0)
          <=> (\A i \in 1 .. (k - 1) : words[i] = 0) /\ words[k] = 0
    BY <2>1, <2>2
  <2> QED BY <2>1, <2>3, <2>4, <2>5
<1> HIDE DEF A
<1>6. \A k \in 0 .. n : k \in A
  BY <1>1, <1>4, <1>5, CountingUp
<1>7. n \in A /\ f[n] \in Nat
  BY <1>1, <1>2, <1>6
<1> QED BY <1>1, <1>2, <1>7 DEF A

-----------------------------------------------------------------------------
(* What is extracted of a document.                                        *)

(* The units with words, each once.                                        *)
LEMMA FilledIs ==
    ASSUME NEW words \in Seq(Nat)
    PROVE  /\ Filled(words) \in Seq(DOMAIN words)
           /\ \A j \in DOMAIN Filled(words) :
                Filled(words)[j] \in DOMAIN words /\ words[Filled(words)[j]] > 0
           /\ \A i, j \in DOMAIN Filled(words) :
                Filled(words)[i] = Filled(words)[j] => i = j
           /\ \A k \in DOMAIN words : words[k] > 0 =>
                \E j \in DOMAIN Filled(words) : Filled(words)[j] = k
<1> DEFINE S == {k \in DOMAIN words : words[k] > 0}
<1>1. DOMAIN words = 1 .. Len(words) /\ Len(words) \in Nat
  BY LenProperties
<1>2. S \in SUBSET (1 .. Len(words)) /\ Filled(words) = InOrder(S)
  BY <1>1 DEF Filled
<1>3. /\ DOMAIN InOrder(S) = 1 .. Cardinality(S)
      /\ InOrder(S) \in Seq(S)
      /\ \A j \in 1 .. Cardinality(S) :
            InOrder(S)[j] \in S /\ UpTo(S, InOrder(S)[j]) = j
      /\ \A k \in S : /\ UpTo(S, k) \in 1 .. Cardinality(S)
                      /\ InOrder(S)[UpTo(S, k)] = k
  BY <1>1, <1>2, InOrderIs
<1>4. S \subseteq DOMAIN words /\ \A k \in S : words[k] > 0
  OBVIOUS
<1>5. \A k \in DOMAIN words : words[k] > 0 => k \in S
  OBVIOUS
<1> HIDE DEF S
<1>6. InOrder(S) \in Seq(DOMAIN words)
  BY <1>3, <1>4
<1> QED BY <1>2, <1>3, <1>4, <1>5, <1>6

LEMMA FilledHoldsAll ==
    ASSUME NEW words \in Seq(Nat)
    PROVE  /\ [j \in DOMAIN Filled(words) |-> words[Filled(words)[j]]] \in Seq(Nat)
           /\ Total([j \in DOMAIN Filled(words) |-> words[Filled(words)[j]]]) = Total(words)
           /\ Filled(words) = <<>> <=> Total(words) = 0
           /\ Len(Filled(words)) \in Nat
           /\ (\E k \in DOMAIN words : words[k] = 0) <=> Len(Filled(words)) < Len(words)
<1> DEFINE S == {k \in DOMAIN words : words[k] > 0}
           n == Len(words)
           size == Cardinality(S)
           F == Filled(words)
           kept == [j \in DOMAIN F |-> words[F[j]]]
<1>1. /\ DOMAIN words = 1 .. n /\ n \in Nat /\ \A k \in 1 .. n : words[k] \in Nat
  BY LenProperties
<1>2. S \in SUBSET (1 .. n) /\ F = InOrder(S)
  BY <1>1 DEF Filled
<1>3. /\ size \in Nat /\ DOMAIN F = 1 .. size
      /\ \A j \in 1 .. size : F[j] \in S /\ UpTo(S, F[j]) = j
      /\ \A k \in S : UpTo(S, k) \in 1 .. size /\ F[UpTo(S, k)] = k
  BY <1>1, <1>2, InOrderIs
<1>4. /\ \A k \in Nat : UpTo(S, k) \in Nat
      /\ UpTo(S, 0) = 0 /\ UpTo(S, n) = size
      /\ \A k \in Nat : UpTo(S, k + 1) = IF k + 1 \in S THEN UpTo(S, k) + 1
                                         ELSE UpTo(S, k)
  <2> HIDE DEF n, S, F, kept
  <2> QED BY <1>1, <1>2, UpToSteps
<1>5. /\ \A k \in S : k \in 1 .. n /\ words[k] > 0
      /\ \A k \in 1 .. n : k \notin S => words[k] = 0
  BY <1>1
<1> HIDE DEF S, n
<1>6. \A j \in 1 .. size : words[F[j]] \in Nat
  BY <1>1, <1>3, <1>5
<1> HIDE DEF F, size
<1>7. kept \in Seq(Nat) /\ DOMAIN kept = 1 .. size /\ Len(kept) = size
      /\ \A j \in 1 .. size : kept[j] = words[F[j]]
  BY <1>3, <1>6
<1>8. PICK f \in [0 .. Len(kept) -> Nat] : Adds(f, kept) /\ Total(kept) = f[Len(kept)]
  BY <1>7, TotalIsSum
<1>9. f[0] = 0 /\ \A j \in 1 .. size : f[j] = f[j - 1] + kept[j]
  BY <1>7, <1>8 DEF Adds
<1> HIDE DEF kept
<1> DEFINE g == [k \in 0 .. n |-> f[UpTo(S, k)]]
<1>10. Adds(g, words)
  <2>1. g[0] = 0
    <3>1. 0 \in 0 .. n /\ UpTo(S, 0) = 0 /\ f[0] = 0
      BY <1>1, <1>4, <1>9
    <3>2. g[0] = f[UpTo(S, 0)]
      BY <3>1
    <3> QED BY <3>1, <3>2
  <2>2. ASSUME NEW k \in 1 .. n PROVE g[k] = g[k - 1] + words[k]
    <3>1. k - 1 \in Nat /\ (k - 1) + 1 = k /\ k \in 0 .. n /\ k - 1 \in 0 .. n
      BY <1>1
    <3>2. UpTo(S, k) = IF k \in S THEN UpTo(S, k - 1) + 1 ELSE UpTo(S, k - 1)
      BY <1>4, <3>1
    <3>3. g[k] = f[UpTo(S, k)] /\ g[k - 1] = f[UpTo(S, k - 1)]
      BY <3>1
    <3>4. UpTo(S, k - 1) \in Nat
      BY <1>4, <3>1
    <3> HIDE DEF g
    <3>5. CASE k \in S
      <4>1. UpTo(S, k) \in 1 .. size /\ F[UpTo(S, k)] = k
        BY <1>3, <3>5
      <4>2. f[UpTo(S, k)] = f[UpTo(S, k) - 1] + words[k]
        BY <1>7, <1>9, <4>1
      <4>3. UpTo(S, k) - 1 = UpTo(S, k - 1)
        BY <3>2, <3>4, <3>5
      <4> QED BY <3>3, <4>2, <4>3
    <3>6. CASE k \notin S
      <4>1. words[k] = 0 /\ UpTo(S, k) = UpTo(S, k - 1)
        BY <1>5, <3>2, <3>6
      <4>2. UpTo(S, k - 1) \in 0 .. size
        <5>1. UpTo(S, k - 1) <= size
          BY <1>1, <1>2, UpToIsBounded DEF size
        <5> QED BY <1>3, <3>4, <5>1
      <4>3. f[UpTo(S, k - 1)] \in Nat
        BY <1>7, <1>8, <4>2
      <4> QED BY <3>3, <4>1, <4>3
    <3> QED BY <3>5, <3>6
  <2> HIDE DEF g
  <2> QED BY <2>1, <2>2 DEF Adds, n
<1>11. g[n] = f[size]
  BY <1>1, <1>4
<1> HIDE DEF g
<1>12. Total(kept) = Total(words)
  BY <1>7, <1>8, <1>10, <1>11, TotalIs DEF n
<1>13. F = <<>> <=> Total(words) = 0
  <2>1. Total(words) = 0 <=> \A k \in 1 .. n : words[k] = 0
    BY <1>1, TotalIsZero
  <2>2. F = <<>> <=> size = 0
    BY <1>2, <1>3, InOrderIs, <1>1
  <2>3. size = 0 => S = {}
    BY <1>3
  <2>4. size # 0 => 1 \in 1 .. size
    BY <1>3
  <2> QED BY <1>3, <1>5, <2>1, <2>2, <2>3, <2>4
<1>14. Len(F) = size
  BY <1>1, <1>2, <1>3, InOrderIs
<1>15. (\E k \in 1 .. n : words[k] = 0) <=> size < n
  <2>1. S = 1 .. n => size = n
    BY <1>1, IntervalInOrder DEF size
  <2>2. S # 1 .. n => size < n
    <3>1. IsFiniteSet(1 .. n) /\ Cardinality(1 .. n) = n
      BY <1>1, IntervalInOrder, UpToSteps
    <3> QED BY <1>2, <3>1, FS_Subset DEF size
  <2>3. S = 1 .. n <=> \A k \in 1 .. n : words[k] # 0
    <3>1. S = 1 .. n => \A k \in 1 .. n : words[k] # 0
      BY <1>1, <1>5
    <3>2. (\A k \in 1 .. n : words[k] # 0) => 1 .. n \subseteq S
      BY <1>5
    <3> QED BY <1>2, <3>1, <3>2
  <2> QED BY <1>1, <1>3, <2>1, <2>2, <2>3
<1> QED BY <1>1, <1>3, <1>7, <1>12, <1>13, <1>14, <1>15 DEF F, kept, n

(* Chunks of parts (of sheets, or rows) put end to end: they are those of  *)
(* the parts, each once, and hold the words of all of them.                *)
ChunksOf(L) ==
    [locator : L, words : Nat, quality : {"low_quality", "extraction_success"}]

WordsIn(chunks) == [k \in DOMAIN chunks |-> chunks[k].words]

Apart(chunks) ==
    \A p, q \in DOMAIN chunks : chunks[p].locator = chunks[q].locator => p = q

PartsApart(parts) ==
    \A i, j \in DOMAIN parts : \A p \in DOMAIN parts[i], q \in DOMAIN parts[j] :
        parts[i][p].locator = parts[j][q].locator => i = j /\ p = q

LEMMA WordsOfChunks ==
    ASSUME NEW L, NEW a \in Seq(ChunksOf(L))
    PROVE  WordsIn(a) \in Seq(Nat) /\ Len(WordsIn(a)) = Len(a)
<1>1. DOMAIN a = 1 .. Len(a) /\ Len(a) \in Nat /\ \A k \in 1 .. Len(a) : a[k].words \in Nat
  <2>1. /\ DOMAIN a = 1 .. Len(a) /\ Len(a) \in Nat
        /\ \A k \in 1 .. Len(a) : a[k] \in ChunksOf(L)
    BY LenProperties
  <2>2. \A c \in ChunksOf(L) : c.words \in Nat
    BY DEF ChunksOf
  <2> QED BY <2>1, <2>2
<1>2. WordsIn(a) = [k \in 1 .. Len(a) |-> a[k].words]
  BY <1>1 DEF WordsIn
<1> QED BY <1>1, <1>2

LEMMA WordsOfConcatenation ==
    ASSUME NEW L, NEW a \in Seq(ChunksOf(L)), NEW b \in Seq(ChunksOf(L))
    PROVE  WordsIn(a \o b) = WordsIn(a) \o WordsIn(b)
<1>1. /\ WordsIn(a) \in Seq(Nat) /\ Len(WordsIn(a)) = Len(a)
      /\ WordsIn(b) \in Seq(Nat) /\ Len(WordsIn(b)) = Len(b)
      /\ WordsIn(a \o b) \in Seq(Nat) /\ Len(WordsIn(a \o b)) = Len(a \o b)
  <2>1. a \o b \in Seq(ChunksOf(L))
    BY ConcatProperties
  <2> QED BY <2>1, WordsOfChunks
<1>2. /\ Len(a) \in Nat /\ Len(b) \in Nat /\ Len(a \o b) = Len(a) + Len(b)
      /\ \A k \in 1 .. Len(a) + Len(b) :
            (a \o b)[k] = IF k <= Len(a) THEN a[k] ELSE b[k - Len(a)]
      /\ DOMAIN a = 1 .. Len(a) /\ DOMAIN b = 1 .. Len(b)
      /\ DOMAIN (a \o b) = 1 .. Len(a) + Len(b)
  BY ConcatProperties, LenProperties
<1>3. /\ Len(WordsIn(a) \o WordsIn(b)) = Len(a) + Len(b)
      /\ WordsIn(a) \o WordsIn(b) \in Seq(Nat)
      /\ \A k \in 1 .. Len(a) + Len(b) :
            (WordsIn(a) \o WordsIn(b))[k]
                = IF k <= Len(a) THEN WordsIn(a)[k] ELSE WordsIn(b)[k - Len(a)]
  BY <1>1, ConcatProperties
<1>4. ASSUME NEW k \in 1 .. Len(a) + Len(b)
      PROVE  WordsIn(a \o b)[k] = (WordsIn(a) \o WordsIn(b))[k]
  <2>1. WordsIn(a \o b)[k] = (a \o b)[k].words
    BY <1>2 DEF WordsIn
  <2>2. CASE k <= Len(a)
    <3>1. k \in DOMAIN a
      BY <1>2, <2>2
    <3>2. WordsIn(a)[k] = a[k].words
      BY <3>1 DEF WordsIn
    <3> QED BY <1>2, <1>3, <2>1, <2>2, <3>2
  <2>3. CASE ~ (k <= Len(a))
    <3>1. k - Len(a) \in DOMAIN b
      BY <1>2, <2>3
    <3>2. WordsIn(b)[k - Len(a)] = b[k - Len(a)].words
      BY <3>1 DEF WordsIn
    <3> QED BY <1>2, <1>3, <2>1, <2>3, <3>2
  <2> QED BY <2>2, <2>3
<1> QED BY <1>1, <1>2, <1>3, <1>4, SeqEqual

LEMMA FlattenedChunks ==
    ASSUME NEW L, NEW parts \in Seq(Seq(ChunksOf(L)))
    PROVE  /\ FlattenSeq(parts) \in Seq(ChunksOf(L))
           /\ \A k \in DOMAIN FlattenSeq(parts) :
                \E i \in DOMAIN parts : \E p \in DOMAIN parts[i] :
                    FlattenSeq(parts)[k] = parts[i][p]
           /\ PartsApart(parts) => Apart(FlattenSeq(parts))
           /\ [i \in DOMAIN parts |-> Total(WordsIn(parts[i]))] \in Seq(Nat)
           /\ Total(WordsIn(FlattenSeq(parts)))
                = Total([i \in DOMAIN parts |-> Total(WordsIn(parts[i]))])
<1> DEFINE n == Len(parts)
           C == ChunksOf(L)
           totals == [i \in DOMAIN parts |-> Total(WordsIn(parts[i]))]
<1>1. /\ n \in Nat /\ DOMAIN parts = 1 .. n /\ \A i \in 1 .. n : parts[i] \in Seq(C)
  BY LenProperties
<1>2. PICK f \in [0 .. n -> Seq(C)] : Concatenates(f, parts) /\ FlattenSeq(parts) = f[n]
  BY FlattenedRuns
<1> HIDE DEF C
<1>3. f[0] = <<>> /\ \A i \in 1 .. n : /\ f[i] = f[i - 1] \o parts[i]
                                       /\ f[i] \in Seq(C) /\ f[i - 1] \in Seq(C)
  <2>1. \A i \in 1 .. n : f[i] \in Seq(C) /\ f[i - 1] \in Seq(C)
    <3> HIDE DEF n
    <3>1. \A i \in 1 .. n : i \in 0 .. n /\ i - 1 \in 0 .. n
      BY <1>1
    <3> QED BY <1>2, <3>1
  <2> QED BY <1>2, <2>1 DEF Concatenates
<1> HIDE DEF n
<1>4. /\ totals \in Seq(Nat) /\ Len(totals) = n
      /\ \A i \in 1 .. n : totals[i] = Total(WordsIn(parts[i]))
  <2>1. \A i \in 1 .. n : Total(WordsIn(parts[i])) \in Nat
    BY <1>1, WordsOfChunks, TotalIsZero DEF C
  <2> QED BY <1>1, <2>1
<1> HIDE DEF totals
<1>5. ASSUME NEW i \in 1 .. n
      PROVE  /\ Len(f[i]) = Len(f[i - 1]) + Len(parts[i])
             /\ Len(f[i - 1]) \in Nat /\ Len(parts[i]) \in Nat
             /\ DOMAIN f[i] = 1 .. Len(f[i - 1]) + Len(parts[i])
             /\ DOMAIN f[i - 1] = 1 .. Len(f[i - 1]) /\ DOMAIN parts[i] = 1 .. Len(parts[i])
             /\ \A k \in DOMAIN f[i] :
                    f[i][k] = IF k <= Len(f[i - 1]) THEN f[i - 1][k]
                              ELSE parts[i][k - Len(f[i - 1])]
  <2> DEFINE a == f[i - 1]
             b == parts[i]
  <2>1. a \in Seq(C) /\ b \in Seq(C) /\ f[i] = a \o b
    BY <1>1, <1>3
  <2> HIDE DEF a, b
  <2>2. /\ Len(a \o b) = Len(a) + Len(b) /\ a \o b \in Seq(C)
        /\ \A k \in 1 .. Len(a) + Len(b) :
              (a \o b)[k] = IF k <= Len(a) THEN a[k] ELSE b[k - Len(a)]
    BY <2>1, ConcatProperties
  <2>3. /\ Len(a) \in Nat /\ DOMAIN a = 1 .. Len(a)
        /\ Len(b) \in Nat /\ DOMAIN b = 1 .. Len(b)
        /\ DOMAIN (a \o b) = 1 .. Len(a \o b)
    BY <2>1, <2>2, LenProperties
  <2> QED BY <2>1, <2>2, <2>3 DEF a, b
(* Each chunk is one of the parts so far.                                  *)
<1> DEFINE From(i) == \A k \in DOMAIN f[i] :
                        \E j \in 1 .. i : \E p \in DOMAIN parts[j] : f[i][k] = parts[j][p]
           A == {i \in 0 .. n : From(i) /\ (PartsApart(parts) => Apart(f[i]))}
<1>6. 0 \in A
  <2>1. DOMAIN f[0] = {}
    BY <1>3
  <2> QED BY <1>1, <2>1 DEF Apart
<1>7. ASSUME NEW i \in 1 .. n, i - 1 \in A PROVE i \in A
  <2> DEFINE m == Len(f[i - 1])
  <2>1. From(i - 1) /\ (PartsApart(parts) => Apart(f[i - 1]))
    BY <1>7
  <2>2. /\ m \in Nat /\ \A k \in DOMAIN f[i] : k \in Nat
        /\ \A k \in DOMAIN f[i] : k <= m => k \in DOMAIN f[i - 1] /\ f[i][k] = f[i - 1][k]
        /\ \A k \in DOMAIN f[i] : ~ (k <= m) =>
                k - m \in DOMAIN parts[i] /\ f[i][k] = parts[i][k - m]
    <3> DEFINE o == Len(parts[i])
    <3>1. /\ m \in Nat /\ o \in Nat /\ DOMAIN f[i] = 1 .. m + o
          /\ DOMAIN f[i - 1] = 1 .. m /\ DOMAIN parts[i] = 1 .. o
          /\ \A k \in DOMAIN f[i] : f[i][k] = IF k <= m THEN f[i - 1][k] ELSE parts[i][k - m]
      BY <1>5
    <3> HIDE DEF m, o
    <3>2. \A k \in 1 .. m + o : /\ k \in Nat /\ (k <= m => k \in 1 .. m)
                                /\ (~ (k <= m) => k - m \in 1 .. o)
      BY <3>1
    <3> QED BY <3>1, <3>2
  <2> HIDE DEF m
  <2>3. \A j \in 1 .. (i - 1) : j \in 1 .. i /\ j \in 1 .. n /\ j # i
    BY <1>1
  <2>4. i \in 1 .. i
    BY <1>1
  <2>5. ASSUME NEW k \in DOMAIN f[i]
        PROVE  \E j \in 1 .. i : \E p \in DOMAIN parts[j] : f[i][k] = parts[j][p]
    <3>1. CASE k <= m
      <4>1. PICK j \in 1 .. (i - 1) : \E p \in DOMAIN parts[j] : f[i - 1][k] = parts[j][p]
        BY <2>1, <2>2, <3>1
      <4> QED BY <2>2, <2>3, <3>1, <4>1
    <3>2. CASE ~ (k <= m)
      BY <2>2, <2>4, <3>2
    <3> QED BY <3>1, <3>2
  <2>6. ASSUME PartsApart(parts), NEW k \in DOMAIN f[i], NEW l \in DOMAIN f[i],
               f[i][k].locator = f[i][l].locator, k <= m, ~ (l <= m)
        PROVE  FALSE
    <3>1. PICK j \in 1 .. (i - 1) : \E p \in DOMAIN parts[j] : f[i - 1][k] = parts[j][p]
      BY <2>1, <2>2, <2>6
    <3>2. PICK p \in DOMAIN parts[j] : f[i - 1][k] = parts[j][p]
      BY <3>1
    <3>3. parts[j][p].locator = parts[i][l - m].locator
      BY <2>2, <2>6, <3>2
    <3> QED BY <1>1, <2>2, <2>3, <2>6, <3>3 DEF PartsApart
  <2>7. ASSUME PartsApart(parts), NEW k \in DOMAIN f[i], NEW l \in DOMAIN f[i],
               f[i][k].locator = f[i][l].locator, ~ (k <= m), ~ (l <= m)
        PROVE  k = l
    <3>1. parts[i][k - m].locator = parts[i][l - m].locator
      BY <2>2, <2>7
    <3>2. k - m \in DOMAIN parts[i] /\ l - m \in DOMAIN parts[i]
      BY <2>2, <2>7
    <3>3. \A p, q \in DOMAIN parts[i] : parts[i][p].locator = parts[i][q].locator => p = q
      BY <1>1, <2>7 DEF PartsApart
    <3>4. k - m = l - m
      BY <3>1, <3>2, <3>3
    <3> QED BY <2>2, <3>4
  <2>8. PartsApart(parts) => Apart(f[i])
    <3> SUFFICES ASSUME PartsApart(parts), NEW k \in DOMAIN f[i], NEW l \in DOMAIN f[i],
                        f[i][k].locator = f[i][l].locator
                 PROVE  k = l
      BY DEF Apart
    <3>1. CASE k <= m /\ l <= m
      BY <2>1, <2>2, <3>1 DEF Apart
    <3> QED BY <2>6, <2>7, <3>1
  <2>9. i \in 0 .. n
    BY <1>1
  <2> QED BY <2>5, <2>8, <2>9
<1> HIDE DEF A
<1>8. \A i \in 0 .. n : i \in A
  BY <1>1, <1>6, <1>7, CountingUp
<1>9. n \in 0 .. n
  BY <1>1
<1>10. From(n) /\ (PartsApart(parts) => Apart(f[n]))
  BY <1>8, <1>9 DEF A
<1> HIDE DEF From
<1> DEFINE g == [i \in 0 .. n |-> Total(WordsIn(f[i]))]
<1>11. Adds(g, totals)
  <2>1. g[0] = 0
    <3>1. WordsIn(<<>>) = <<>> /\ 0 \in 0 .. n
      BY <1>1 DEF WordsIn
    <3> QED BY <1>3, <3>1, TotalOfNothing
  <2>2. ASSUME NEW i \in 1 .. n PROVE g[i] = g[i - 1] + totals[i]
    <3>1. i \in 0 .. n /\ i - 1 \in 0 .. n
      BY <1>1
    <3>2. WordsIn(f[i]) = WordsIn(f[i - 1]) \o WordsIn(parts[i])
      BY <1>1, <1>3, WordsOfConcatenation DEF C
    <3>3. WordsIn(f[i - 1]) \in Seq(Nat) /\ WordsIn(parts[i]) \in Seq(Nat)
      BY <1>1, <1>3, WordsOfChunks DEF C
    <3>4. Total(WordsIn(f[i])) = Total(WordsIn(f[i - 1])) + Total(WordsIn(parts[i]))
      BY <3>2, <3>3, TotalOfConcatenation
    <3> QED BY <1>4, <3>1, <3>4
  <2> HIDE DEF g
  <2> QED BY <1>4, <2>1, <2>2 DEF Adds
<1>12. Total(totals) = Total(WordsIn(f[n]))
  <2>1. g[n] = Total(WordsIn(f[n]))
    BY <1>9
  <2> HIDE DEF g
  <2> QED BY <1>4, <1>11, <2>1, TotalIs
<1>13. FlattenSeq(parts) \in Seq(C)
  BY <1>2, <1>9 DEF n
<1>14. \A k \in DOMAIN FlattenSeq(parts) :
         \E i \in DOMAIN parts : \E p \in DOMAIN parts[i] : FlattenSeq(parts)[k] = parts[i][p]
  <2>1. DOMAIN parts = 1 .. n /\ FlattenSeq(parts) = f[n]
    BY <1>1, <1>2 DEF n
  <2> QED BY <1>10, <2>1 DEF From
<1> QED BY <1>2, <1>4, <1>10, <1>12, <1>13, <1>14 DEF C, totals, n

-----------------------------------------------------------------------------
(* Names of columns.                                                       *)

LetterSet == {Letters[k] : k \in 1 .. 26}

Nr(letter) == CHOOSE k \in 1 .. 26 : Letters[k] = letter

LEMMA LettersDiffer == \A i, j \in 1 .. 26 : Letters[i] = Letters[j] => i = j
BY SMTT(60) DEF Letters

LEMMA NrOfLetter ==
    /\ \A k \in 1 .. 26 : Letters[k] \in LetterSet /\ Nr(Letters[k]) = k
    /\ \A l \in LetterSet : Nr(l) \in 1 .. 26
<1>1. ASSUME NEW k \in 1 .. 26 PROVE Letters[k] \in LetterSet /\ Nr(Letters[k]) = k
  <2>1. \A i \in 1 .. 26 : Letters[i] = Letters[k] <=> i = k
    BY LettersDiffer
  <2> QED BY <2>1 DEF LetterSet, Nr
<1>2. ASSUME NEW l \in LetterSet PROVE Nr(l) \in 1 .. 26
  <2>1. PICK k \in 1 .. 26 : l = Letters[k]
    BY DEF LetterSet
  <2> QED BY <1>1, <2>1
<1> QED BY <1>1, <1>2

(* The number of a name, letter by letter.                                 *)
LEMMA ColumnNumberIs ==
    ASSUME NEW name \in Seq(LetterSet)
    PROVE  \E f \in [0 .. Len(name) -> Nat] :
             /\ f[0] = 0 /\ f[Len(name)] = ColumnNumber(name)
             /\ \A k \in 1 .. Len(name) : f[k] = 26 * f[k - 1] + Nr(name[k])
<1> DEFINE n == Len(name)
           read == [l \in LetterSet |-> [m \in Nat |-> 26 * m + Nr(l)]]
           up(g) == g = [t \in SUBSET DOMAIN name |->
                            IF t = {} THEN 0
                            ELSE 26 * g[t \ {Max(t)}]
                                   + (CHOOSE k \in 1 .. 26 : Letters[k] = name[Max(t)])]
<1>1. /\ n \in Nat /\ DOMAIN name = 1 .. n /\ name \in [1 .. n -> LetterSet]
      /\ \A k \in 1 .. n : name[k] \in LetterSet
  BY LenProperties
<1> HIDE DEF n
<1>2. read \in [LetterSet -> [Nat -> Nat]]
      /\ \A l \in LetterSet, m \in Nat : read[l][m] = 26 * m + Nr(l)
  <2>1. \A l \in LetterSet : Nr(l) \in Nat
    <3>1. \A k \in 1 .. 26 : k \in Nat
      OBVIOUS
    <3> QED BY <3>1, NrOfLetter, Zenon
  <2> QED BY <2>1
<1> HIDE DEF read
<1>3. PICK g \in [PositionSets(n) -> Nat] :
         FoldsLeft(g, 0, read, name, n) /\ RunsOver(g, 0, read, name, n)
  BY <1>1, <1>2, LeftFoldsExist
<1>4. \A t \in SUBSET (1 .. n) :
         g[t] = IF t = {} THEN 0 ELSE 26 * g[t \ {Max(t)}] + Nr(name[Max(t)])
  <2> SUFFICES ASSUME NEW t \in SUBSET (1 .. n)
               PROVE  g[t] = IF t = {} THEN 0 ELSE 26 * g[t \ {Max(t)}] + Nr(name[Max(t)])
    OBVIOUS
  <2>1. g[t] = IF t = {} THEN 0 ELSE read[name[Max(t)]][g[t \ {Max(t)}]]
    BY <1>3 DEF FoldsLeft
  <2>2. t # {} => Max(t) \in 1 .. n /\ g[t \ {Max(t)}] \in Nat
    BY <1>1, <1>3, MaxIsElement DEF PositionSets
  <2> QED BY <1>1, <1>2, <2>1, <2>2
<1>5. up(g)
  BY <1>1, <1>3, <1>4 DEF PositionSets, Nr
<1>6. PICK h : up(h) /\ ColumnNumber(name) = h[DOMAIN name]
  BY <1>5 DEF ColumnNumber, FoldLeft, MapThenFoldSet
<1>7. \A t \in SUBSET (1 .. n) :
         h[t] = IF t = {} THEN 0 ELSE 26 * h[t \ {Max(t)}] + Nr(name[Max(t)])
  BY <1>1, <1>6 DEF Nr
<1> HIDE DEF up
<1> DEFINE f == [k \in 0 .. n |-> g[1 .. k]]
<1>8. /\ f \in [0 .. n -> Nat] /\ f[0] = g[1 .. 0]
      /\ \A k \in 1 .. n : f[k] = g[1 .. k] /\ f[k - 1] = g[1 .. (k - 1)]
  <2>1. \A k \in 0 .. n : 1 .. k \in PositionSets(n)
    BY <1>1 DEF PositionSets
  <2>2. 0 \in 0 .. n /\ \A k \in 1 .. n : k \in 0 .. n /\ k - 1 \in 0 .. n
    BY <1>1
  <2> QED BY <1>3, <2>1, <2>2
<1>9. ASSUME NEW k \in 1 .. n
      PROVE  /\ g[1 .. k] = 26 * g[1 .. (k - 1)] + Nr(name[k])
             /\ h[1 .. k] = 26 * h[1 .. (k - 1)] + Nr(name[k])
  <2>1. /\ Max(1 .. k) = k /\ 1 .. k \in SUBSET (1 .. n)
        /\ 1 .. k # {} /\ (1 .. k) \ {k} = 1 .. (k - 1)
    BY <1>1, MaxOfPrefix
  <2> QED BY <1>4, <1>7, <2>1
<1>10. g[1 .. 0] = 0 /\ h[1 .. 0] = 0
  <2>1. 1 .. 0 = {}
    OBVIOUS
  <2> QED BY <1>4, <1>7, <2>1
<1>11. \A k \in 0 .. n : g[1 .. k] = h[1 .. k]
  <2> DEFINE A == {k \in 0 .. n : g[1 .. k] = h[1 .. k]}
  <2>1. 0 \in A
    BY <1>1, <1>10
  <2>2. \A k \in 1 .. n : k - 1 \in A => k \in A
    BY <1>1, <1>9
  <2> HIDE DEF A
  <2>3. \A k \in 0 .. n : k \in A
    BY <1>1, <2>1, <2>2, CountingUp
  <2> QED BY <2>3 DEF A
<1>12. ColumnNumber(name) = f[n]
  BY <1>1, <1>6, <1>8, <1>11
<1> HIDE DEF f
<1>13. f[0] = 0 /\ \A k \in 1 .. n : f[k] = 26 * f[k - 1] + Nr(name[k])
  BY <1>8, <1>9, <1>10
<1> QED BY <1>8, <1>12, <1>13 DEF n

LEMMA ColumnNumberOfMore ==
    ASSUME NEW name \in Seq(LetterSet), NEW l \in LetterSet
    PROVE  /\ ColumnNumber(<<>>) = 0
           /\ ColumnNumber(Append(name, l)) = 26 * ColumnNumber(name) + Nr(l)
<1> DEFINE n == Len(name)
           more == Append(name, l)
<1>1. /\ n \in Nat /\ more \in Seq(LetterSet) /\ Len(more) = n + 1 /\ more[n + 1] = l
      /\ \A k \in 1 .. n : more[k] = name[k]
      /\ <<>> \in Seq(LetterSet) /\ Len(<<>>) = 0
  BY AppendProperties, LenProperties, EmptySeq
<1>2. PICK f \in [0 .. Len(more) -> Nat] :
         /\ f[0] = 0 /\ f[Len(more)] = ColumnNumber(more)
         /\ \A k \in 1 .. Len(more) : f[k] = 26 * f[k - 1] + Nr(more[k])
  BY <1>1, ColumnNumberIs
<1>3. PICK g \in [0 .. Len(name) -> Nat] :
         /\ g[0] = 0 /\ g[Len(name)] = ColumnNumber(name)
         /\ \A k \in 1 .. Len(name) : g[k] = 26 * g[k - 1] + Nr(name[k])
  BY ColumnNumberIs
<1> HIDE DEF more, n
<1> DEFINE A == {k \in 0 .. n : f[k] = g[k]}
<1>4. 0 \in A /\ \A k \in 1 .. n : k - 1 \in A => k \in A
  <2>1. \A k \in 1 .. n : k \in 1 .. n + 1 /\ k \in 0 .. n /\ 0 \in 0 .. n
    BY <1>1
  <2> QED BY <1>1, <1>2, <1>3, <2>1 DEF n
<1>5. \A k \in 0 .. n : k \in A
  <2> HIDE DEF A
  <2> QED BY <1>1, <1>4, CountingUp
<1>6. f[n] = g[n]
  BY <1>1, <1>5
<1>7. f[n + 1] = 26 * f[n] + Nr(l)
  <2>1. n + 1 \in 1 .. n + 1 /\ (n + 1) - 1 = n
    BY <1>1
  <2> QED BY <1>1, <1>2, <2>1
<1>8. ColumnNumber(<<>>) = 0
  <2>1. PICK e \in [0 .. Len(<<>>) -> Nat] : e[0] = 0 /\ e[Len(<<>>)] = ColumnNumber(<<>>)
    BY <1>1, ColumnNumberIs
  <2> QED BY <1>1, <2>1
<1> QED BY <1>1, <1>2, <1>3, <1>6, <1>7, <1>8 DEF n, more

(* The name of a column and its number tell each other.                    *)
LEMMA ColumnNameIs ==
    \A k \in Nat : ColumnName(k) \in Seq(LetterSet) /\ ColumnNumber(ColumnName(k)) = k
<1> DEFINE last(k) == Letters[((k - 1) % 26) + 1]
           down == [k \in Nat |-> IF k = 0 THEN 0 ELSE (k - 1) \div 26]
           write == [k \in Nat |-> [s \in Seq(LetterSet) |-> Append(s, last(IF k = 0 THEN 1 ELSE k))]]
           up(f) == f = [k \in Nat |-> IF k = 0 THEN <<>>
                                       ELSE Append(f[(k - 1) \div 26], last(k))]
<1>1. ASSUME NEW k \in Nat, k # 0
      PROVE  /\ (k - 1) \div 26 \in Nat /\ (k - 1) \div 26 < k
             /\ ((k - 1) % 26) + 1 \in 1 .. 26
             /\ 26 * ((k - 1) \div 26) + (((k - 1) % 26) + 1) = k
  BY <1>1
<1>2. \A k \in Nat : k # 0 => last(k) \in LetterSet /\ Nr(last(k)) = ((k - 1) % 26) + 1
  BY <1>1, NrOfLetter
<1>3. /\ <<>> \in Seq(LetterSet)
      /\ \A s \in Seq(LetterSet), l \in LetterSet : Append(s, l) \in Seq(LetterSet)
  BY EmptySeq, AppendProperties
<1>4. down \in [Nat -> Nat] /\ \A k \in Nat : k # 0 => down[k] = (k - 1) \div 26 /\ down[k] < k
  BY <1>1
<1> HIDE DEF last
<1>5. /\ write \in [Nat -> [Seq(LetterSet) -> Seq(LetterSet)]]
      /\ \A k \in Nat, s \in Seq(LetterSet) : k # 0 => write[k][s] = Append(s, last(k))
  BY <1>2, <1>3
<1> HIDE DEF write, down
<1>6. PICK f \in [Nat -> Seq(LetterSet)] : Recurs(f, <<>>, write, down)
  BY <1>3, <1>4, <1>5, RecursionExists
<1>7. \A k \in Nat : f[k] = IF k = 0 THEN <<>> ELSE Append(f[(k - 1) \div 26], last(k))
  BY <1>1, <1>4, <1>5, <1>6 DEF Recurs
<1>8. up(f)
  BY <1>6, <1>7
<1>9. PICK h : up(h) /\ \A k : ColumnName(k) = h[k]
  BY <1>8 DEF ColumnName, last
<1>10. \A k \in Nat : h[k] = IF k = 0 THEN <<>> ELSE Append(h[(k - 1) \div 26], last(k))
  BY <1>9
<1> HIDE DEF up
<1> DEFINE ok(k) == h[k] \in Seq(LetterSet) /\ ColumnNumber(h[k]) = k
           bad == {k \in Nat : ~ ok(k)}
<1>11. bad = {}
  <2> SUFFICES ASSUME bad # {} PROVE FALSE
    OBVIOUS
  <2>1. PICK k \in bad : \A i \in bad : k <= i
    <3>1. bad \in SUBSET Nat
      OBVIOUS
    <3> QED BY <3>1, LeastNatural
  <2>2. CASE k = 0
    <3>1. Letters[1] \in LetterSet
      BY NrOfLetter
    <3> QED BY <1>3, <1>10, <2>1, <2>2, <3>1, ColumnNumberOfMore
  <2>3. CASE k # 0
    <3> DEFINE q == (k - 1) \div 26
    <3>1. k \in Nat /\ q \in Nat /\ q < k
      BY <1>1, <2>1, <2>3
    <3>2. ok(q)
      BY <2>1, <3>1
    <3>3. h[k] = Append(h[q], last(k)) /\ last(k) \in LetterSet
      BY <1>2, <1>10, <2>3, <3>1
    <3>4. ColumnNumber(h[k]) = 26 * q + Nr(last(k))
      BY <3>2, <3>3, ColumnNumberOfMore
    <3>5. 26 * q + Nr(last(k)) = k
      BY <1>1, <1>2, <2>3, <3>1
    <3> QED BY <1>3, <2>1, <3>2, <3>3, <3>4, <3>5
  <2> QED BY <2>2, <2>3
<1> QED BY <1>9, <1>11

-----------------------------------------------------------------------------
(* The formats.                                                            *)

(* The chunks of a file hold its text: their locators lead back to it and  *)
(* no two share one, where cells have references; they hold all words that *)
(* are read, and there are some if there is any.                           *)
HoldText(kind, file, chunks) ==
    /\ Referenced(kind, file) =>
        /\ \A k \in DOMAIN chunks : chunks[k].words = WordsAt(kind, file, chunks[k].locator)
        /\ Apart(chunks)
    /\ Total(WordsIn(chunks)) = WordsOf(kind, Readable(kind, file))
    /\ chunks = <<>> <=> WordsOf(kind, Readable(kind, file)) = 0

LEMMA SomeChunkSomeText ==
    ASSUME NEW L, NEW chunks \in Seq(ChunksOf(L)),
           \A k \in DOMAIN chunks : chunks[k].words > 0
    PROVE  chunks = <<>> <=> Total(WordsIn(chunks)) = 0
<1>1. WordsIn(chunks) \in Seq(Nat) /\ Len(WordsIn(chunks)) = Len(chunks)
  BY WordsOfChunks
<1>2. Len(chunks) \in Nat /\ DOMAIN chunks = 1 .. Len(chunks)
  BY LenProperties
<1>3. Total(WordsIn(chunks)) = 0 <=> \A k \in DOMAIN chunks : chunks[k].words = 0
  BY <1>1, TotalIsZero DEF WordsIn
<1>4. chunks = <<>> <=> Len(chunks) = 0
  BY EmptySeq
<1>5. Len(chunks) # 0 => 1 \in DOMAIN chunks
  BY <1>2
<1>6. Len(chunks) = 0 => DOMAIN chunks = {}
  BY <1>2
<1>7. \A k \in DOMAIN chunks : ~ (chunks[k].words = 0)
  OBVIOUS
<1> QED BY <1>3, <1>4, <1>5, <1>6, <1>7

(* Chunks that are the units with words, in order.                         *)
ChunksAt(F, L, loc, words, quality, chunks) ==
    /\ words \in Seq(Nat) /\ F = Filled(words)
    /\ chunks = [k \in DOMAIN F |-> Chunk(loc[k], words[F[k]], quality[k])]
    /\ \A k \in DOMAIN F :
        loc[k] \in L /\ quality[k] \in {"low_quality", "extraction_success"}

LEMMA UnitChunks ==
    ASSUME NEW words, NEW F, NEW L, NEW loc, NEW quality, NEW chunks,
           ChunksAt(F, L, loc, words, quality, chunks)
    PROVE  /\ chunks \in Seq(ChunksOf(L))
           /\ (\A i, j \in DOMAIN F : loc[i] = loc[j] => i = j) => Apart(chunks)
           /\ DOMAIN chunks = DOMAIN F
           /\ \A k \in DOMAIN chunks : /\ chunks[k].locator = loc[k]
                                       /\ chunks[k].words = words[F[k]]
                                       /\ chunks[k].words > 0
           /\ Total(WordsIn(chunks)) = Total(words)
           /\ chunks = <<>> <=> Total(words) = 0
           /\ Len(chunks) = Len(F)
<1> USE DEF ChunksAt
<1>1. /\ F \in Seq(DOMAIN words)
      /\ \A j \in DOMAIN F : F[j] \in DOMAIN words /\ words[F[j]] > 0
  BY FilledIs
<1>2. [j \in DOMAIN F |-> words[F[j]]] \in Seq(Nat)
      /\ Total([j \in DOMAIN F |-> words[F[j]]]) = Total(words)
  BY FilledHoldsAll
<1>3. \A k \in DOMAIN words : words[k] \in Nat
  BY LenProperties
<1>4. Len(F) \in Nat /\ DOMAIN F = 1 .. Len(F)
  BY <1>1, LenProperties
<1>5. chunks = [k \in 1 .. Len(F) |-> Chunk(loc[k], words[F[k]], quality[k])]
  BY <1>4
<1>6. DOMAIN chunks = DOMAIN F
  BY <1>4, <1>5
<1>7. ASSUME NEW k \in DOMAIN chunks
      PROVE  /\ chunks[k].locator = loc[k] /\ chunks[k].words = words[F[k]]
             /\ chunks[k].words > 0 /\ chunks[k] \in ChunksOf(L)
  <2>1. chunks[k] = Chunk(loc[k], words[F[k]], quality[k])
    BY <1>4, <1>5
  <2>2. words[F[k]] \in Nat /\ words[F[k]] > 0
    BY <1>1, <1>3, <1>6
  <2>3. loc[k] \in L /\ quality[k] \in {"low_quality", "extraction_success"}
    BY <1>6
  <2> QED BY <2>1, <2>2, <2>3 DEF Chunk, ChunksOf
<1>8. chunks \in Seq(ChunksOf(L)) /\ Len(chunks) = Len(F)
  <2>1. \A k \in 1 .. Len(F) : chunks[k] \in ChunksOf(L)
    BY <1>4, <1>6, <1>7
  <2>2. chunks = [k \in 1 .. Len(F) |-> chunks[k]]
    BY <1>5
  <2> QED BY <1>4, <2>1, <2>2
<1>9. (\A i, j \in DOMAIN F : loc[i] = loc[j] => i = j) => Apart(chunks)
  BY <1>6, <1>7 DEF Apart
<1>10. WordsIn(chunks) = [j \in DOMAIN F |-> words[F[j]]]
  BY <1>6, <1>7 DEF WordsIn
<1>11. Total(WordsIn(chunks)) = Total(words)
  BY <1>2, <1>10
<1>12. chunks = <<>> <=> Total(words) = 0
  <2>1. \A k \in DOMAIN chunks : chunks[k].words > 0
    BY <1>7
  <2>2. chunks = <<>> <=> Total(WordsIn(chunks)) = 0
    BY ONLY <1>8, <2>1, SomeChunkSomeText
  <2> QED BY <1>11, <2>2
<1> QED BY <1>6, <1>7, <1>8, <1>9, <1>11, <1>12

(* Pages, slides and lines: the locator is the unit's number.              *)
UnitsAt(name, file, F, quality, chunks) ==
    /\ F = Filled(file)
    /\ chunks = [k \in DOMAIN F |-> Chunk(<<name, F[k]>>, file[F[k]], quality[k])]
    /\ \A k \in DOMAIN F : quality[k] \in {"low_quality", "extraction_success"}

LEMMA NumberedUnits ==
    ASSUME NEW kind \in {"pdf", "pptx", "txt"}, NEW file \in Seq(Nat), NEW name,
           NEW F, NEW quality, NEW chunks, UnitsAt(name, file, F, quality, chunks)
    PROVE  HoldText(kind, file, chunks) /\ Len(chunks) = Len(F)
<1> USE DEF UnitsAt
<1> DEFINE loc == [k \in DOMAIN F |-> <<name, F[k]>>]
           L == {name} \X DOMAIN file
<1>1. /\ \A k \in DOMAIN F : F[k] \in DOMAIN file
      /\ \A i, j \in DOMAIN F : F[i] = F[j] => i = j
  BY FilledIs
<1>2. /\ \A k \in DOMAIN F : loc[k] \in L
      /\ \A k \in DOMAIN F : loc[k] = <<name, F[k]>> /\ loc[k][2] = F[k]
      /\ \A i, j \in DOMAIN F : loc[i] = loc[j] => i = j
  BY <1>1
<1>3. ChunksAt(F, L, loc, file, quality, chunks)
  BY <1>2 DEF ChunksAt
<1> HIDE DEF loc, L
<1>4. /\ chunks \in Seq(ChunksOf(L)) /\ Apart(chunks) /\ DOMAIN chunks = DOMAIN F
      /\ \A k \in DOMAIN chunks : chunks[k].locator = loc[k] /\ chunks[k].words = file[F[k]]
      /\ Total(WordsIn(chunks)) = Total(file)
      /\ chunks = <<>> <=> Total(file) = 0
      /\ Len(chunks) = Len(F)
  BY <1>2, <1>3, UnitChunks
<1>5. /\ WordsOf(kind, Readable(kind, file)) = Total(file)
      /\ \A p : WordsAt(kind, file, p) = file[p[2]]
  BY DEF WordsOf, WordsAt, Readable
<1>6. \A k \in DOMAIN chunks : chunks[k].words = WordsAt(kind, file, chunks[k].locator)
  BY <1>2, <1>4, <1>5
<1> QED BY <1>4, <1>5, <1>6 DEF HoldText

(* Paragraphs: the locator is a paragraph's number among those with words. *)
LEMMA SectionsHoldText ==
    ASSUME NEW file \in Seq([words : Nat, title : BOOLEAN])
    PROVE  HoldText("docx", file, ParseDocx(file).chunks)
<1> DEFINE words == [k \in DOMAIN file |-> file[k].words]
           F == Filled(words)
           titles(k) == {i \in 1 .. k : file[F[i]].title}
           Section(k) == IF titles(k) = {} THEN 0
                         ELSE CHOOSE i \in titles(k) : \A j \in titles(k) : j <= i
           loc == [k \in DOMAIN F |-> <<"section", Section(k), k>>]
           quality == [k \in DOMAIN F |-> "extraction_success"]
           chunks == [k \in DOMAIN F |-> Chunk(loc[k], words[F[k]], quality[k])]
           L == {loc[k] : k \in DOMAIN F}
<1>1. /\ words \in Seq(Nat) /\ DOMAIN words = DOMAIN file
      /\ \A k \in DOMAIN file : words[k] = file[k].words
  <2>1. DOMAIN file = 1 .. Len(file) /\ Len(file) \in Nat
        /\ \A k \in 1 .. Len(file) : file[k] \in [words : Nat, title : BOOLEAN]
    BY LenProperties
  <2>2. \A k \in 1 .. Len(file) : file[k].words \in Nat
    BY <2>1
  <2> QED BY <2>1, <2>2
<1>2. \A k \in DOMAIN F : F[k] \in DOMAIN file
  <2> HIDE DEF words
  <2> QED BY <1>1, FilledIs
<1>3. ParseDocx(file).chunks = chunks
  <2> DEFINE direct == [k \in DOMAIN F |->
                          Chunk(<<"section", Section(k), k>>, file[F[k]].words,
                                "extraction_success")]
  <2>1. ParseDocx(file) = Structured(direct, 1)
    BY DEF ParseDocx
  <2>2. direct = chunks
    <3> HIDE DEF F, Section
    <3> QED BY <1>1, <1>2
  <2> HIDE DEF direct, chunks
  <2> QED BY <2>1, <2>2 DEF Structured, Extraction
<1>4. \A k \in DOMAIN F : loc[k] \in L /\ loc[k][3] = k
  <2> HIDE DEF F, Section
  <2> QED OBVIOUS
<1>5. \A k \in DOMAIN F : quality[k] = "extraction_success"
  OBVIOUS
<1>6. F = InOrder({k \in DOMAIN file : file[k].words > 0})
  <2>1. {k \in DOMAIN words : words[k] > 0} = {k \in DOMAIN file : file[k].words > 0}
    BY <1>1
  <2> QED BY <2>1 DEF Filled
<1>7. F = Filled(words)
  OBVIOUS
<1>8. chunks = [k \in DOMAIN F |-> Chunk(loc[k], words[F[k]], quality[k])]
  OBVIOUS
<1>9. WordsOf("docx", Readable("docx", file)) = Total(words)
  BY DEF WordsOf, Readable
<1> HIDE DEF words, F, loc, quality, chunks, L
<1>10. ChunksAt(F, L, loc, words, quality, chunks)
  BY <1>1, <1>4, <1>5, <1>7, <1>8 DEF ChunksAt
<1>11. /\ Apart(chunks) /\ DOMAIN chunks = DOMAIN F
       /\ \A k \in DOMAIN chunks : chunks[k].locator = loc[k] /\ chunks[k].words = words[F[k]]
       /\ Total(WordsIn(chunks)) = Total(words)
       /\ chunks = <<>> <=> Total(words) = 0
  BY <1>4, <1>10, UnitChunks
<1>12. \A p : WordsAt("docx", file, p) = file[F[p[3]]].words
  BY <1>6 DEF WordsAt
<1>13. ASSUME NEW k \in DOMAIN chunks
       PROVE  chunks[k].words = WordsAt("docx", file, chunks[k].locator)
  <2>1. k \in DOMAIN F /\ chunks[k].locator = loc[k] /\ chunks[k].words = words[F[k]]
    BY <1>11
  <2>2. words[F[k]] = file[F[k]].words
    BY <1>1, <1>2, <2>1
  <2>3. WordsAt("docx", file, loc[k]) = file[F[k]].words
    BY <1>4, <1>12, <2>1
  <2> QED BY <2>1, <2>2, <2>3
<1> QED BY <1>3, <1>9, <1>11, <1>13 DEF HoldText

(* The cells of a sheet or a row.                                          *)
CellsOf(cells, loc) ==
    [k \in DOMAIN Filled(cells) |->
        Chunk(loc[k], cells[Filled(cells)[k]], "extraction_success")]

LEMMA CellChunks ==
    ASSUME NEW cells \in Seq(Nat), NEW L, NEW loc,
           \A k \in DOMAIN Filled(cells) : loc[k] \in L
    PROVE  /\ CellsOf(cells, loc) \in Seq(ChunksOf(L))
           /\ DOMAIN CellsOf(cells, loc) = DOMAIN Filled(cells)
           /\ \A k \in DOMAIN CellsOf(cells, loc) :
                /\ CellsOf(cells, loc)[k].locator = loc[k]
                /\ CellsOf(cells, loc)[k].words = cells[Filled(cells)[k]]
                /\ CellsOf(cells, loc)[k].words > 0
           /\ Total(WordsIn(CellsOf(cells, loc))) = Total(cells)
<1> DEFINE F == Filled(cells)
           quality == [k \in DOMAIN F |-> "extraction_success"]
           chunks == CellsOf(cells, loc)
<1>1. chunks = [k \in DOMAIN F |-> Chunk(loc[k], cells[F[k]], quality[k])]
  BY DEF CellsOf
<1>2. \A k \in DOMAIN F : quality[k] = "extraction_success"
  OBVIOUS
<1>3. F = Filled(cells)
  OBVIOUS
<1> HIDE DEF F, quality, chunks
<1>4. ChunksAt(F, L, loc, cells, quality, chunks)
  BY <1>1, <1>2, <1>3 DEF ChunksAt
<1>5. /\ chunks \in Seq(ChunksOf(L)) /\ DOMAIN chunks = DOMAIN F
      /\ \A k \in DOMAIN chunks : /\ chunks[k].locator = loc[k] /\ chunks[k].words = cells[F[k]]
                                  /\ chunks[k].words > 0
      /\ Total(WordsIn(chunks)) = Total(cells)
  BY <1>4, UnitChunks
<1> QED BY <1>5 DEF F, chunks

(* A workbook's cells and a table's, sheet by sheet and row by row.        *)
CellsMakeUp(parts, L) ==
    /\ parts \in Seq(Seq(ChunksOf(L)))
    /\ \A i \in DOMAIN parts : \A p \in DOMAIN parts[i] : parts[i][p].words > 0

LEMMA PartsHoldText ==
    ASSUME NEW kind, NEW file, NEW L, NEW parts, CellsMakeUp(parts, L),
           Referenced(kind, file) =>
                /\ PartsApart(parts)
                /\ \A i \in DOMAIN parts : \A p \in DOMAIN parts[i] :
                        parts[i][p].words = WordsAt(kind, file, parts[i][p].locator),
           WordsOf(kind, Readable(kind, file))
                = Total([i \in DOMAIN parts |-> Total(WordsIn(parts[i]))])
    PROVE  HoldText(kind, file, FlattenSeq(parts))
<1> DEFINE flat == FlattenSeq(parts)
           totals == [i \in DOMAIN parts |-> Total(WordsIn(parts[i]))]
<1>1. /\ flat \in Seq(ChunksOf(L))
      /\ \A k \in DOMAIN flat : \E i \in DOMAIN parts : \E p \in DOMAIN parts[i] :
            flat[k] = parts[i][p]
      /\ PartsApart(parts) => Apart(flat)
      /\ Total(WordsIn(flat)) = Total(totals)
  BY FlattenedChunks, Zenon DEF CellsMakeUp
<1> HIDE DEF flat, totals
<1>2. ASSUME NEW k \in DOMAIN flat
      PROVE  /\ flat[k].words > 0
             /\ Referenced(kind, file) =>
                    flat[k].words = WordsAt(kind, file, flat[k].locator)
  <2>1. PICK i \in DOMAIN parts : \E p \in DOMAIN parts[i] : flat[k] = parts[i][p]
    BY <1>1
  <2>2. PICK p \in DOMAIN parts[i] : flat[k] = parts[i][p]
    BY <2>1
  <2> QED BY <2>2 DEF CellsMakeUp
<1>3. flat = <<>> <=> Total(WordsIn(flat)) = 0
  BY <1>1, <1>2, SomeChunkSomeText
<1> QED BY <1>1, <1>2, <1>3 DEF HoldText, flat, totals

Sheet == [name : STRING, target : {"relative", "absolute", "missing"},
          cells : Seq([words : Nat, rest : Nat, ref : BOOLEAN])]

LEMMA SheetsHoldText ==
    ASSUME NEW file \in Seq(Sheet),
           \A s, t \in DOMAIN file : file[s].name = file[t].name => s = t
    PROVE  HoldText("xlsx", file, ParseXlsx(file).chunks)
<1> DEFINE n == Len(file)
           W(s) == CellWords(file[s].cells)
           F(s) == Filled(W(s))
           Place(s, k) == IF file[s].cells[k].ref THEN k ELSE 0
           loc(s) == [k \in DOMAIN F(s) |-> <<"sheet_cell", file[s].name, Place(s, F(s)[k])>>]
           cells(s) == CellsOf(W(s), loc(s))
           parts == [s \in DOMAIN file |-> IF file[s].target = "relative" THEN cells(s) ELSE <<>>]
           L == {"sheet_cell"} \X STRING \X Nat
<1>1. /\ n \in Nat /\ DOMAIN file = 1 .. n
      /\ \A s \in 1 .. n : /\ file[s] \in Sheet /\ file[s].name \in STRING
                           /\ file[s].target \in {"relative", "absolute", "missing"}
                           /\ file[s].cells \in Seq([words : Nat, rest : Nat, ref : BOOLEAN])
  <2>1. n \in Nat /\ DOMAIN file = 1 .. n /\ \A s \in 1 .. n : file[s] \in Sheet
    BY LenProperties
  <2> HIDE DEF n
  <2> QED BY <2>1 DEF Sheet
<1> HIDE DEF n
<1>2. ASSUME NEW s \in 1 .. n
      PROVE  /\ W(s) \in Seq(Nat) /\ DOMAIN W(s) = DOMAIN file[s].cells
             /\ \A k \in DOMAIN file[s].cells : /\ W(s)[k] = file[s].cells[k].words
                                                /\ file[s].cells[k].words \in Nat
                                                /\ file[s].cells[k].ref \in BOOLEAN /\ k \in Nat
  <2> DEFINE at == file[s].cells
  <2>1. at \in Seq([words : Nat, rest : Nat, ref : BOOLEAN])
    BY <1>1
  <2> HIDE DEF at
  <2>2. /\ Len(at) \in Nat /\ DOMAIN at = 1 .. Len(at)
        /\ \A k \in 1 .. Len(at) : at[k] \in [words : Nat, rest : Nat, ref : BOOLEAN]
    BY <2>1, LenProperties
  <2>3. \A k \in 1 .. Len(at) : at[k].words \in Nat /\ at[k].ref \in BOOLEAN
    BY <2>2
  <2>4. CellWords(at) = [k \in 1 .. Len(at) |-> at[k].words]
    BY <2>2 DEF CellWords
  <2>5. CellWords(at) \in Seq(Nat) /\ DOMAIN CellWords(at) = DOMAIN at
    BY <2>2, <2>3, <2>4
  <2> QED BY <2>2, <2>3, <2>4, <2>5 DEF at
<1> HIDE DEF W
<1>3. ASSUME NEW s \in 1 .. n
      PROVE  /\ \A k \in DOMAIN F(s) :
                    /\ F(s)[k] \in DOMAIN file[s].cells
                    /\ loc(s)[k] = <<"sheet_cell", file[s].name, Place(s, F(s)[k])>>
                    /\ loc(s)[k] \in L
             /\ \A j, k \in DOMAIN F(s) : F(s)[j] = F(s)[k] => j = k
  <2>1. /\ \A k \in DOMAIN F(s) : F(s)[k] \in DOMAIN W(s)
        /\ \A j, k \in DOMAIN F(s) : F(s)[j] = F(s)[k] => j = k
    BY <1>2, FilledIs
  <2> HIDE DEF F
  <2>2. \A k \in DOMAIN F(s) : F(s)[k] \in DOMAIN file[s].cells /\ Place(s, F(s)[k]) \in Nat
    BY <1>2, <2>1
  <2> HIDE DEF Place
  <2> QED BY <1>1, <2>1, <2>2
<1>4. ASSUME NEW s \in 1 .. n
      PROVE  /\ cells(s) \in Seq(ChunksOf(L)) /\ DOMAIN cells(s) = DOMAIN F(s)
             /\ \A k \in DOMAIN cells(s) : /\ cells(s)[k].locator = loc(s)[k]
                                           /\ cells(s)[k].words = W(s)[F(s)[k]]
                                           /\ cells(s)[k].words > 0
             /\ Total(WordsIn(cells(s))) = Total(W(s))
  <2> DEFINE here == loc(s)
             at == W(s)
  <2>1. at \in Seq(Nat) /\ \A k \in DOMAIN Filled(at) : here[k] \in L
    BY <1>2, <1>3
  <2> HIDE DEF here, at, L
  <2>2. /\ CellsOf(at, here) \in Seq(ChunksOf(L))
        /\ DOMAIN CellsOf(at, here) = DOMAIN Filled(at)
        /\ \A k \in DOMAIN CellsOf(at, here) :
             /\ CellsOf(at, here)[k].locator = here[k]
             /\ CellsOf(at, here)[k].words = at[Filled(at)[k]]
             /\ CellsOf(at, here)[k].words > 0
        /\ Total(WordsIn(CellsOf(at, here))) = Total(at)
    BY <2>1, CellChunks
  <2> QED BY <2>2 DEF here, at
<1>5. ParseXlsx(file).chunks = FlattenSeq(parts)
  <2> DEFINE direct(s) == [k \in DOMAIN F(s) |->
                             Chunk(<<"sheet_cell", file[s].name, Place(s, F(s)[k])>>,
                                   file[s].cells[F(s)[k]].words, "extraction_success")]
             all == [s \in DOMAIN file |->
                        IF file[s].target = "relative" THEN direct(s) ELSE <<>>]
  <2>1. ParseXlsx(file) = Structured(FlattenSeq(all), 1)
    BY DEF ParseXlsx, W
  <2>2. \A s \in 1 .. n : direct(s) = cells(s)
    <3> SUFFICES ASSUME NEW s \in 1 .. n PROVE direct(s) = cells(s)
      OBVIOUS
    <3>1. \A k \in DOMAIN F(s) :
            /\ loc(s)[k] = <<"sheet_cell", file[s].name, Place(s, F(s)[k])>>
            /\ W(s)[F(s)[k]] = file[s].cells[F(s)[k]].words
      BY <1>2, <1>3
    <3> HIDE DEF loc, Place
    <3> QED BY <3>1 DEF CellsOf
  <2>3. all = parts
    <3> HIDE DEF direct, cells
    <3> QED BY <1>1, <2>2
  <2> HIDE DEF all, parts
  <2> QED BY <2>1, <2>3 DEF Structured, Extraction
<1>6. DOMAIN parts = 1 .. n
      /\ \A s \in 1 .. n : parts[s] = IF file[s].target = "relative" THEN cells(s) ELSE <<>>
  BY <1>1
<1> HIDE DEF cells
<1>7. parts \in Seq(Seq(ChunksOf(L)))
  <2>1. \A s \in 1 .. n : parts[s] \in Seq(ChunksOf(L))
    <3> HIDE DEF L, parts, loc, F
    <3>1. <<>> \in Seq(ChunksOf(L))
      BY EmptySeq
    <3> QED BY <1>4, <1>6, <3>1
  <2>2. parts = [s \in 1 .. n |-> parts[s]]
    BY <1>1
  <2> DEFINE T == Seq(ChunksOf(L))
  <2> HIDE DEF parts, T
  <2>3. parts \in [1 .. n -> T]
    BY <2>1, <2>2 DEF T
  <2>4. parts \in Seq(T)
    BY ONLY <1>1, <2>3
  <2> QED BY <2>4 DEF T
<1> HIDE DEF parts
<1>8. \A s \in 1 .. n : file[s].target # "relative" => DOMAIN parts[s] = {}
  BY <1>6
<1>9. ASSUME NEW s \in 1 .. n, NEW k \in DOMAIN parts[s]
      PROVE  /\ k \in DOMAIN F(s)
             /\ parts[s][k].locator = <<"sheet_cell", file[s].name, Place(s, F(s)[k])>>
             /\ parts[s][k].words = file[s].cells[F(s)[k]].words
             /\ parts[s][k].words > 0
  <2> HIDE DEF F, loc, L, Place
  <2>1. parts[s] = cells(s)
    BY <1>6, <1>8, <1>9
  <2>2. k \in DOMAIN cells(s) /\ k \in DOMAIN F(s)
    BY <1>4, <1>9, <2>1
  <2>3. /\ cells(s)[k].locator = loc(s)[k] /\ cells(s)[k].words = W(s)[F(s)[k]]
        /\ cells(s)[k].words > 0
    BY <1>4, <2>2
  <2>4. /\ loc(s)[k] = <<"sheet_cell", file[s].name, Place(s, F(s)[k])>>
        /\ W(s)[F(s)[k]] = file[s].cells[F(s)[k]].words
    BY <1>2, <1>3, <2>2
  <2> QED BY <2>1, <2>2, <2>3, <2>4
<1> HIDE DEF loc, F, L
<1>10. CellsMakeUp(parts, L)
  BY <1>6, <1>7, <1>9 DEF CellsMakeUp
<1>11. ASSUME Referenced("xlsx", file), NEW s \in 1 .. n, NEW k \in DOMAIN F(s)
       PROVE  Place(s, F(s)[k]) = F(s)[k]
  <2>1. F(s)[k] \in DOMAIN file[s].cells
    BY <1>3
  <2>2. file[s].cells[F(s)[k]] \in ToSet(file[s].cells)
    BY <2>1 DEF ToSet
  <2> QED BY <1>1, <1>11, <2>2 DEF Referenced
<1> HIDE DEF Place
<1>12. ASSUME Referenced("xlsx", file) PROVE PartsApart(parts)
  <2>1. ASSUME NEW i \in 1 .. n, NEW j \in 1 .. n, NEW p \in DOMAIN parts[i],
               NEW q \in DOMAIN parts[j], parts[i][p].locator = parts[j][q].locator
        PROVE  i = j /\ p = q
    <3>1. p \in DOMAIN F(i) /\ q \in DOMAIN F(j)
      BY <1>9
    <3>2. <<"sheet_cell", file[i].name, F(i)[p]>> = <<"sheet_cell", file[j].name, F(j)[q]>>
      BY <1>9, <1>11, <1>12, <2>1, <3>1
    <3>3. file[i].name = file[j].name /\ F(i)[p] = F(j)[q]
      BY <3>2
    <3>4. i = j
      BY <1>1, <3>3
    <3> QED BY <1>3, <3>1, <3>3, <3>4
  <2> QED BY <1>6, <2>1 DEF PartsApart
<1>13. ASSUME Referenced("xlsx", file), NEW s \in 1 .. n, NEW k \in DOMAIN parts[s]
       PROVE  parts[s][k].words = WordsAt("xlsx", file, parts[s][k].locator)
  <2> DEFINE place == parts[s][k].locator
  <2>1. place[2] = file[s].name /\ place[3] = F(s)[k]
    BY <1>9, <1>11, <1>13
  <2>2. WordsAt("xlsx", file, place)
          = (CHOOSE t \in ToSet(file) : t.name = place[2]).cells[place[3]].words
    BY DEF WordsAt
  <2>3. file[s] \in ToSet(file) /\ \A t \in ToSet(file) : t.name = file[s].name <=> t = file[s]
    BY <1>1 DEF ToSet
  <2>4. (CHOOSE t \in ToSet(file) : t.name = place[2]) = file[s]
    BY <2>1, <2>3
  <2>5. parts[s][k].words = file[s].cells[F(s)[k]].words
    BY <1>9, <1>13
  <2> HIDE DEF place
  <2>6. WordsAt("xlsx", file, place) = file[s].cells[F(s)[k]].words
    BY <2>1, <2>2, <2>4
  <2> QED BY <2>5, <2>6 DEF place
<1>14. WordsOf("xlsx", Readable("xlsx", file))
         = Total([i \in DOMAIN parts |-> Total(WordsIn(parts[i]))])
  <2> DEFINE read == Readable("xlsx", file)
             Sum(at) == Total([c \in DOMAIN at |-> at[c].words + at[c].rest])
             Held(k) == IF read[k].target = "missing" THEN 0 ELSE Sum(read[k].cells)
             first(s) == [c \in DOMAIN file[s].cells |-> [file[s].cells[c] EXCEPT !.rest = 0]]
  <2>1. /\ DOMAIN read = 1 .. n
        /\ \A s \in 1 .. n : read[s] = [file[s] EXCEPT !.cells =
                            IF file[s].target = "absolute" THEN <<>> ELSE first(s)]
    BY <1>1 DEF Readable
  <2> HIDE DEF read, first
  <2>2. \A s \in 1 .. n : /\ read[s].target = file[s].target
                          /\ read[s].cells = IF file[s].target = "absolute"
                                             THEN <<>> ELSE first(s)
    BY <1>1, <2>1 DEF Sheet
  <2>3. Sum(<<>>) = 0
    BY TotalOfNothing
  <2>4. ASSUME NEW s \in 1 .. n PROVE Sum(first(s)) = Total(W(s))
    <3> DEFINE at == file[s].cells
    <3>1. \A c \in DOMAIN at : at[c] \in [words : Nat, rest : Nat, ref : BOOLEAN]
      <4>1. at \in Seq([words : Nat, rest : Nat, ref : BOOLEAN])
        BY <1>1
      <4> HIDE DEF at
      <4>2. /\ DOMAIN at = 1 .. Len(at)
            /\ \A c \in 1 .. Len(at) : at[c] \in [words : Nat, rest : Nat, ref : BOOLEAN]
        BY <4>1, LenProperties
      <4> QED BY <4>2
    <3>2. DOMAIN first(s) = DOMAIN at
          /\ \A c \in DOMAIN at : first(s)[c].words = at[c].words /\ first(s)[c].rest = 0
      BY <3>1 DEF first
    <3> HIDE DEF at
    <3>3. [c \in DOMAIN first(s) |-> first(s)[c].words + first(s)[c].rest]
            = [c \in DOMAIN at |-> at[c].words]
      BY <3>1, <3>2
    <3>4. W(s) = [c \in DOMAIN at |-> at[c].words]
      BY DEF W, CellWords, at
    <3> QED BY <3>3, <3>4
  <2>5. \A s \in 1 .. n : Total(WordsIn(parts[s]))
                            = IF file[s].target = "relative" THEN Total(W(s)) ELSE 0
    <3> SUFFICES ASSUME NEW s \in 1 .. n
                 PROVE  Total(WordsIn(parts[s]))
                          = IF file[s].target = "relative" THEN Total(W(s)) ELSE 0
      OBVIOUS
    <3>1. WordsIn(<<>>) = <<>>
      BY DEF WordsIn
    <3> QED BY <1>4, <1>6, <3>1, TotalOfNothing
  <2>6. WordsOf("xlsx", read) = Total([k \in DOMAIN read |-> Held(k)])
    BY DEF WordsOf
  <2> HIDE DEF Sum
  <2>7. \A s \in 1 .. n : Held(s) = Total(WordsIn(parts[s]))
    BY <1>1, <2>2, <2>3, <2>4, <2>5
  <2> HIDE DEF Held
  <2>8. [k \in DOMAIN read |-> Held(k)] = [i \in DOMAIN parts |-> Total(WordsIn(parts[i]))]
    BY <1>6, <2>1, <2>7
  <2> QED BY <2>6, <2>8 DEF read
<1>15. Referenced("xlsx", file) =>
         /\ PartsApart(parts)
         /\ \A i \in DOMAIN parts : \A p \in DOMAIN parts[i] :
                parts[i][p].words = WordsAt("xlsx", file, parts[i][p].locator)
  BY <1>6, <1>12, <1>13
<1>16. HoldText("xlsx", file, FlattenSeq(parts))
  BY ONLY <1>10, <1>14, <1>15, PartsHoldText
<1> QED BY <1>5, <1>16

LEMMA RowsHoldText ==
    ASSUME NEW file \in Seq(Seq(Nat))
    PROVE  HoldText("csv", file, ParseCsv(file).chunks)
<1> DEFINE n == Len(file)
           F(r) == Filled(file[r])
           loc(r) == [k \in DOMAIN F(r) |-> <<"csv_cell", ColumnName(F(r)[k]), r>>]
           cells(r) == CellsOf(file[r], loc(r))
           parts == [r \in DOMAIN file |-> cells(r)]
           L == {"csv_cell"} \X Seq(LetterSet) \X Nat
<1>1. n \in Nat /\ DOMAIN file = 1 .. n /\ \A r \in 1 .. n : file[r] \in Seq(Nat)
  BY LenProperties
<1> HIDE DEF n
<1>2. ASSUME NEW r \in 1 .. n
      PROVE  /\ \A k \in DOMAIN F(r) :
                    /\ F(r)[k] \in DOMAIN file[r] /\ F(r)[k] \in Nat
                    /\ loc(r)[k] = <<"csv_cell", ColumnName(F(r)[k]), r>>
                    /\ loc(r)[k] \in L
             /\ \A j, k \in DOMAIN F(r) :
                    ColumnName(F(r)[j]) = ColumnName(F(r)[k]) => j = k
             /\ \A j, k \in DOMAIN F(r) : loc(r)[j] = loc(r)[k] => j = k
  <2>1. /\ \A k \in DOMAIN F(r) : F(r)[k] \in DOMAIN file[r]
        /\ \A j, k \in DOMAIN F(r) : F(r)[j] = F(r)[k] => j = k
    BY <1>1, FilledIs
  <2>2. \A k \in DOMAIN file[r] : k \in Nat
    BY <1>1, LenProperties
  <2> HIDE DEF F
  <2>3. \A k \in DOMAIN F(r) : /\ ColumnName(F(r)[k]) \in Seq(LetterSet)
                               /\ ColumnNumber(ColumnName(F(r)[k])) = F(r)[k]
    BY <2>1, <2>2, ColumnNameIs
  <2>4. \A j, k \in DOMAIN F(r) : ColumnName(F(r)[j]) = ColumnName(F(r)[k]) => j = k
    BY <2>1, <2>3
  <2>5. \A k \in DOMAIN F(r) : loc(r)[k] = <<"csv_cell", ColumnName(F(r)[k]), r>>
    OBVIOUS
  <2>6. r \in Nat
    BY <1>1
  <2>7. \A k \in DOMAIN F(r) : loc(r)[k] \in L
    BY <2>3, <2>5, <2>6
  <2> HIDE DEF loc, L
  <2>8. \A j, k \in DOMAIN F(r) : loc(r)[j] = loc(r)[k] => j = k
    BY <2>4, <2>5
  <2> QED BY <2>1, <2>2, <2>4, <2>5, <2>7, <2>8
<1>3. ASSUME NEW r \in 1 .. n
      PROVE  /\ cells(r) \in Seq(ChunksOf(L))
             /\ DOMAIN cells(r) = DOMAIN F(r)
             /\ \A k \in DOMAIN cells(r) : /\ cells(r)[k].locator = loc(r)[k]
                                           /\ cells(r)[k].words = file[r][F(r)[k]]
                                           /\ cells(r)[k].words > 0
             /\ Total(WordsIn(cells(r))) = Total(file[r])
  <2> DEFINE here == loc(r)
             at == file[r]
  <2>1. at \in Seq(Nat) /\ \A k \in DOMAIN Filled(at) : here[k] \in L
    BY <1>1, <1>2
  <2> HIDE DEF here, at, L
  <2>2. /\ CellsOf(at, here) \in Seq(ChunksOf(L))
        /\ DOMAIN CellsOf(at, here) = DOMAIN Filled(at)
        /\ \A k \in DOMAIN CellsOf(at, here) :
             /\ CellsOf(at, here)[k].locator = here[k]
             /\ CellsOf(at, here)[k].words = at[Filled(at)[k]]
             /\ CellsOf(at, here)[k].words > 0
        /\ Total(WordsIn(CellsOf(at, here))) = Total(at)
    BY <2>1, CellChunks
  <2> QED BY <2>2 DEF here, at
<1>4. ParseCsv(file).chunks = FlattenSeq(parts)
  <2> DEFINE direct(r) == [k \in DOMAIN F(r) |->
                             Chunk(<<"csv_cell", ColumnName(F(r)[k]), r>>,
                                   file[r][F(r)[k]], "extraction_success")]
             all == [r \in DOMAIN file |-> direct(r)]
  <2>1. ParseCsv(file) = Structured(FlattenSeq(all), 1)
    BY DEF ParseCsv
  <2>2. \A r \in 1 .. n : direct(r) = cells(r)
    <3> SUFFICES ASSUME NEW r \in 1 .. n PROVE direct(r) = cells(r)
      OBVIOUS
    <3>1. \A k \in DOMAIN F(r) : loc(r)[k] = <<"csv_cell", ColumnName(F(r)[k]), r>>
      BY <1>2
    <3> HIDE DEF loc
    <3> QED BY <3>1 DEF CellsOf
  <2>3. all = parts
    <3> HIDE DEF direct, cells
    <3> QED BY <1>1, <2>2
  <2> HIDE DEF all, parts
  <2> QED BY <2>1, <2>3 DEF Structured, Extraction
<1>5. DOMAIN parts = 1 .. n /\ \A r \in 1 .. n : parts[r] = cells(r)
  BY <1>1
<1> HIDE DEF cells
<1>6. parts \in Seq(Seq(ChunksOf(L)))
  <2>1. \A r \in 1 .. n : parts[r] \in Seq(ChunksOf(L))
    <3> HIDE DEF L, parts, loc, F
    <3> QED BY <1>3, <1>5
  <2>2. parts = [r \in 1 .. n |-> parts[r]]
    BY <1>1
  <2> DEFINE T == Seq(ChunksOf(L))
  <2> HIDE DEF parts, T
  <2>3. parts \in [1 .. n -> T]
    BY <2>1, <2>2 DEF T
  <2>4. parts \in Seq(T)
    BY ONLY <1>1, <2>3
  <2> QED BY <2>4 DEF T
<1> HIDE DEF parts
<1>7. ASSUME NEW r \in 1 .. n, NEW k \in DOMAIN parts[r]
      PROVE  /\ k \in DOMAIN F(r)
             /\ parts[r][k].locator = <<"csv_cell", ColumnName(F(r)[k]), r>>
             /\ parts[r][k].words = file[r][F(r)[k]]
             /\ parts[r][k].words > 0
  <2> HIDE DEF F, loc, L
  <2>1. parts[r] = cells(r) /\ k \in DOMAIN cells(r) /\ k \in DOMAIN F(r)
    BY <1>3, <1>5, <1>7
  <2>2. /\ cells(r)[k].locator = loc(r)[k] /\ cells(r)[k].words = file[r][F(r)[k]]
        /\ cells(r)[k].words > 0
    BY <1>3, <2>1
  <2>3. loc(r)[k] = <<"csv_cell", ColumnName(F(r)[k]), r>>
    BY <1>2, <2>1
  <2> QED BY <2>1, <2>2, <2>3
<1>8. \A r \in 1 .. n : \A j, k \in DOMAIN F(r) :
            ColumnName(F(r)[j]) = ColumnName(F(r)[k]) => j = k
  BY <1>2
<1>9. \A r \in 1 .. n : \A k \in DOMAIN F(r) : ColumnNumber(ColumnName(F(r)[k])) = F(r)[k]
  BY <1>2, ColumnNameIs
<1> HIDE DEF loc, F, L
<1>10. CellsMakeUp(parts, L) /\ PartsApart(parts)
  <2>1. ASSUME NEW i \in 1 .. n, NEW j \in 1 .. n, NEW p \in DOMAIN parts[i],
               NEW q \in DOMAIN parts[j], parts[i][p].locator = parts[j][q].locator
        PROVE  i = j /\ p = q
    <3>1. <<"csv_cell", ColumnName(F(i)[p]), i>> = <<"csv_cell", ColumnName(F(j)[q]), j>>
      BY <1>7, <2>1
    <3>2. ColumnName(F(i)[p]) = ColumnName(F(j)[q]) /\ i = j
      BY <3>1
    <3>3. p \in DOMAIN F(i) /\ q \in DOMAIN F(i)
      BY <1>7, <3>2
    <3> QED BY <1>8, <3>2, <3>3
  <2> QED BY <1>5, <1>6, <1>7, <2>1 DEF CellsMakeUp, PartsApart
<1>11. \A r \in DOMAIN parts : \A k \in DOMAIN parts[r] :
         parts[r][k].words = WordsAt("csv", file, parts[r][k].locator)
  <2> SUFFICES ASSUME NEW r \in 1 .. n, NEW k \in DOMAIN parts[r]
               PROVE  parts[r][k].words = WordsAt("csv", file, parts[r][k].locator)
    BY <1>5
  <2> DEFINE place == parts[r][k].locator
  <2>1. place[2] = ColumnName(F(r)[k]) /\ place[3] = r
    BY <1>7
  <2>2. WordsAt("csv", file, place) = file[place[3]][ColumnNumber(place[2])]
    BY DEF WordsAt
  <2>3. parts[r][k].words = file[r][F(r)[k]] /\ k \in DOMAIN F(r)
    BY <1>7
  <2> HIDE DEF place
  <2>4. WordsAt("csv", file, place) = file[r][F(r)[k]]
    BY <1>9, <2>1, <2>2, <2>3
  <2> QED BY <2>3, <2>4 DEF place
<1>12. WordsOf("csv", Readable("csv", file))
         = Total([i \in DOMAIN parts |-> Total(WordsIn(parts[i]))])
  <2>1. \A r \in 1 .. n : Total(WordsIn(parts[r])) = Total(file[r])
    BY <1>3, <1>5
  <2>2. WordsOf("csv", Readable("csv", file)) = Total([k \in DOMAIN file |-> Total(file[k])])
    BY DEF WordsOf, Readable
  <2>3. [k \in DOMAIN file |-> Total(file[k])]
          = [i \in DOMAIN parts |-> Total(WordsIn(parts[i]))]
    BY <1>1, <1>5, <2>1
  <2> QED BY <2>2, <2>3
<1>13. HoldText("csv", file, FlattenSeq(parts))
  BY ONLY <1>10, <1>11, <1>12, PartsHoldText
<1> QED BY <1>4, <1>13

(* What is said of the quality of a document with pages.                   *)
LEMMA PagesHoldText ==
    ASSUME NEW file \in Seq(Nat)
    PROVE  /\ HoldText("pdf", file, ParsePdf(file).chunks)
           /\ ParsePdf(file).total_words = Total(file)
           /\ ParsePdf(file).overall_quality = "OCR_required"
                <=> file # <<>> /\ ParsePdf(file).chunks = <<>>
           /\ ParsePdf(file).overall_quality = "extraction_success" =>
                ParsePdf(file).chunks # <<>> /\ \A k \in DOMAIN file : file[k] > 0
<1> DEFINE F == Filled(file)
           quality == [k \in DOMAIN F |-> IF file[F[k]] < PageFloor
                                          THEN "low_quality" ELSE "extraction_success"]
           chunks == [k \in DOMAIN F |-> Chunk(<<"page", F[k]>>, file[F[k]], quality[k])]
<1>1. /\ F = <<>> <=> Total(file) = 0
      /\ (\E k \in DOMAIN file : file[k] = 0) <=> Len(F) < Len(file)
      /\ \A k \in DOMAIN file : file[k] \in Nat
  BY FilledHoldsAll, LenProperties
<1>2. HoldText("pdf", file, chunks)
  <2> DEFINE given == F
  <2>1. /\ given = Filled(file)
        /\ \A k \in DOMAIN given : quality[k] \in {"low_quality", "extraction_success"}
    OBVIOUS
  <2>2. chunks = [k \in DOMAIN given |->
                    Chunk(<<"page", given[k]>>, file[given[k]], quality[k])]
    OBVIOUS
  <2> HIDE DEF given, chunks, quality
  <2>3. UnitsAt("page", file, given, quality, chunks)
    BY <2>1, <2>2 DEF UnitsAt
  <2> HIDE DEF F
  <2>4. file \in Seq(Nat)
    OBVIOUS
  <2>5. "pdf" \in {"pdf", "pptx", "txt"}
    OBVIOUS
  <2> QED BY ONLY <2>3, <2>4, <2>5, NumberedUnits
<1>3. chunks = <<>> <=> Total(file) = 0
  BY <1>2 DEF HoldText, WordsOf, Readable
<1>4. CASE file = <<>>
  <2>1. ParsePdf(file) = Extraction(<<>>, "low_quality", 0, 0)
    BY <1>4 DEF ParsePdf
  <2>2. Total(file) = 0
    BY <1>4, TotalOfNothing
  <2>3. chunks = <<>>
    BY <1>3, <2>2
  <2> HIDE DEF chunks
  <2> QED BY <1>2, <1>4, <2>1, <2>2, <2>3 DEF Extraction
<1>5. CASE file # <<>>
  <2>1. chunks = [k \in DOMAIN F |->
                    Chunk(<<"page", F[k]>>, file[F[k]],
                          IF file[F[k]] < PageFloor
                          THEN "low_quality" ELSE "extraction_success")]
    <3> HIDE DEF F
    <3> QED OBVIOUS
  <2>2. ParsePdf(file) = Extraction(chunks, PdfQuality(file), Total(file), Len(file))
    BY <1>5, <2>1, Zenon DEF ParsePdf
  <2> HIDE DEF chunks
  <2>3. /\ ParsePdf(file).chunks = chunks
        /\ ParsePdf(file).overall_quality = PdfQuality(file)
        /\ ParsePdf(file).total_words = Total(file)
    BY <2>2 DEF Extraction
  <2>4. PdfQuality(file) = "OCR_required" <=> F = <<>>
    BY DEF PdfQuality
  <2>5. PdfQuality(file) = "extraction_success" => F # <<>> /\ ~ (Len(F) < Len(file))
    BY DEF PdfQuality
  <2> HIDE DEF F, quality
  <2> QED BY <1>1, <1>2, <1>3, <1>5, <2>3, <2>4, <2>5
<1> QED BY <1>4, <1>5

(* Slides and lines.                                                       *)
LEMMA SlidesAndLinesHoldText ==
    ASSUME NEW kind \in {"pptx", "txt"}, NEW file \in Seq(Nat)
    PROVE  HoldText(kind, file, ExtractDocumentContent(kind, file).chunks)
<1> DEFINE F == Filled(file)
           name == IF kind = "pptx" THEN "slide" ELSE "line"
           quality == [k \in DOMAIN F |-> "extraction_success"]
           chunks == [k \in DOMAIN F |-> Chunk(<<name, F[k]>>, file[F[k]], quality[k])]
<1>1. \A k \in DOMAIN F : quality[k] = "extraction_success"
  OBVIOUS
<1>2. chunks = [k \in DOMAIN F |-> Chunk(<<name, F[k]>>, file[F[k]], "extraction_success")]
  <2> HIDE DEF F, name
  <2> QED OBVIOUS
<1>3. UnitsAt(name, file, F, quality, chunks)
  <2> DEFINE given == F
  <2>1. given = Filled(file)
    OBVIOUS
  <2>2. chunks = [k \in DOMAIN given |->
                    Chunk(<<name, given[k]>>, file[given[k]], quality[k])]
    OBVIOUS
  <2>3. \A k \in DOMAIN given : quality[k] \in {"low_quality", "extraction_success"}
    BY <1>1
  <2> HIDE DEF given, chunks, quality, name
  <2>4. UnitsAt(name, file, given, quality, chunks)
    BY <2>1, <2>2, <2>3 DEF UnitsAt
  <2> QED BY <2>4 DEF given
<1>4. ExtractDocumentContent(kind, file).chunks = chunks
  <2> DEFINE pages == IF kind = "pptx" THEN Len(F) ELSE 1
  <2>1. CASE kind = "pptx"
    <3>1. ParsePptx(file) = Structured(chunks, Len(F))
      BY <1>2, <2>1 DEF ParsePptx
    <3>2. ExtractDocumentContent(kind, file) = ParsePptx(file)
      BY <2>1 DEF ExtractDocumentContent
    <3> HIDE DEF chunks
    <3> QED BY <3>1, <3>2 DEF Structured, Extraction
  <2>2. CASE kind = "txt"
    <3>1. ParseText(file) = Structured(chunks, 1)
      BY <1>2, <2>2 DEF ParseText
    <3>2. ExtractDocumentContent(kind, file) = ParseText(file)
      BY <2>2 DEF ExtractDocumentContent
    <3> HIDE DEF chunks
    <3> QED BY <3>1, <3>2 DEF Structured, Extraction
  <2> QED BY <2>1, <2>2
<1> HIDE DEF F, name, quality, chunks
<1>5. kind \in {"pdf", "pptx", "txt"} /\ file \in Seq(Nat)
  OBVIOUS
<1>6. HoldText(kind, file, chunks)
  BY ONLY <1>3, <1>5, NumberedUnits
<1> QED BY <1>4, <1>6

(* A file of the formats there are.                                        *)
IsFile(kind, file) ==
    \/ kind \in {"pdf", "pptx", "txt"} /\ file \in Seq(Nat)
    \/ kind = "docx" /\ file \in Seq([words : Nat, title : BOOLEAN])
    \/ /\ kind = "xlsx"
       /\ file \in Seq(Sheet)
       /\ \A s, t \in DOMAIN file : file[s].name = file[t].name => s = t
    \/ kind = "csv" /\ file \in Seq(Seq(Nat))

(* The formats without pages are a success exactly if they have chunks.    *)
LEMMA ChunksMakeSuccess ==
    ASSUME NEW kind \in {"docx", "xlsx", "pptx", "txt", "csv"}, NEW file
    PROVE  LET content == ExtractDocumentContent(kind, file)
           IN  /\ content.total_words = Total(WordsIn(content.chunks))
               /\ content.overall_quality =
                    IF content.chunks = <<>> THEN "low_quality" ELSE "extraction_success"
<1>1. ASSUME NEW chunks, NEW pages
      PROVE  LET content == Structured(chunks, pages)
             IN  /\ content.total_words = Total(WordsIn(content.chunks))
                 /\ content.overall_quality =
                      IF content.chunks = <<>> THEN "low_quality" ELSE "extraction_success"
  BY DEF Structured, Extraction, WordsIn
<1>2. CASE kind = "docx"
  <2>1. ExtractDocumentContent(kind, file) = ParseDocx(file)
    BY <1>2 DEF ExtractDocumentContent
  <2>2. \E chunks : ParseDocx(file) = Structured(chunks, 1)
    BY Zenon DEF ParseDocx
  <2> QED BY <1>1, <2>1, <2>2
<1>3. CASE kind = "xlsx"
  <2>1. ExtractDocumentContent(kind, file) = ParseXlsx(file)
    BY <1>3 DEF ExtractDocumentContent
  <2>2. \E chunks : ParseXlsx(file) = Structured(chunks, 1)
    BY Zenon DEF ParseXlsx
  <2> QED BY <1>1, <2>1, <2>2
<1>4. CASE kind = "pptx"
  <2>1. ExtractDocumentContent(kind, file) = ParsePptx(file)
    BY <1>4 DEF ExtractDocumentContent
  <2> QED BY <1>1, <2>1 DEF ParsePptx
<1>5. CASE kind = "txt"
  <2>1. ExtractDocumentContent(kind, file) = ParseText(file)
    BY <1>5 DEF ExtractDocumentContent
  <2> QED BY <1>1, <2>1 DEF ParseText
<1>6. CASE kind = "csv"
  <2>1. ExtractDocumentContent(kind, file) = ParseCsv(file)
    BY <1>6 DEF ExtractDocumentContent
  <2> QED BY <1>1, <2>1 DEF ParseCsv
<1> QED BY <1>2, <1>3, <1>4, <1>5, <1>6

(* Any file's chunks hold its text, and its quality is told honestly.      *)
LEMMA FilesHoldText ==
    ASSUME NEW kind, NEW file, IsFile(kind, file)
    PROVE  LET content == ExtractDocumentContent(kind, file)
           IN  /\ HoldText(kind, file, content.chunks)
               /\ content.total_words = Total(WordsIn(content.chunks))
               /\ content.overall_quality = "OCR_required"
                    <=> kind = "pdf" /\ file # <<>> /\ content.chunks = <<>>
               /\ content.overall_quality = "extraction_success" =>
                    /\ content.chunks # <<>>
                    /\ kind = "pdf" => \A k \in DOMAIN file : file[k] > 0
<1> DEFINE content == ExtractDocumentContent(kind, file)
<1>1. CASE kind = "pdf"
  <2>1. file \in Seq(Nat)
    BY <1>1 DEF IsFile
  <2>2. content = ParsePdf(file) /\ WordsOf(kind, Readable(kind, file)) = Total(file)
    BY <1>1 DEF ExtractDocumentContent, WordsOf, Readable
  <2>3. /\ HoldText("pdf", file, ParsePdf(file).chunks)
        /\ ParsePdf(file).total_words = Total(file)
        /\ ParsePdf(file).overall_quality = "OCR_required"
             <=> file # <<>> /\ ParsePdf(file).chunks = <<>>
        /\ ParsePdf(file).overall_quality = "extraction_success" =>
             ParsePdf(file).chunks # <<>> /\ \A k \in DOMAIN file : file[k] > 0
    BY <2>1, PagesHoldText
  <2> HIDE DEF content
  <2>4. kind = "pdf"
    BY <1>1
  <2>5. /\ HoldText(kind, file, content.chunks)
        /\ content.total_words = Total(WordsIn(content.chunks))
        /\ content.overall_quality = "OCR_required"
             <=> kind = "pdf" /\ file # <<>> /\ content.chunks = <<>>
        /\ content.overall_quality = "extraction_success" =>
             /\ content.chunks # <<>>
             /\ kind = "pdf" => \A k \in DOMAIN file : file[k] > 0
    BY ONLY <2>2, <2>3, <2>4 DEF HoldText
  <2> QED BY ONLY <2>5 DEF content
<1>2. CASE kind # "pdf"
  <2>1. kind \in {"docx", "xlsx", "pptx", "txt", "csv"}
    BY <1>2 DEF IsFile
  <2>2. HoldText(kind, file, content.chunks)
    <3>1. CASE kind = "docx"
      <4>1. content = ParseDocx(file) /\ file \in Seq([words : Nat, title : BOOLEAN])
        BY <3>1 DEF ExtractDocumentContent, IsFile
      <4> QED BY <3>1, <4>1, SectionsHoldText
    <3>2. CASE kind = "xlsx"
      <4>1. /\ content = ParseXlsx(file)
            /\ file \in Seq(Sheet)
            /\ \A s, t \in DOMAIN file : file[s].name = file[t].name => s = t
        BY <3>2 DEF ExtractDocumentContent, IsFile
      <4>2. HoldText("xlsx", file, ParseXlsx(file).chunks)
        BY ONLY <4>1, SheetsHoldText
      <4> QED BY <3>2, <4>1, <4>2
    <3>3. CASE kind = "csv"
      <4>1. content = ParseCsv(file) /\ file \in Seq(Seq(Nat))
        BY <3>3 DEF ExtractDocumentContent, IsFile
      <4> QED BY <3>3, <4>1, RowsHoldText
    <3>4. CASE kind \in {"pptx", "txt"}
      <4>1. file \in Seq(Nat)
        BY <3>4 DEF IsFile
      <4> QED BY <3>4, <4>1, SlidesAndLinesHoldText
    <3> QED BY <2>1, <3>1, <3>2, <3>3, <3>4
  <2>3. /\ content.total_words = Total(WordsIn(content.chunks))
        /\ content.overall_quality =
             IF content.chunks = <<>> THEN "low_quality" ELSE "extraction_success"
    BY <2>1, ChunksMakeSuccess
  <2> HIDE DEF content
  <2>4. /\ HoldText(kind, file, content.chunks)
        /\ content.total_words = Total(WordsIn(content.chunks))
        /\ content.overall_quality # "OCR_required"
        /\ content.overall_quality = "extraction_success" => content.chunks # <<>>
    BY <2>2, <2>3
  <2> QED BY ONLY <1>2, <2>4 DEF content
<1> QED BY <1>1, <1>2

(* extract_document_content, for every file: the chunks hold every word but*)
(* those of a workbook that are never read; the locator of each leads back *)
(* to its text and no two share one, where the cells of a workbook have    *)
(* references; and neither a document without text that is read, nor a page*)
(* without any, passes for a success.                                      *)
THEOREM TextIsKept == CalculationSpec => []ExtractionIsFaithful
<1>1. AnswerInv => ExtractionIsFaithful
  <2> SUFFICES ASSUME AnswerInv, Answered("extract") PROVE ExtractionIsFaithful
    BY DEF ExtractionIsFaithful, LocatorsLeadBack, QualityIsHonest
  <2>1. call \in Files
    BY CallsOfTheirKind DEF AnswerInv, Answered
  <2>2. answer = ExtractDocumentContent(call.kind, call.file)
    BY DEF AnswerInv
  <2>3. IsFile(call.kind, call.file)
    BY <2>1, FileAssumption DEF IsFile, Sheet
  <2>4. /\ HoldText(call.kind, call.file, answer.chunks)
        /\ answer.total_words = Total(WordsIn(answer.chunks))
        /\ answer.overall_quality = "OCR_required"
             <=> call.kind = "pdf" /\ call.file # <<>> /\ answer.chunks = <<>>
        /\ answer.overall_quality = "extraction_success" =>
             /\ answer.chunks # <<>>
             /\ call.kind = "pdf" => \A k \in DOMAIN call.file : call.file[k] > 0
    BY <2>2, <2>3, FilesHoldText
  <2>5. LocatorsLeadBack
    BY <2>4 DEF LocatorsLeadBack, HoldText, Apart, WordsIn
  <2>6. QualityIsHonest
    BY <2>4 DEF QualityIsHonest, HoldText
  <2> QED BY <2>5, <2>6 DEF ExtractionIsFaithful
<1> QED BY <1>1, AnswersFollowCalls, PTL

-----------------------------------------------------------------------------
(* How often a sequence holds a member of a set.                           *)

HitsOf(s, C) == [k \in DOMAIN s |-> IF s[k] \in C THEN 1 ELSE 0]

Occurrences(s, C) == Total(HitsOf(s, C))

LEMMA HitsAre ==
    ASSUME NEW K, NEW s \in Seq(K), NEW C
    PROVE  /\ HitsOf(s, C) \in Seq(Nat) /\ Len(HitsOf(s, C)) = Len(s)
           /\ \A k \in 1 .. Len(s) : HitsOf(s, C)[k] = IF s[k] \in C THEN 1 ELSE 0
           /\ Occurrences(s, C) \in Nat
<1>1. DOMAIN s = 1 .. Len(s) /\ Len(s) \in Nat
  BY LenProperties
<1>2. HitsOf(s, C) = [k \in 1 .. Len(s) |-> IF s[k] \in C THEN 1 ELSE 0]
  BY <1>1 DEF HitsOf
<1>3. /\ HitsOf(s, C) \in Seq(Nat) /\ Len(HitsOf(s, C)) = Len(s)
      /\ \A k \in 1 .. Len(s) : HitsOf(s, C)[k] = IF s[k] \in C THEN 1 ELSE 0
  BY <1>1, <1>2
<1>4. Occurrences(s, C) \in Nat
  BY <1>3, TotalIsZero DEF Occurrences
<1> QED BY <1>3, <1>4

LEMMA OccurrencesAre ==
    ASSUME NEW K, NEW s \in Seq(K), NEW C
    PROVE  Occurrences(s, C) = Cardinality({k \in DOMAIN s : s[k] \in C})
<1> DEFINE n == Len(s)
           S == {k \in DOMAIN s : s[k] \in C}
           f == [k \in 0 .. n |-> UpTo(S, k)]
<1>1. /\ HitsOf(s, C) \in Seq(Nat) /\ Len(HitsOf(s, C)) = n
      /\ \A k \in 1 .. n : HitsOf(s, C)[k] = IF k \in S THEN 1 ELSE 0
      /\ DOMAIN s = 1 .. n /\ n \in Nat
  BY HitsAre, LenProperties
<1>2. S \in SUBSET (1 .. n)
  BY <1>1
<1> HIDE DEF S
<1>3. UpTo(S, 0) = 0 /\ UpTo(S, n) = Cardinality(S)
  BY <1>1, <1>2, UpToSteps
<1>4. \A k \in Nat : UpTo(S, k) \in Nat
  BY <1>1, <1>2, UpToSteps
<1>5. \A k \in Nat : UpTo(S, k + 1) = IF k + 1 \in S THEN UpTo(S, k) + 1 ELSE UpTo(S, k)
  BY <1>1, <1>2, UpToSteps
<1>6. \A k \in 1 .. n : UpTo(S, k) = UpTo(S, k - 1) + (IF k \in S THEN 1 ELSE 0)
  <2> SUFFICES ASSUME NEW k \in 1 .. n
               PROVE  UpTo(S, k) = UpTo(S, k - 1) + (IF k \in S THEN 1 ELSE 0)
    OBVIOUS
  <2>1. k - 1 \in Nat /\ (k - 1) + 1 = k
    BY <1>1
  <2>2. UpTo(S, (k - 1) + 1)
          = IF (k - 1) + 1 \in S THEN UpTo(S, k - 1) + 1 ELSE UpTo(S, k - 1)
    BY <1>5, <2>1
  <2>3. UpTo(S, k - 1) \in Nat
    BY <1>4, <2>1
  <2> QED BY <2>1, <2>2, <2>3
<1>7. f[0] = 0 /\ f[n] = Cardinality(S)
      /\ \A k \in 1 .. n : f[k] = f[k - 1] + HitsOf(s, C)[k]
  <2>1. 0 \in 0 .. n /\ n \in 0 .. n /\ \A k \in 1 .. n : k \in 0 .. n /\ k - 1 \in 0 .. n
    BY <1>1
  <2> HIDE DEF n
  <2> QED BY <1>1, <1>3, <1>6, <2>1
<1> HIDE DEF f
<1>8. Adds(f, HitsOf(s, C))
  BY <1>1, <1>7 DEF Adds
<1> QED BY <1>1, <1>7, <1>8, TotalIs DEF Occurrences, S

LEMMA OccurrencesOfConcatenation ==
    ASSUME NEW K, NEW a \in Seq(K), NEW b \in Seq(K), NEW C
    PROVE  Occurrences(a \o b, C) = Occurrences(a, C) + Occurrences(b, C)
<1>1. a \o b \in Seq(K)
  BY ConcatProperties
<1>2. /\ HitsOf(a, C) \in Seq(Nat) /\ Len(HitsOf(a, C)) = Len(a)
      /\ HitsOf(b, C) \in Seq(Nat) /\ Len(HitsOf(b, C)) = Len(b)
      /\ HitsOf(a \o b, C) \in Seq(Nat) /\ Len(HitsOf(a \o b, C)) = Len(a \o b)
  BY <1>1, HitsAre
<1>3. /\ Len(a) \in Nat /\ Len(b) \in Nat /\ Len(a \o b) = Len(a) + Len(b)
      /\ \A k \in 1 .. Len(a) + Len(b) :
            (a \o b)[k] = IF k <= Len(a) THEN a[k] ELSE b[k - Len(a)]
  BY ConcatProperties, LenProperties
<1>4. /\ Len(HitsOf(a, C) \o HitsOf(b, C)) = Len(a) + Len(b)
      /\ HitsOf(a, C) \o HitsOf(b, C) \in Seq(Nat)
      /\ \A k \in 1 .. Len(a) + Len(b) :
            (HitsOf(a, C) \o HitsOf(b, C))[k]
                = IF k <= Len(a) THEN HitsOf(a, C)[k] ELSE HitsOf(b, C)[k - Len(a)]
  BY <1>2, ConcatProperties
<1>5. ASSUME NEW k \in 1 .. Len(a) + Len(b)
      PROVE  HitsOf(a \o b, C)[k] = (HitsOf(a, C) \o HitsOf(b, C))[k]
  <2>1. HitsOf(a \o b, C)[k] = IF (a \o b)[k] \in C THEN 1 ELSE 0
    <3> DEFINE ab == a \o b
    <3>1. ab \in Seq(K) /\ k \in 1 .. Len(ab)
      BY <1>1, <1>3
    <3> HIDE DEF ab
    <3>2. HitsOf(ab, C)[k] = IF ab[k] \in C THEN 1 ELSE 0
      BY <3>1, HitsAre
    <3> QED BY <3>2 DEF ab
  <2>2. CASE k <= Len(a)
    <3>1. k \in 1 .. Len(a)
      BY <1>3, <2>2
    <3>2. HitsOf(a, C)[k] = IF a[k] \in C THEN 1 ELSE 0
      BY <3>1, HitsAre
    <3> QED BY <1>3, <1>4, <2>1, <2>2, <3>2
  <2>3. CASE ~ (k <= Len(a))
    <3>1. k - Len(a) \in 1 .. Len(b)
      BY <1>3, <2>3
    <3>2. HitsOf(b, C)[k - Len(a)] = IF b[k - Len(a)] \in C THEN 1 ELSE 0
      BY <3>1, HitsAre
    <3> QED BY <1>3, <1>4, <2>1, <2>3, <3>2
  <2> QED BY <2>2, <2>3
<1>6. HitsOf(a \o b, C) = HitsOf(a, C) \o HitsOf(b, C)
  BY <1>2, <1>3, <1>4, <1>5, SeqEqual
<1> QED BY <1>2, <1>6, TotalOfConcatenation DEF Occurrences

LEMMA OccurrencesOfOne ==
    ASSUME NEW K, NEW x \in K, NEW C
    PROVE  /\ <<x>> \in Seq(K)
           /\ Occurrences(<<x>>, C) = IF x \in C THEN 1 ELSE 0
<1>1. <<x>> \in Seq(K) /\ Len(<<x>>) = 1 /\ <<x>>[1] = x
  OBVIOUS
<1>2. /\ HitsOf(<<x>>, C) \in Seq(Nat) /\ Len(HitsOf(<<x>>, C)) = 1
      /\ HitsOf(<<x>>, C)[1] = IF x \in C THEN 1 ELSE 0
  <2> DEFINE one == <<x>>
  <2>1. one \in Seq(K) /\ Len(one) = 1 /\ one[1] = x /\ 1 \in 1 .. 1
    BY <1>1
  <2> HIDE DEF one
  <2>2. /\ HitsOf(one, C) \in Seq(Nat) /\ Len(HitsOf(one, C)) = 1
        /\ HitsOf(one, C)[1] = IF x \in C THEN 1 ELSE 0
    BY <2>1, HitsAre
  <2> QED BY <2>2 DEF one
<1>3. PICK f \in [0 .. 1 -> Nat] : Adds(f, HitsOf(<<x>>, C))
                                   /\ Total(HitsOf(<<x>>, C)) = f[1]
  BY <1>2, TotalIsSum
<1>4. f[0] = 0 /\ f[1] = f[1 - 1] + HitsOf(<<x>>, C)[1]
  BY <1>2, <1>3 DEF Adds
<1>5. Occurrences(<<x>>, C) = IF x \in C THEN 1 ELSE 0
  BY <1>2, <1>3, <1>4 DEF Occurrences
<1> QED BY <1>1, <1>5

LEMMA OccurrencesOfAppend ==
    ASSUME NEW K, NEW s \in Seq(K), NEW x \in K, NEW C
    PROVE  Occurrences(Append(s, x), C) = Occurrences(s, C) + (IF x \in C THEN 1 ELSE 0)
<1>1. /\ <<x>> \in Seq(K)
      /\ Occurrences(<<x>>, C) = IF x \in C THEN 1 ELSE 0
  BY OccurrencesOfOne
<1>2. Append(s, x) = s \o <<x>>
  BY AppendIsConcat
<1>3. Occurrences(s \o <<x>>, C) = Occurrences(s, C) + Occurrences(<<x>>, C)
  BY <1>1, OccurrencesOfConcatenation
<1> QED BY <1>1, <1>2, <1>3

LEMMA OccurrencesWithout ==
    ASSUME NEW K, NEW s \in Seq(K), NEW k \in DOMAIN s
    PROVE  /\ RemoveAt(s, k) \in Seq(K)
           /\ \A i \in DOMAIN RemoveAt(s, k) : \E j \in DOMAIN s : RemoveAt(s, k)[i] = s[j]
           /\ \A C : Occurrences(RemoveAt(s, k), C) + (IF s[k] \in C THEN 1 ELSE 0)
                       = Occurrences(s, C)
<1> DEFINE n == Len(s)
           K1 == {s[j] : j \in DOMAIN s}
           a == SubSeq(s, 1, k - 1)
           b == SubSeq(s, k + 1, n)
<1>1. /\ n \in Nat /\ DOMAIN s = 1 .. n /\ k \in 1 .. n
      /\ \A j \in 1 .. n : s[j] \in K1 /\ s[j] \in K
  BY LenProperties
<1>2. s \in Seq(K1)
  <2>1. s = [j \in 1 .. n |-> s[j]]
    BY <1>1
  <2> HIDE DEF K1
  <2> QED BY <1>1, <2>1
<1>3. \A x \in K1 : x \in K /\ \E j \in DOMAIN s : x = s[j]
  BY <1>1
<1> HIDE DEF K1, n
<1>4. a \in Seq(K1)
  <2>1. \A i \in 1 .. k - 1 : s[i] \in K1
    BY <1>1
  <2> QED BY <1>1, <2>1, SubSeqProperties
<1>5. b \in Seq(K1)
  <2>1. \A i \in k + 1 .. n : s[i] \in K1
    BY <1>1
  <2> QED BY <1>1, <2>1, SubSeqProperties
<1>6. s = (a \o <<s[k]>>) \o b
  <2>1. SubSeq(s, 1, k) = a \o <<s[k]>>
    <3>1. 1 \in 1 .. Len(s) /\ k \in 1 .. Len(s)
      BY <1>1 DEF n
    <3> QED BY <1>2, <3>1, SubSeqRecursiveSecond
  <2>2. SubSeq(s, 1, k) \o b = SubSeq(s, 1, n)
    <3>1. /\ 1 \in 1 .. Len(s) + 1 /\ k \in 1 - 1 .. Len(s)
          /\ Len(s) \in k .. Len(s) /\ n = Len(s)
      BY <1>1 DEF n
    <3> HIDE DEF a
    <3> QED BY <1>2, <3>1, ConcatAdjacentSubSeq
  <2>3. SubSeq(s, 1, n) = s
    BY <1>2, SubSeqFull DEF n
  <2> HIDE DEF a, b
  <2> QED BY <2>1, <2>2, <2>3
<1>7. RemoveAt(s, k) = a \o b
  BY DEF RemoveAt, n
<1> HIDE DEF a, b
<1>8. RemoveAt(s, k) \in Seq(K1)
  BY <1>4, <1>5, <1>7, ConcatProperties
<1>9. ASSUME NEW i \in DOMAIN RemoveAt(s, k)
      PROVE  RemoveAt(s, k)[i] \in K1
  BY <1>8, <1>9, LenProperties
<1>10. RemoveAt(s, k) \in Seq(K)
  <2> DEFINE t == RemoveAt(s, k)
  <2>1. Len(t) \in Nat /\ DOMAIN t = 1 .. Len(t) /\ t = [i \in 1 .. Len(t) |-> t[i]]
    BY <1>8, LenProperties
  <2>2. \A i \in 1 .. Len(t) : t[i] \in K
    BY <1>3, <1>9, <2>1
  <2> HIDE DEF t
  <2>3. t \in Seq(K)
    BY <2>1, <2>2
  <2> QED BY <2>3 DEF t
<1>11. ASSUME NEW C
       PROVE  Occurrences(RemoveAt(s, k), C) + (IF s[k] \in C THEN 1 ELSE 0)
                = Occurrences(s, C)
  <2>1. s[k] \in K1 /\ <<s[k]>> \in Seq(K1)
    BY <1>1
  <2>2. /\ Occurrences(a, C) \in Nat /\ Occurrences(b, C) \in Nat
        /\ Occurrences(<<s[k]>>, C) = IF s[k] \in C THEN 1 ELSE 0
    BY <1>4, <1>5, <2>1, HitsAre, OccurrencesOfOne
  <2>3. Occurrences(RemoveAt(s, k), C) = Occurrences(a, C) + Occurrences(b, C)
    BY <1>4, <1>5, <1>7, OccurrencesOfConcatenation
  <2>4. a \o <<s[k]>> \in Seq(K1)
    BY <1>4, <2>1, ConcatProperties
  <2>5. Occurrences((a \o <<s[k]>>) \o b, C)
          = (Occurrences(a, C) + Occurrences(<<s[k]>>, C)) + Occurrences(b, C)
    <3>1. Occurrences(a \o <<s[k]>>, C) = Occurrences(a, C) + Occurrences(<<s[k]>>, C)
      BY <1>4, <2>1, OccurrencesOfConcatenation
    <3> DEFINE ak == a \o <<s[k]>>
    <3>2. ak \in Seq(K1)
      BY <2>4
    <3> HIDE DEF ak
    <3>3. Occurrences(ak \o b, C) = Occurrences(ak, C) + Occurrences(b, C)
      BY <1>5, <3>2, OccurrencesOfConcatenation
    <3> QED BY <3>1, <3>3 DEF ak
  <2>6. Occurrences(s, C)
          = (Occurrences(a, C) + Occurrences(<<s[k]>>, C)) + Occurrences(b, C)
    BY ONLY <1>6, <2>5
  <2> QED BY ONLY <2>2, <2>3, <2>6
<1> QED BY <1>3, <1>9, <1>10, <1>11

-----------------------------------------------------------------------------
(* Pairing of two lists of clauses.                                        *)

PairsOf(K) == (K \cup {NoClause}) \X (K \cup {NoClause})

PairingStates(K) == [left : Seq(K), pairs : Seq(PairsOf(K))]

Seconds(pairs) == [k \in DOMAIN pairs |-> pairs[k][2]]

(* An old clause takes nothing, as nothing left is equivalent, or one that *)
(* is.                                                                     *)
LEMMA TakeEquivalentIs ==
    ASSUME NEW K, NEW st \in PairingStates(K), NEW c \in K
    PROVE  \/ /\ \A i \in DOMAIN st.left : ~ AreArticlesEquivalent(c.ref, st.left[i].ref)
              /\ TakeEquivalent(st, c).left = st.left
              /\ TakeEquivalent(st, c).pairs = Append(st.pairs, <<c, NoClause>>)
              /\ TakeEquivalent(st, c) \in PairingStates(K)
           \/ \E k \in DOMAIN st.left :
                /\ AreArticlesEquivalent(c.ref, st.left[k].ref)
                /\ TakeEquivalent(st, c).left = RemoveAt(st.left, k)
                /\ TakeEquivalent(st, c).pairs = Append(st.pairs, <<c, st.left[k]>>)
                /\ st.left[k] \in K
                /\ TakeEquivalent(st, c) \in PairingStates(K)
<1> DEFINE found == {k \in DOMAIN st.left : AreArticlesEquivalent(c.ref, st.left[k].ref)}
           least == CHOOSE m \in found : \A n \in found : m <= n
<1>1. /\ st.left \in Seq(K) /\ st.pairs \in Seq(PairsOf(K))
      /\ DOMAIN st = {"left", "pairs"}
      /\ st = [left |-> st.left, pairs |-> st.pairs]
  BY DEF PairingStates
<1>2. DOMAIN st.left \subseteq Nat /\ \A k \in DOMAIN st.left : st.left[k] \in K
  BY <1>1, LenProperties
<1>3. CASE found = {}
  <2>1. TakeEquivalent(st, c) = [st EXCEPT !.pairs = Append(st.pairs, <<c, NoClause>>)]
    BY <1>3 DEF TakeEquivalent
  <2>2. <<c, NoClause>> \in PairsOf(K)
    BY DEF PairsOf
  <2>3. Append(st.pairs, <<c, NoClause>>) \in Seq(PairsOf(K))
    BY <1>1, <2>2, AppendProperties
  <2>4. TakeEquivalent(st, c) = [left |-> st.left,
                                 pairs |-> Append(st.pairs, <<c, NoClause>>)]
    BY <1>1, <2>1
  <2> DEFINE more == Append(st.pairs, <<c, NoClause>>)
  <2> HIDE DEF more
  <2>5. [left |-> st.left, pairs |-> more] \in PairingStates(K)
    BY <1>1, <2>3 DEF PairingStates, more
  <2> QED BY <1>3, <2>4, <2>5 DEF more
<1>4. CASE found # {}
  <2>1. least \in found /\ \A n \in found : least <= n
    <3>1. found \in SUBSET Nat
      BY <1>2
    <3>2. \E m \in found : \A n \in found : m <= n
      BY <1>4, <3>1, LeastNatural
    <3> HIDE DEF found
    <3> QED BY <3>2
  <2>2. TakeEquivalent(st, c) = [left |-> RemoveAt(st.left, least),
                                 pairs |-> Append(st.pairs, <<c, st.left[least]>>)]
    BY <1>4 DEF TakeEquivalent
  <2>3. /\ least \in DOMAIN st.left /\ st.left[least] \in K
        /\ AreArticlesEquivalent(c.ref, st.left[least].ref)
    BY <1>2, <2>1
  <2> HIDE DEF found, least
  <2>4. RemoveAt(st.left, least) \in Seq(K)
    BY <1>1, <2>3, OccurrencesWithout
  <2>5. <<c, st.left[least]>> \in PairsOf(K)
    BY <2>3 DEF PairsOf
  <2>6. Append(st.pairs, <<c, st.left[least]>>) \in Seq(PairsOf(K))
    BY <1>1, <2>5, AppendProperties
  <2> DEFINE more == Append(st.pairs, <<c, st.left[least]>>)
             rest == RemoveAt(st.left, least)
  <2> HIDE DEF more, rest
  <2>7. [left |-> rest, pairs |-> more] \in PairingStates(K)
    BY <2>4, <2>6 DEF PairingStates, more, rest
  <2>8. TakeEquivalent(st, c) = [left |-> rest, pairs |-> more]
    BY <2>2 DEF more, rest
  <2>9. TakeEquivalent(st, c).left = rest /\ TakeEquivalent(st, c).pairs = more
    BY <2>8
  <2> QED BY <2>3, <2>7, <2>8, <2>9 DEF more, rest
<1> QED BY <1>3, <1>4

(* The states pairing passes through.                                      *)
Takings(f, base, old) ==
    f[0] = base /\ \A k \in 1 .. Len(old) : f[k] = TakeEquivalent(f[k - 1], old[k])

LEMMA TakingRuns ==
    ASSUME NEW K, NEW base \in PairingStates(K), NEW old \in Seq(K)
    PROVE  \E f \in [0 .. Len(old) -> PairingStates(K)] :
             Takings(f, base, old) /\ FoldLeft(TakeEquivalent, base, old) = f[Len(old)]
<1> DEFINE n == Len(old)
           W == PairingStates(K)
           take == [c \in K |-> [st \in W |-> TakeEquivalent(st, c)]]
           up(g) == g = [t \in SUBSET DOMAIN old |->
                            IF t = {} THEN base
                            ELSE TakeEquivalent(g[t \ {Max(t)}], old[Max(t)])]
<1>1. /\ n \in Nat /\ DOMAIN old = 1 .. n /\ old \in [1 .. n -> K]
      /\ \A k \in 1 .. n : old[k] \in K
  BY LenProperties
<1>2. \A c \in K : \A st \in W : TakeEquivalent(st, c) \in W
  <2> SUFFICES ASSUME NEW c \in K, NEW st \in W PROVE TakeEquivalent(st, c) \in W
    OBVIOUS
  <2> QED BY TakeEquivalentIs
<1> HIDE DEF n, W
<1>3. take \in [K -> [W -> W]] /\ \A c \in K : \A st \in W : take[c][st] = TakeEquivalent(st, c)
  BY <1>2
<1>4. base \in W
  BY DEF W
<1> HIDE DEF take
<1>5. PICK g \in [PositionSets(n) -> W] :
         FoldsLeft(g, base, take, old, n) /\ RunsOver(g, base, take, old, n)
  BY <1>1, <1>3, <1>4, LeftFoldsExist
<1>6. \A t \in SUBSET (1 .. n) :
         g[t] = IF t = {} THEN base ELSE TakeEquivalent(g[t \ {Max(t)}], old[Max(t)])
  <2> SUFFICES ASSUME NEW t \in SUBSET (1 .. n)
               PROVE  g[t] = IF t = {} THEN base
                             ELSE TakeEquivalent(g[t \ {Max(t)}], old[Max(t)])
    OBVIOUS
  <2>1. g[t] = IF t = {} THEN base ELSE take[old[Max(t)]][g[t \ {Max(t)}]]
    BY <1>5 DEF FoldsLeft
  <2>2. t # {} => Max(t) \in 1 .. n /\ g[t \ {Max(t)}] \in W
    BY <1>1, <1>5, MaxIsElement DEF PositionSets
  <2> QED BY <1>1, <1>3, <2>1, <2>2
<1>7. up(g)
  BY <1>1, <1>5, <1>6 DEF PositionSets
<1>8. PICK h : up(h) /\ FoldLeft(TakeEquivalent, base, old) = h[DOMAIN old]
  BY <1>7 DEF FoldLeft, MapThenFoldSet
<1>9. \A t \in SUBSET (1 .. n) :
         h[t] = IF t = {} THEN base ELSE TakeEquivalent(h[t \ {Max(t)}], old[Max(t)])
  BY <1>1, <1>8
<1> HIDE DEF up
<1> DEFINE f == [k \in 0 .. n |-> g[1 .. k]]
<1>10. /\ f \in [0 .. n -> W] /\ f[0] = g[1 .. 0]
       /\ \A k \in 1 .. n : f[k] = g[1 .. k] /\ f[k - 1] = g[1 .. (k - 1)]
  <2>1. \A k \in 0 .. n : 1 .. k \in PositionSets(n)
    BY <1>1 DEF PositionSets
  <2>2. 0 \in 0 .. n /\ \A k \in 1 .. n : k \in 0 .. n /\ k - 1 \in 0 .. n
    BY <1>1
  <2> QED BY <1>5, <2>1, <2>2
<1>11. \A k \in 1 .. n : /\ Max(1 .. k) = k /\ 1 .. k \in SUBSET (1 .. n)
                         /\ 1 .. k # {} /\ (1 .. k) \ {k} = 1 .. (k - 1)
  BY <1>1, MaxOfPrefix
<1>12. Takings(f, base, old)
  <2> HIDE DEF f
  <2>1. 1 .. 0 = {}
    OBVIOUS
  <2>2. g[1 .. 0] = base
    BY <1>6, <2>1
  <2>3. \A k \in 1 .. n : g[1 .. k] = TakeEquivalent(g[1 .. (k - 1)], old[k])
    BY <1>6, <1>11
  <2> QED BY <1>10, <2>2, <2>3 DEF Takings, n
<1>13. \A k \in 0 .. n : g[1 .. k] = h[1 .. k]
  <2> DEFINE A == {k \in 0 .. n : g[1 .. k] = h[1 .. k]}
  <2>1. 0 \in A
    <3>1. 1 .. 0 = {} /\ 0 \in 0 .. n
      BY <1>1
    <3> QED BY <1>6, <1>9, <3>1
  <2>2. \A k \in 1 .. n : k - 1 \in A => k \in A
    <3> SUFFICES ASSUME NEW k \in 1 .. n, k - 1 \in A PROVE k \in A
      OBVIOUS
    <3>1. /\ g[1 .. k] = TakeEquivalent(g[1 .. (k - 1)], old[k])
          /\ h[1 .. k] = TakeEquivalent(h[1 .. (k - 1)], old[k])
      BY <1>6, <1>9, <1>11
    <3> QED BY <1>1, <3>1
  <2> HIDE DEF A
  <2>3. \A k \in 0 .. n : k \in A
    BY <1>1, <2>1, <2>2, CountingUp
  <2> QED BY <2>3 DEF A
<1>14. FoldLeft(TakeEquivalent, base, old) = f[n]
  BY <1>1, <1>8, <1>10, <1>13
<1> QED BY <1>10, <1>12, <1>14 DEF n, W

(* What pairing keeps: the k-th pair is that of the k-th old clause, with  *)
(* an equivalent one or with none, as none of those left is equivalent;    *)
(* and each new clause is left or taken, as often as it was there.         *)
PairedSoFar(st, j, old, new, K) ==
    /\ st \in PairingStates(K)
    /\ Len(st.pairs) = j
    /\ \A k \in 1 .. j :
        /\ st.pairs[k][1] = old[k]
        /\ st.pairs[k][2] # NoClause =>
                AreArticlesEquivalent(old[k].ref, st.pairs[k][2].ref)
        /\ st.pairs[k][2] = NoClause =>
                \A i \in DOMAIN st.left :
                    ~ AreArticlesEquivalent(old[k].ref, st.left[i].ref)
    /\ \A C \in SUBSET K :
        Occurrences(st.left, C) + Occurrences(Seconds(st.pairs), C) = Occurrences(new, C)

LEMMA SecondsAre ==
    ASSUME NEW K, NEW pairs \in Seq(PairsOf(K))
    PROVE  /\ Seconds(pairs) \in Seq(K \cup {NoClause})
           /\ Len(Seconds(pairs)) = Len(pairs)
           /\ \A k \in 1 .. Len(pairs) : Seconds(pairs)[k] = pairs[k][2]
           /\ \A p \in PairsOf(K) : Seconds(Append(pairs, p)) = Append(Seconds(pairs), p[2])
<1> DEFINE n == Len(pairs)
           H == K \cup {NoClause}
<1>1. /\ n \in Nat /\ DOMAIN pairs = 1 .. n
      /\ \A k \in 1 .. n : pairs[k] \in PairsOf(K)
  BY LenProperties
<1>2. \A p \in PairsOf(K) : p[2] \in H
  BY DEF PairsOf
<1> HIDE DEF n, H
<1>3. Seconds(pairs) = [k \in 1 .. n |-> pairs[k][2]]
  BY <1>1 DEF Seconds
<1>4. /\ Seconds(pairs) \in Seq(H) /\ Len(Seconds(pairs)) = n
      /\ \A k \in 1 .. n : Seconds(pairs)[k] = pairs[k][2]
  BY <1>1, <1>2, <1>3
<1>5. ASSUME NEW p \in PairsOf(K)
      PROVE  Seconds(Append(pairs, p)) = Append(Seconds(pairs), p[2])
  <2> DEFINE more == Append(pairs, p)
             a == Append(Seconds(pairs), p[2])
  <2>1. /\ more \in Seq(PairsOf(K)) /\ Len(more) = n + 1
        /\ \A k \in 1 .. n : more[k] = pairs[k]
        /\ more[n + 1] = p
    BY AppendProperties DEF n
  <2>2. /\ a \in Seq(H) /\ Len(a) = n + 1
        /\ \A k \in 1 .. n : a[k] = Seconds(pairs)[k]
        /\ a[n + 1] = p[2]
    BY <1>2, <1>4, AppendProperties
  <2> HIDE DEF more, a
  <2>3. DOMAIN more = 1 .. n + 1 /\ DOMAIN a = 1 .. n + 1
    BY <1>1, <2>1, <2>2, LenProperties
  <2>4. \A k \in 1 .. n + 1 : more[k][2] = a[k]
    <3> SUFFICES ASSUME NEW k \in 1 .. n + 1 PROVE more[k][2] = a[k]
      OBVIOUS
    <3>1. k = n + 1 \/ k \in 1 .. n
      BY <1>1
    <3> QED BY <1>4, <2>1, <2>2, <3>1
  <2>5. a = [k \in 1 .. n + 1 |-> a[k]]
    BY <2>2, <2>3
  <2>6. Seconds(more) = [k \in 1 .. n + 1 |-> more[k][2]]
    BY <2>3 DEF Seconds
  <2>7. Seconds(more) = a
    BY <2>4, <2>5, <2>6
  <2> QED BY <2>7 DEF more, a
<1> QED BY <1>4, <1>5 DEF n, H

(* One step of it: c takes x, a clause or none.                            *)
TakesOne(st, c, x, next, K) ==
    /\ x \in K \cup {NoClause}
    /\ next \in PairingStates(K)
    /\ next.pairs = Append(st.pairs, <<c, x>>)
    /\ \A i \in DOMAIN next.left : \E m \in DOMAIN st.left : next.left[i] = st.left[m]
    /\ x # NoClause => AreArticlesEquivalent(c.ref, x.ref)
    /\ x = NoClause => \A i \in DOMAIN next.left :
                            ~ AreArticlesEquivalent(c.ref, next.left[i].ref)
    /\ \A C \in SUBSET K :
            Occurrences(next.left, C) + (IF x \in C THEN 1 ELSE 0) = Occurrences(st.left, C)

LEMMA TakingKeeps ==
    ASSUME NEW K, NoClause \notin K, NEW old \in Seq(K), NEW new \in Seq(K),
           NEW j \in 1 .. Len(old), NEW st, PairedSoFar(st, j - 1, old, new, K)
    PROVE  PairedSoFar(TakeEquivalent(st, old[j]), j, old, new, K)
<1> DEFINE c == old[j]
           next == TakeEquivalent(st, c)
<1>1. st \in PairingStates(K) /\ c \in K /\ j \in Nat /\ j - 1 \in Nat
      /\ st.pairs \in Seq(PairsOf(K)) /\ st.left \in Seq(K) /\ Len(st.pairs) = j - 1
  BY LenProperties DEF PairedSoFar, PairingStates
<1>2. \A k \in 1 .. j - 1 :
        /\ st.pairs[k][1] = old[k]
        /\ st.pairs[k][2] # NoClause =>
                AreArticlesEquivalent(old[k].ref, st.pairs[k][2].ref)
        /\ st.pairs[k][2] = NoClause =>
                \A i \in DOMAIN st.left :
                    ~ AreArticlesEquivalent(old[k].ref, st.left[i].ref)
  BY DEF PairedSoFar
<1>3. \A C \in SUBSET K :
        Occurrences(st.left, C) + Occurrences(Seconds(st.pairs), C) = Occurrences(new, C)
  BY DEF PairedSoFar
<1>4. ASSUME NEW x, TakesOne(st, c, x, next, K) PROVE PairedSoFar(next, j, old, new, K)
  <2> HIDE DEF next
  <2> USE <1>4 DEF TakesOne
  <2>1. <<c, x>> \in PairsOf(K) /\ <<c, x>>[1] = c /\ <<c, x>>[2] = x
    BY <1>1 DEF PairsOf
  <2>2. /\ Len(next.pairs) = j
        /\ \A k \in 1 .. j - 1 : next.pairs[k] = st.pairs[k]
        /\ next.pairs[j] = <<c, x>>
    <3>1. /\ Len(next.pairs) = (j - 1) + 1
          /\ \A k \in 1 .. j - 1 : next.pairs[k] = st.pairs[k]
          /\ next.pairs[(j - 1) + 1] = <<c, x>>
      BY <1>1, <1>4, <2>1, AppendProperties
    <3>2. (j - 1) + 1 = j
      BY <1>1
    <3> QED BY <3>1, <3>2
  <2>3. ASSUME NEW k \in 1 .. j
        PROVE  /\ next.pairs[k][1] = old[k]
               /\ next.pairs[k][2] # NoClause =>
                    AreArticlesEquivalent(old[k].ref, next.pairs[k][2].ref)
               /\ next.pairs[k][2] = NoClause =>
                    \A i \in DOMAIN next.left :
                        ~ AreArticlesEquivalent(old[k].ref, next.left[i].ref)
    <3>1. CASE k = j
      BY <1>4, <2>1, <2>2, <3>1
    <3>2. CASE k # j
      <4>1. k \in 1 .. j - 1
        BY <1>1, <3>2
      <4> QED BY <1>2, <1>4, <2>2, <4>1
    <3> QED BY <3>1, <3>2
  <2>4. ASSUME NEW C \in SUBSET K
        PROVE  Occurrences(next.left, C) + Occurrences(Seconds(next.pairs), C)
                 = Occurrences(new, C)
    <3> DEFINE H == K \cup {NoClause}
               s == Seconds(st.pairs)
    <3>0. s \in Seq(H) /\ \A p \in PairsOf(K) : Seconds(Append(st.pairs, p)) = Append(s, p[2])
      BY <1>1, SecondsAre
    <3>1. Seconds(next.pairs) = Append(s, x) /\ s \in Seq(H) /\ x \in H
      BY <1>4, <2>1, <3>0
    <3> HIDE DEF H, s
    <3>2. Occurrences(Append(s, x), C) = Occurrences(s, C) + (IF x \in C THEN 1 ELSE 0)
      BY <3>1, OccurrencesOfAppend
    <3>3. Occurrences(s, C) \in Nat
      BY <3>1, HitsAre
    <3>4. Occurrences(next.left, C) \in Nat
      <4>1. next.left \in Seq(K)
        BY <1>4 DEF PairingStates
      <4> QED BY <4>1, HitsAre
    <3>5. Occurrences(st.left, C) + Occurrences(s, C) = Occurrences(new, C)
      BY <1>3 DEF s
    <3>6. Occurrences(next.left, C) + (IF x \in C THEN 1 ELSE 0)
            = Occurrences(st.left, C)
      BY <1>4
    <3>7. Occurrences(Seconds(next.pairs), C)
            = Occurrences(s, C) + (IF x \in C THEN 1 ELSE 0)
      BY <3>1, <3>2
    <3> QED BY ONLY <3>3, <3>4, <3>5, <3>6, <3>7
  <2> QED BY <1>4, <2>2, <2>3, <2>4 DEF PairedSoFar
<1>5. CASE /\ \A i \in DOMAIN st.left : ~ AreArticlesEquivalent(c.ref, st.left[i].ref)
           /\ next.left = st.left
           /\ next.pairs = Append(st.pairs, <<c, NoClause>>)
           /\ next \in PairingStates(K)
  <2>1. \A C \in SUBSET K : /\ NoClause \notin C
                            /\ Occurrences(st.left, C) \in Nat
    BY <1>1, HitsAre
  <2>2. \A C \in SUBSET K : Occurrences(next.left, C) + (IF NoClause \in C THEN 1 ELSE 0)
                              = Occurrences(st.left, C)
    BY <1>5, <2>1
  <2> DEFINE x == NoClause
  <2>3. x \in K \cup {NoClause} /\ x = NoClause
    OBVIOUS
  <2>4. next.pairs = Append(st.pairs, <<c, x>>) /\ next \in PairingStates(K)
    BY <1>5
  <2>5. /\ \A i \in DOMAIN next.left : \E m \in DOMAIN st.left : next.left[i] = st.left[m]
        /\ \A i \in DOMAIN next.left : ~ AreArticlesEquivalent(c.ref, next.left[i].ref)
    <3> HIDE DEF next
    <3> QED BY <1>5
  <2>6. \A C \in SUBSET K : Occurrences(next.left, C) + (IF x \in C THEN 1 ELSE 0)
                              = Occurrences(st.left, C)
    BY <2>2
  <2> HIDE DEF next, x
  <2>7. /\ x # NoClause => AreArticlesEquivalent(c.ref, x.ref)
        /\ x = NoClause => \A i \in DOMAIN next.left :
                              ~ AreArticlesEquivalent(c.ref, next.left[i].ref)
    BY <2>3, <2>5
  <2>8. x \in K \cup {NoClause}
    BY <2>3
  <2>9. \A i \in DOMAIN next.left : \E m \in DOMAIN st.left : next.left[i] = st.left[m]
    BY <2>5
  <2>10. TakesOne(st, c, x, next, K)
    BY ONLY <2>4, <2>6, <2>7, <2>8, <2>9 DEF TakesOne
  <2> QED BY ONLY <1>4, <2>10 DEF next
<1>6. ASSUME NEW k \in DOMAIN st.left,
             AreArticlesEquivalent(c.ref, st.left[k].ref),
             next.left = RemoveAt(st.left, k),
             next.pairs = Append(st.pairs, <<c, st.left[k]>>),
             st.left[k] \in K, next \in PairingStates(K)
      PROVE  PairedSoFar(next, j, old, new, K)
  <2> DEFINE x == st.left[k]
  <2>1. /\ \A i \in DOMAIN next.left : \E m \in DOMAIN st.left : next.left[i] = st.left[m]
        /\ \A C \in SUBSET K : Occurrences(next.left, C) + (IF x \in C THEN 1 ELSE 0)
                                 = Occurrences(st.left, C)
    BY <1>1, <1>6, OccurrencesWithout
  <2>2. x \in K /\ x # NoClause
    BY <1>6
  <2> HIDE DEF next
  <2>3. TakesOne(st, c, x, next, K)
    BY <1>6, <2>1, <2>2 DEF TakesOne
  <2> QED BY <1>4, <2>3
<1> QED BY <1>1, <1>5, <1>6, TakeEquivalentIs

(* What the pairs of two lists of clauses are.                             *)
Matching(pairs, old, new, K) ==
    /\ pairs \in Seq(PairsOf(K))
    /\ Len(old) <= Len(pairs)
    /\ \A k \in 1 .. Len(old) :
        /\ pairs[k][1] = old[k]
        /\ pairs[k][2] # NoClause => AreArticlesEquivalent(old[k].ref, pairs[k][2].ref)
    /\ \A k \in Len(old) + 1 .. Len(pairs) : pairs[k][1] = NoClause /\ pairs[k][2] \in K
    /\ \A i \in 1 .. Len(old), k \in Len(old) + 1 .. Len(pairs) :
        pairs[i][2] = NoClause => ~ AreArticlesEquivalent(old[i].ref, pairs[k][2].ref)
    /\ \A C \in SUBSET K : Occurrences(Seconds(pairs), C) = Occurrences(new, C)

LEMMA PairsMatch ==
    ASSUME NEW K, NoClause \notin K, NEW old \in Seq(K), NEW new \in Seq(K)
    PROVE  Matching(MatchedPairs(old, new), old, new, K)
<1> DEFINE base == [left |-> new, pairs |-> <<>>]
           n == Len(old)
<1>1. base \in PairingStates(K)
  <2>1. <<>> \in Seq(PairsOf(K))
    OBVIOUS
  <2> QED BY <2>1 DEF PairingStates
<1>2. base.left = new /\ base.pairs = <<>>
  OBVIOUS
<1>3. n \in Nat /\ 0 \in 0 .. n /\ n \in 0 .. n
  BY LenProperties
<1>4. PairedSoFar(base, 0, old, new, K)
  <2>1. Len(base.pairs) = 0
    BY <1>2
  <2>2. Seconds(<<>>) = <<>>
    BY DEF Seconds
  <2>3. ASSUME NEW C \in SUBSET K
        PROVE  Occurrences(base.left, C) + Occurrences(Seconds(base.pairs), C)
                 = Occurrences(new, C)
    <3>1. HitsOf(<<>>, C) = <<>>
      BY DEF HitsOf
    <3>2. Occurrences(Seconds(base.pairs), C) = 0
      BY <1>2, <2>2, <3>1, TotalOfNothing DEF Occurrences
    <3>3. Occurrences(new, C) \in Nat
      BY HitsAre
    <3> QED BY <1>2, <3>2, <3>3
  <2>4. 1 .. 0 = {}
    OBVIOUS
  <2> HIDE DEF base
  <2> QED BY <1>1, <2>1, <2>3, <2>4 DEF PairedSoFar
<1> HIDE DEF base
<1>5. PICK f \in [0 .. n -> PairingStates(K)] :
         Takings(f, base, old) /\ FoldLeft(TakeEquivalent, base, old) = f[n]
  BY <1>1, TakingRuns
<1> DEFINE A == {j \in 0 .. n : PairedSoFar(f[j], j, old, new, K)}
<1>6. 0 \in A
  BY <1>3, <1>4, <1>5 DEF Takings
<1>7. \A j \in 1 .. n : j - 1 \in A => j \in A
  <2> SUFFICES ASSUME NEW j \in 1 .. n, j - 1 \in A PROVE j \in A
    OBVIOUS
  <2>1. f[j] = TakeEquivalent(f[j - 1], old[j]) /\ j \in 0 .. n
    BY <1>3, <1>5 DEF Takings
  <2>2. PairedSoFar(TakeEquivalent(f[j - 1], old[j]), j, old, new, K)
    BY TakingKeeps
  <2> QED BY <2>1, <2>2
<1> HIDE DEF A
<1>8. \A j \in 0 .. n : j \in A
  BY <1>3, <1>6, <1>7, CountingUp
<1>9. PairedSoFar(f[n], n, old, new, K)
  BY <1>3, <1>8 DEF A
<1> DEFINE end == f[n]
           m == Len(end.left)
           tail == [k \in DOMAIN end.left |-> <<NoClause, end.left[k]>>]
           pairs == end.pairs \o tail
<1>10. MatchedPairs(old, new) = pairs
  BY <1>5 DEF MatchedPairs, base
<1>11. /\ end.left \in Seq(K) /\ end.pairs \in Seq(PairsOf(K)) /\ Len(end.pairs) = n
       /\ m \in Nat /\ DOMAIN end.left = 1 .. m /\ \A k \in 1 .. m : end.left[k] \in K
  <2>1. end.left \in Seq(K) /\ end.pairs \in Seq(PairsOf(K)) /\ Len(end.pairs) = n
    BY <1>9 DEF PairedSoFar, PairingStates
  <2> QED BY <2>1, LenProperties
<1> HIDE DEF end, n, m
<1>12. /\ tail \in Seq(PairsOf(K)) /\ Len(tail) = m
       /\ \A k \in 1 .. m : tail[k] = <<NoClause, end.left[k]>>
  <2>1. \A k \in 1 .. m : <<NoClause, end.left[k]>> \in PairsOf(K)
    BY <1>11 DEF PairsOf
  <2>2. tail = [k \in 1 .. m |-> <<NoClause, end.left[k]>>]
    BY <1>11
  <2> QED BY <1>11, <2>1, <2>2
<1> HIDE DEF tail
<1>13. /\ pairs \in Seq(PairsOf(K)) /\ Len(pairs) = n + m
       /\ \A k \in 1 .. n + m : pairs[k] = IF k <= n THEN end.pairs[k] ELSE tail[k - n]
  <2> DEFINE front == end.pairs
             P == PairsOf(K)
  <2>1. front \in Seq(P) /\ tail \in Seq(P) /\ Len(front) = n /\ Len(tail) = m
    BY <1>11, <1>12
  <2> HIDE DEF front, P
  <2>2. /\ front \o tail \in Seq(P) /\ Len(front \o tail) = n + m
        /\ \A k \in 1 .. n + m : (front \o tail)[k] = IF k <= n THEN front[k] ELSE tail[k - n]
    BY <2>1, ConcatProperties
  <2> QED BY <2>2 DEF front, P
<1>14. Seconds(pairs) = Seconds(end.pairs) \o end.left
  <2> DEFINE H == K \cup {NoClause}
             a == Seconds(end.pairs)
             b == a \o end.left
  <2>1. /\ a \in Seq(H) /\ Len(a) = n /\ \A k \in 1 .. n : a[k] = end.pairs[k][2]
    BY <1>11, SecondsAre
  <2>2. /\ Seconds(pairs) \in Seq(H) /\ Len(Seconds(pairs)) = n + m
        /\ \A k \in 1 .. n + m : Seconds(pairs)[k] = pairs[k][2]
    <3> HIDE DEF pairs
    <3> QED BY <1>13, SecondsAre
  <2>3. end.left \in Seq(H)
    <3>1. end.left = [k \in 1 .. m |-> end.left[k]]
      BY <1>11
    <3> QED BY <1>11, <3>1
  <2> HIDE DEF H, a
  <2>4. /\ b \in Seq(H) /\ Len(b) = n + m
        /\ \A k \in 1 .. n + m : b[k] = IF k <= n THEN a[k] ELSE end.left[k - n]
    <3> DEFINE rest == end.left
    <3>1. rest \in Seq(H) /\ Len(rest) = m
      BY <2>3 DEF m
    <3> HIDE DEF rest, b
    <3>2. /\ a \o rest \in Seq(H) /\ Len(a \o rest) = n + m
          /\ \A k \in 1 .. n + m : (a \o rest)[k] = IF k <= n THEN a[k] ELSE rest[k - n]
      BY <2>1, <3>1, ConcatProperties
    <3> QED BY <3>2 DEF b, rest
  <2> HIDE DEF b, pairs
  <2>5. ASSUME NEW k \in 1 .. n + m PROVE Seconds(pairs)[k] = b[k]
    <3>1. CASE k <= n
      <4>1. k \in 1 .. n
        BY <1>3, <1>11, <3>1
      <4>2. pairs[k] = end.pairs[k]
        BY <1>13, <3>1
      <4> QED BY <2>1, <2>2, <2>4, <3>1, <4>1, <4>2
    <3>2. CASE ~ (k <= n)
      <4>1. k - n \in 1 .. m
        BY <1>3, <1>11, <3>2
      <4>2. tail[k - n][2] = end.left[k - n]
        BY <1>12, <4>1
      <4> QED BY <1>13, <2>2, <2>4, <3>2, <4>2
    <3> QED BY <3>1, <3>2
  <2>6. Seconds(pairs) = b
    BY <2>2, <2>4, <2>5, SeqEqual
  <2> QED BY <2>6 DEF a, b
<1> HIDE DEF pairs
<1>15. ASSUME NEW k \in 1 .. n
       PROVE  /\ k \in 1 .. n + m /\ pairs[k] = end.pairs[k]
              /\ pairs[k][1] = old[k]
              /\ pairs[k][2] # NoClause => AreArticlesEquivalent(old[k].ref, pairs[k][2].ref)
              /\ pairs[k][2] = NoClause =>
                    \A i \in 1 .. m : ~ AreArticlesEquivalent(old[k].ref, end.left[i].ref)
  <2>1. k \in 1 .. n + m /\ k <= n
    BY <1>3, <1>11
  <2>2. pairs[k] = end.pairs[k]
    BY <1>13, <2>1
  <2> QED BY <1>9, <1>11, <2>1, <2>2 DEF PairedSoFar, end
<1>16. ASSUME NEW k \in n + 1 .. n + m
       PROVE  /\ k - n \in 1 .. m /\ pairs[k][1] = NoClause
              /\ pairs[k][2] = end.left[k - n] /\ pairs[k][2] \in K
  <2>1. k - n \in 1 .. m /\ k \in 1 .. n + m /\ ~ (k <= n)
    BY <1>3, <1>11
  <2>2. pairs[k] = <<NoClause, end.left[k - n]>>
    BY <1>12, <1>13, <2>1
  <2> QED BY <1>11, <2>1, <2>2
<1>17. ASSUME NEW C \in SUBSET K
       PROVE  Occurrences(Seconds(pairs), C) = Occurrences(new, C)
  <2> DEFINE H == K \cup {NoClause}
             a == Seconds(end.pairs)
  <2>1. a \in Seq(H)
    BY <1>11, SecondsAre
  <2>2. end.left \in Seq(H)
    <3>1. end.left = [k \in 1 .. m |-> end.left[k]]
      BY <1>11
    <3> QED BY <1>11, <3>1
  <2> HIDE DEF H, a
  <2>3. Occurrences(a \o end.left, C) = Occurrences(a, C) + Occurrences(end.left, C)
    BY <2>1, <2>2, OccurrencesOfConcatenation
  <2>4. Occurrences(a, C) \in Nat /\ Occurrences(end.left, C) \in Nat
    BY <2>1, <2>2, HitsAre
  <2>5. Occurrences(end.left, C) + Occurrences(a, C) = Occurrences(new, C)
    BY <1>9 DEF PairedSoFar, end, a
  <2> QED BY <1>14, <2>3, <2>4, <2>5 DEF a
<1>18. Matching(pairs, old, new, K)
  <2>1. n <= Len(pairs)
    BY <1>3, <1>11, <1>13
  <2>2. \A i \in 1 .. n, k \in n + 1 .. Len(pairs) :
          pairs[i][2] = NoClause => ~ AreArticlesEquivalent(old[i].ref, pairs[k][2].ref)
    BY <1>13, <1>15, <1>16
  <2> QED BY <1>13, <1>15, <1>16, <1>17, <2>1, <2>2 DEF Matching, n
<1> QED BY <1>10, <1>18

(* The clauses of a text are a sequence of clauses, none of them missing.  *)
Headings == [form : {"digits", "levels", "words"}, number : Nat, sub : Nat]

TextSections ==
    [heading : Headings,
     body : [words : SUBSET STRING, marks : STRING,
             numbers : Seq([minus : BOOLEAN, digits : Seq(Nat)])]]

LEMMA ClausesOfText ==
    ASSUME NEW text \in Seq(TextSections)
    PROVE  /\ \E n \in Nat : DOMAIN ExtractClauses(text) = 1 .. n
           /\ ExtractClauses(text)
                = [i \in DOMAIN ExtractClauses(text) |-> ExtractClauses(text)[i]]
           /\ \A i \in DOMAIN ExtractClauses(text) : ExtractClauses(text)[i] # NoClause
<1> DEFINE heads == {k \in DOMAIN text : Recognised(text[k].heading)}
           End(k) == CHOOSE e \in k .. Len(text) :
                        /\ e = Len(text) \/ e + 1 \in heads
                        /\ \A i \in (k + 1) .. e : i \notin heads
           starts == InOrder(heads)
           part(i) == [ref |-> ArticleRef(text[starts[i]].heading),
                       sections |-> SubSeq(text, starts[i], End(starts[i]))]
<1>1. /\ DOMAIN text = 1 .. Len(text) /\ Len(text) \in Nat
      /\ \A k \in DOMAIN text : text[k] \in TextSections
  BY LenProperties
<1>2. NoClause.ref.form = "none"
  BY DEF NoClause, Document
<1>3. CASE heads = {}
  <2>1. ExtractClauses(text) = <<[ref |-> Document, sections |-> text]>>
    BY <1>3 DEF ExtractClauses
  <2>2. [ref |-> Document, sections |-> text].ref.form = "document"
    BY DEF Document
  <2>3. /\ DOMAIN ExtractClauses(text) = 1 .. 1 /\ 1 \in Nat
        /\ ExtractClauses(text)[1] = [ref |-> Document, sections |-> text]
    BY <2>1
  <2>4. ExtractClauses(text)[1] # NoClause
    BY <1>2, <2>2, <2>3
  <2>5. ExtractClauses(text) = [i \in 1 .. 1 |-> ExtractClauses(text)[i]]
    BY <2>1
  <2>6. \A i \in 1 .. 1 : i = 1
    OBVIOUS
  <2> QED BY <2>3, <2>4, <2>5, <2>6
<1>4. CASE heads # {}
  <2>1. ExtractClauses(text) = [i \in DOMAIN starts |-> part(i)]
    BY <1>4, Zenon DEF ExtractClauses
  <2>2. heads \in SUBSET (1 .. Len(text)) /\ \A k \in heads : k \in DOMAIN text
    BY <1>1
  <2> HIDE DEF heads
  <2>3. /\ Cardinality(heads) \in Nat /\ DOMAIN starts = 1 .. Cardinality(heads)
        /\ \A i \in DOMAIN starts : starts[i] \in heads
    BY <1>1, <2>2, InOrderIs
  <2>4. ASSUME NEW i \in DOMAIN starts PROVE part(i).ref.form # "none"
    <3> DEFINE h == text[starts[i]].heading
    <3>1. h \in Headings
      BY <1>1, <2>2, <2>3 DEF TextSections
    <3> HIDE DEF h, starts
    <3>2. ArticleRef(h).form = h.form /\ h.form \in {"digits", "levels", "words"}
      BY <3>1 DEF ArticleRef, Headings
    <3> QED BY <3>2 DEF h
  <2> HIDE DEF part, starts
  <2>5. \A i \in DOMAIN starts : part(i) # NoClause
    BY <1>2, <2>4
  <2> QED BY <2>1, <2>3, <2>5
<1> QED BY <1>3, <1>4

(* The clauses of two texts.                                               *)
ClauseSet(old, new) ==
    {ExtractClauses(old)[i] : i \in DOMAIN ExtractClauses(old)}
        \cup {ExtractClauses(new)[i] : i \in DOMAIN ExtractClauses(new)}

LEMMA ClausesAreSequences ==
    ASSUME NEW old \in Seq(TextSections), NEW new \in Seq(TextSections)
    PROVE  /\ NoClause \notin ClauseSet(old, new)
           /\ ExtractClauses(old) \in Seq(ClauseSet(old, new))
           /\ ExtractClauses(new) \in Seq(ClauseSet(old, new))
<1>1. NoClause \notin ClauseSet(old, new)
  BY ClausesOfText DEF ClauseSet
<1>2. ASSUME NEW text \in {old, new}
      PROVE  ExtractClauses(text) \in Seq(ClauseSet(old, new))
  <2> DEFINE s == ExtractClauses(text)
  <2>1. PICK n \in Nat : DOMAIN s = 1 .. n
    BY ClausesOfText
  <2>2. s = [i \in 1 .. n |-> s[i]]
    BY <2>1, ClausesOfText
  <2>3. \A i \in 1 .. n : s[i] \in ClauseSet(old, new)
    BY <2>1 DEF ClauseSet
  <2> HIDE DEF s
  <2>4. s \in Seq(ClauseSet(old, new))
    BY <2>2, <2>3
  <2> QED BY <2>4 DEF s
<1> QED BY <1>1, <1>2

(* What the call and the answer of a comparison are.                       *)
LEMMA ComparisonOfCall ==
    ASSUME AnswerInv, Answered("compare")
    PROVE  /\ call.old \in Seq(TextSections) /\ call.new \in Seq(TextSections)
           /\ answer.pairs = MatchedPairs(ExtractClauses(call.old), ExtractClauses(call.new))
           /\ answer.changes = CompareClauseSets(ExtractClauses(call.old),
                                                 ExtractClauses(call.new))
           /\ Matching(answer.pairs, ExtractClauses(call.old), ExtractClauses(call.new),
                       ClauseSet(call.old, call.new))
<1>1. call \in Comparisons
  BY CallsOfTheirKind DEF AnswerInv, Answered
<1>2. call.old \in Seq(TextSections) /\ call.new \in Seq(TextSections)
  BY <1>1, ComparisonAssumption DEF TextSections, Headings
<1>3. /\ answer.pairs = MatchedPairs(ExtractClauses(call.old), ExtractClauses(call.new))
      /\ answer.changes = CompareClauseSets(ExtractClauses(call.old),
                                            ExtractClauses(call.new))
  BY DEF AnswerInv
<1>4. Matching(answer.pairs, ExtractClauses(call.old), ExtractClauses(call.new),
               ClauseSet(call.old, call.new))
  BY <1>2, <1>3, ClausesAreSequences, PairsMatch
<1> QED BY <1>2, <1>3, <1>4

LEMMA PairsCover == ASSUME AnswerInv PROVE PairsCoverBothTexts
<1> SUFFICES ASSUME Answered("compare") PROVE PairsCoverBothTexts
  BY DEF PairsCoverBothTexts
<1> DEFINE old == ExtractClauses(call.old)
           new == ExtractClauses(call.new)
           K == ClauseSet(call.old, call.new)
           pairs == answer.pairs
           S(i) == {k \in DOMAIN pairs : pairs[k][i] # NoClause}
           held(i) == InOrder(S(i))
           Side(i) == [j \in DOMAIN held(i) |-> pairs[held(i)[j]][i]]
           Times(s, c) == Cardinality({k \in DOMAIN s : s[k] = c})
           n == Len(old)
           m == Len(pairs)
<1>1. /\ NoClause \notin K /\ old \in Seq(K) /\ new \in Seq(K)
      /\ Matching(pairs, old, new, K)
  BY ComparisonOfCall, ClausesAreSequences
<1> HIDE DEF old, new, K, pairs
<1>2. /\ pairs \in Seq(PairsOf(K)) /\ n <= m
      /\ \A k \in 1 .. n : pairs[k][1] = old[k]
      /\ \A k \in n + 1 .. m : pairs[k][1] = NoClause
      /\ \A C \in SUBSET K : Occurrences(Seconds(pairs), C) = Occurrences(new, C)
  BY <1>1 DEF Matching
<1>3. /\ n \in Nat /\ m \in Nat /\ DOMAIN old = 1 .. n /\ DOMAIN pairs = 1 .. m
      /\ \A k \in 1 .. n : old[k] \in K
      /\ \A k \in 1 .. m : pairs[k][2] \in K \cup {NoClause}
  <2>1. /\ n \in Nat /\ m \in Nat /\ DOMAIN old = 1 .. n /\ DOMAIN pairs = 1 .. m
        /\ \A k \in 1 .. n : old[k] \in K
        /\ \A k \in 1 .. m : pairs[k] \in PairsOf(K)
    BY <1>1, <1>2, LenProperties
  <2>2. \A p \in PairsOf(K) : p[2] \in K \cup {NoClause}
    BY DEF PairsOf
  <2> QED BY <2>1, <2>2
<1> HIDE DEF n, m
<1>4. Side(1) = old
  <2>1. S(1) = 1 .. n
    <3>1. ASSUME NEW k \in 1 .. n PROVE k \in S(1)
      BY <1>1, <1>2, <1>3
    <3>2. ASSUME NEW k \in S(1) PROVE k \in 1 .. n
      <4>1. k \in 1 .. m /\ k \notin n + 1 .. m
        BY <1>2, <1>3
      <4> QED BY <1>3, <4>1
    <3> QED BY <3>1, <3>2
  <2> HIDE DEF S
  <2>2. DOMAIN held(1) = 1 .. n /\ \A k \in 1 .. n : held(1)[k] = k
    BY <1>3, <2>1, IntervalInOrder, InOrderIs
  <2> HIDE DEF held
  <2>3. Side(1) = [j \in 1 .. n |-> old[j]]
    BY <1>2, <2>2
  <2>4. old = [j \in 1 .. n |-> old[j]]
    BY <1>1, <1>3
  <2> QED BY <2>3, <2>4
<1> DEFINE H == K \cup {NoClause}
           s == Seconds(pairs)
<1>5. s \in Seq(H) /\ Len(s) = m /\ DOMAIN s = 1 .. m /\ \A k \in 1 .. m : s[k] = pairs[k][2]
  <2>1. s \in Seq(H) /\ Len(s) = m /\ \A k \in 1 .. m : s[k] = pairs[k][2]
    BY <1>2, SecondsAre DEF m
  <2> QED BY <2>1, LenProperties
<1> HIDE DEF H, s
<1>6. ASSUME NEW C \in SUBSET K
      PROVE  Cardinality({k \in 1 .. m : pairs[k][2] \in C})
               = Cardinality({k \in DOMAIN new : new[k] \in C})
  <2>1. Occurrences(s, C) = Cardinality({k \in DOMAIN s : s[k] \in C})
    BY <1>5, OccurrencesAre
  <2>2. Occurrences(new, C) = Cardinality({k \in DOMAIN new : new[k] \in C})
    BY <1>1, OccurrencesAre
  <2>3. Occurrences(s, C) = Occurrences(new, C)
    BY <1>2 DEF s
  <2>4. {k \in DOMAIN s : s[k] \in C} = {k \in 1 .. m : pairs[k][2] \in C}
    BY <1>5
  <2> QED BY <2>1, <2>2, <2>3, <2>4
<1>7. /\ DOMAIN new = 1 .. Len(new) /\ Len(new) \in Nat
      /\ \A k \in DOMAIN new : new[k] \in K
  BY <1>1, LenProperties
<1>8. S(2) = {k \in 1 .. m : pairs[k][2] \in K}
  BY <1>1, <1>3
<1>9. Cardinality(S(2)) = Len(new)
  <2>1. {k \in DOMAIN new : new[k] \in K} = 1 .. Len(new)
    BY <1>7
  <2>2. Cardinality(1 .. Len(new)) = Len(new)
    BY <1>7, IntervalInOrder
  <2>3. Cardinality({k \in 1 .. m : pairs[k][2] \in K})
          = Cardinality({k \in DOMAIN new : new[k] \in K})
    BY <1>6
  <2> QED BY <1>8, <2>1, <2>2, <2>3
<1>10. S(2) \in SUBSET (1 .. m) /\ \A k \in S(2) : pairs[k][2] \in K
  BY <1>8
<1>11. /\ DOMAIN held(2) = 1 .. Cardinality(S(2)) /\ Cardinality(S(2)) \in Nat
       /\ \A j \in 1 .. Cardinality(S(2)) : held(2)[j] \in S(2)
  <2> HIDE DEF S
  <2> QED BY <1>3, <1>10, InOrderIs
<1>12. Len(Side(2)) = Len(new) /\ DOMAIN Side(2) = 1 .. Len(new)
       /\ \A j \in 1 .. Len(new) : Side(2)[j] = pairs[held(2)[j]][2]
  <2> HIDE DEF S, held
  <2>1. Side(2) = [j \in 1 .. Len(new) |-> pairs[held(2)[j]][2]]
    BY <1>9, <1>11
  <2> QED BY <1>7, <2>1
<1>13. ASSUME NEW k \in DOMAIN new PROVE Times(Side(2), new[k]) = Times(new, new[k])
  <2> DEFINE c == new[k]
             T == {i \in 1 .. m : pairs[i][2] = c}
  <2>1. c \in K /\ c # NoClause
    BY <1>1, <1>7
  <2> HIDE DEF c
  <2>2. T \in SUBSET S(2)
    BY <1>3, <2>1
  <2>3. Cardinality({j \in 1 .. Cardinality(S(2)) : held(2)[j] \in T}) = Cardinality(T)
    <3> HIDE DEF S, T
    <3> QED BY <1>3, <1>10, <2>2, InOrderCounts
  <2>4. {j \in 1 .. Cardinality(S(2)) : held(2)[j] \in T}
          = {j \in DOMAIN Side(2) : Side(2)[j] = c}
    <3>1. \A j \in 1 .. Len(new) : held(2)[j] \in 1 .. m
      <4> HIDE DEF held, S
      <4> QED BY <1>9, <1>10, <1>11
    <3> HIDE DEF held, S, Side
    <3> QED BY <1>9, <1>12, <3>1
  <2>5. T = {i \in 1 .. m : pairs[i][2] \in {c}}
        /\ {i \in DOMAIN new : new[i] \in {c}} = {i \in DOMAIN new : new[i] = c}
    OBVIOUS
  <2>6. Cardinality(T) = Cardinality({i \in DOMAIN new : new[i] = c})
    <3>1. {c} \in SUBSET K
      BY <2>1
    <3>2. Cardinality({i \in 1 .. m : pairs[i][2] \in {c}})
            = Cardinality({i \in DOMAIN new : new[i] \in {c}})
      BY <1>6, <3>1
    <3> QED BY <2>5, <3>2
  <2> HIDE DEF S, T, held, Side
  <2>7. Cardinality({j \in DOMAIN Side(2) : Side(2)[j] = c})
          = Cardinality({i \in DOMAIN new : new[i] = c})
    BY <2>3, <2>4, <2>6
  <2> QED BY <2>7 DEF c
<1> HIDE DEF S, held
<1>14. /\ Side(1) = old /\ Len(Side(2)) = Len(new)
       /\ \A k \in DOMAIN new : Times(Side(2), new[k]) = Times(new, new[k])
  BY ONLY <1>4, <1>12, <1>13
<1> QED BY ONLY <1>14, Zenon DEF PairsCoverBothTexts, held, S, pairs, old, new

(* The changes recorded of a list of pairs: each is that of a pair of      *)
(* different clauses, and each such pair has one under its reference.      *)
Differs(pair) == pair[1] # pair[2]

Recordings(f, pairs) ==
    /\ f[0] = {}
    /\ \A k \in 1 .. Len(pairs) :
        f[k] = IF pairs[k][1] = pairs[k][2] THEN f[k - 1]
               ELSE InsertChange(f[k - 1], Change(pairs[k]))

LEMMA RecordingRuns ==
    ASSUME NEW K, NEW old, NEW new, NEW pairs \in Seq(PairsOf(K)),
           pairs = MatchedPairs(old, new)
    PROVE  \E f : Recordings(f, pairs) /\ CompareClauseSets(old, new) = f[Len(pairs)]
<1> DEFINE n == Len(pairs)
           V == PairsOf(K)
           W == SUBSET {Change(p) : p \in V}
           kept(rows, p) == IF p[1] = p[2] THEN rows ELSE InsertChange(rows, Change(p))
           record == [p \in V |-> [rows \in W |-> kept(rows, p)]]
           list == MatchedPairs(old, new)
           up(g) == g = [t \in SUBSET DOMAIN list |->
                            IF t = {} THEN {}
                            ELSE IF list[Max(t)][1] = list[Max(t)][2]
                                 THEN g[t \ {Max(t)}]
                                 ELSE InsertChange(g[t \ {Max(t)}], Change(list[Max(t)]))]
<1>1. /\ n \in Nat /\ DOMAIN pairs = 1 .. n /\ pairs \in [1 .. n -> V]
      /\ \A k \in 1 .. n : pairs[k] \in V
  BY LenProperties
<1>2. \A p \in V : \A rows \in W : kept(rows, p) \in W
  BY DEF InsertChange
<1>3. {} \in W
  OBVIOUS
<1> HIDE DEF n, V, W
<1>4. \A p \in V : \A rows \in W : record[p][rows] = kept(rows, p)
  OBVIOUS
<1>5. record \in [V -> [W -> W]]
  <2> HIDE DEF kept
  <2> QED BY <1>2
<1> HIDE DEF record
<1>6. PICK g \in [PositionSets(n) -> W] :
         FoldsLeft(g, {}, record, pairs, n) /\ RunsOver(g, {}, record, pairs, n)
  BY <1>1, <1>3, <1>5, LeftFoldsExist
<1>7. \A t \in SUBSET (1 .. n) :
         g[t] = IF t = {} THEN {} ELSE kept(g[t \ {Max(t)}], pairs[Max(t)])
  <2> SUFFICES ASSUME NEW t \in SUBSET (1 .. n)
               PROVE  g[t] = IF t = {} THEN {} ELSE kept(g[t \ {Max(t)}], pairs[Max(t)])
    OBVIOUS
  <2> HIDE DEF kept
  <2>1. g[t] = IF t = {} THEN {} ELSE record[pairs[Max(t)]][g[t \ {Max(t)}]]
    BY <1>6 DEF FoldsLeft
  <2>2. t # {} => Max(t) \in 1 .. n /\ g[t \ {Max(t)}] \in W
    BY <1>1, <1>6, MaxIsElement DEF PositionSets
  <2> QED BY <1>1, <1>4, <2>1, <2>2
<1>8. up(g)
  <2>1. g = [t \in SUBSET DOMAIN pairs |->
               IF t = {} THEN {} ELSE kept(g[t \ {Max(t)}], pairs[Max(t)])]
    <3> HIDE DEF kept
    <3> QED BY <1>1, <1>6, <1>7 DEF PositionSets
  <2>2. list = pairs
    OBVIOUS
  <2> HIDE DEF list
  <2> QED BY <2>1, <2>2
<1>9. PICK h : up(h) /\ CompareClauseSets(old, new) = h[DOMAIN list]
  BY <1>8 DEF CompareClauseSets, FoldLeft, MapThenFoldSet
<1>10. /\ CompareClauseSets(old, new) = h[1 .. n]
       /\ \A t \in SUBSET (1 .. n) :
            h[t] = IF t = {} THEN {} ELSE kept(h[t \ {Max(t)}], pairs[Max(t)])
  <2>1. list = pairs
    OBVIOUS
  <2> HIDE DEF list
  <2> QED BY <1>1, <1>9, <2>1
<1> HIDE DEF up, kept, list
<1> DEFINE f == [k \in 0 .. n |-> h[1 .. k]]
<1>11. /\ f[0] = h[1 .. 0] /\ f[n] = h[1 .. n]
       /\ \A k \in 1 .. n : f[k] = h[1 .. k] /\ f[k - 1] = h[1 .. (k - 1)]
  <2>1. 0 \in 0 .. n /\ n \in 0 .. n /\ \A k \in 1 .. n : k \in 0 .. n /\ k - 1 \in 0 .. n
    BY <1>1
  <2> QED BY <2>1
<1> HIDE DEF f
<1>12. f[0] = {}
  <2>1. 1 .. 0 = {}
    OBVIOUS
  <2> QED BY <1>10, <1>11, <2>1
<1>13. \A k \in 1 .. n : f[k] = kept(f[k - 1], pairs[k])
  <2> SUFFICES ASSUME NEW k \in 1 .. n PROVE f[k] = kept(f[k - 1], pairs[k])
    OBVIOUS
  <2>1. /\ Max(1 .. k) = k /\ 1 .. k \in SUBSET (1 .. n)
        /\ 1 .. k # {} /\ (1 .. k) \ {k} = 1 .. (k - 1)
    BY <1>1, MaxOfPrefix
  <2>2. h[1 .. k] = kept(h[(1 .. k) \ {Max(1 .. k)}], pairs[Max(1 .. k)])
    BY <1>10, <2>1
  <2>3. h[1 .. k] = kept(h[1 .. (k - 1)], pairs[k])
    BY ONLY <2>1, <2>2
  <2> QED BY <1>11, <2>3
<1>14. Recordings(f, pairs)
  BY <1>12, <1>13 DEF Recordings, n, kept
<1> QED BY <1>10, <1>11, <1>14 DEF n

Records(rows, pairs) ==
    /\ \A row \in rows : \E k \in DOMAIN pairs : Differs(pairs[k]) /\ row = Change(pairs[k])
    /\ \A k \in DOMAIN pairs : Differs(pairs[k]) =>
            \E row \in rows : row.article_ref = Change(pairs[k]).article_ref

LEMMA RecordedChanges ==
    ASSUME NEW K, NEW old, NEW new, NEW pairs \in Seq(PairsOf(K)),
           pairs = MatchedPairs(old, new)
    PROVE  Records(CompareClauseSets(old, new), pairs)
<1> DEFINE n == Len(pairs)
<1>1. n \in Nat /\ DOMAIN pairs = 1 .. n
  BY LenProperties
<1>2. PICK f : Recordings(f, pairs) /\ CompareClauseSets(old, new) = f[n]
  BY RecordingRuns
<1>3. /\ f[0] = {}
      /\ \A k \in 1 .. n : f[k] = IF Differs(pairs[k])
                                  THEN InsertChange(f[k - 1], Change(pairs[k]))
                                  ELSE f[k - 1]
  BY <1>2 DEF Recordings, Differs
<1> HIDE DEF n
<1> DEFINE ok(j) == /\ \A row \in f[j] : \E k \in 1 .. j : Differs(pairs[k])
                                                          /\ row = Change(pairs[k])
                    /\ \A k \in 1 .. j : Differs(pairs[k]) =>
                        \E row \in f[j] : row.article_ref = Change(pairs[k]).article_ref
           A == {j \in 0 .. n : ok(j)}
<1>4. 0 \in A
  BY <1>1, <1>3
<1>5. ASSUME NEW j \in 1 .. n, j - 1 \in A PROVE j \in A
  <2> DEFINE change == Change(pairs[j])
             rows == f[j - 1]
  <2>1. ok(j - 1)
    BY <1>5
  <2>2. /\ j \in 0 .. n /\ j \in 1 .. j
        /\ \A k \in 1 .. j : k = j \/ k \in 1 .. j - 1
        /\ \A k \in 1 .. j - 1 : k \in 1 .. j
    BY <1>1
  <2>3. CASE ~ Differs(pairs[j])
    <3>1. f[j] = f[j - 1]
      BY <1>3, <2>3
    <3> QED BY <2>1, <2>2, <2>3, <3>1
  <2>4. CASE Differs(pairs[j])
    <3>1. f[j] = InsertChange(rows, change)
      BY <1>3, <2>4
    <3> HIDE DEF change
    <3>2. /\ \A row \in f[j] : row \in rows \/ row = change
          /\ \A row \in rows : row \in f[j]
          /\ \E row \in f[j] : row.article_ref = change.article_ref
      BY <3>1 DEF InsertChange
    <3>3. \A row \in f[j] : \E k \in 1 .. j : Differs(pairs[k]) /\ row = Change(pairs[k])
      BY <2>1, <2>2, <2>4, <3>2 DEF change
    <3>4. ASSUME NEW k \in 1 .. j, Differs(pairs[k])
          PROVE  \E row \in f[j] : row.article_ref = Change(pairs[k]).article_ref
      BY <2>1, <2>2, <3>2, <3>4 DEF change
    <3> QED BY <2>2, <3>3, <3>4
  <2> QED BY <2>3, <2>4
<1> HIDE DEF A
<1>6. \A j \in 0 .. n : j \in A
  BY <1>1, <1>4, <1>5, CountingUp
<1>7. ok(n)
  BY <1>1, <1>6 DEF A
<1> QED BY <1>1, <1>2, <1>7 DEF Records

(* With references that tell its articles apart every section of a text is *)
(* a clause of its own.                                                    *)
ClauseOf(s) == [ref |-> s.heading, sections |-> <<s>>]

ClausesAre(clauses, text) ==
    /\ text \in Seq(TextSections)
    /\ \A i \in DOMAIN text : i \in DOMAIN clauses /\ clauses[i] = ClauseOf(text[i])
    /\ \A i \in DOMAIN clauses : clauses[i].ref # Document => i \in DOMAIN text
    /\ \A i \in DOMAIN text :
        /\ text[i].heading # Document
        /\ CanonicalNumber(text[i].heading) = <<"number", text[i].heading.number>>
    /\ \A i, j \in DOMAIN text :
        text[i].heading.number = text[j].heading.number => i = j

LEMMA SectionsAreClauses ==
    ASSUME NEW text \in Seq(TextSections), Unambiguous(text)
    PROVE  ClausesAre(ExtractClauses(text), text)
<1> DEFINE n == Len(text)
           heads == {k \in DOMAIN text : Recognised(text[k].heading)}
           End(k) == CHOOSE e \in k .. Len(text) :
                        /\ e = Len(text) \/ e + 1 \in heads
                        /\ \A i \in (k + 1) .. e : i \notin heads
           starts == InOrder(heads)
           part(i) == [ref |-> ArticleRef(text[starts[i]].heading),
                       sections |-> SubSeq(text, starts[i], End(starts[i]))]
           clauses == ExtractClauses(text)
<1>1. /\ n \in Nat /\ DOMAIN text = 1 .. n
      /\ \A k \in 1 .. n : text[k] \in TextSections
  BY LenProperties
<1>2. ASSUME NEW k \in 1 .. n
      PROVE  /\ text[k].heading \in Headings
             /\ text[k].heading.form = "words" => text[k].heading.number \in 2 .. 10
  <2>1. text[k] \in TextSections
    BY <1>1
  <2> QED BY <1>1, <2>1 DEF TextSections, Unambiguous
<1>3. ASSUME NEW h \in Headings, h.form = "words" => h.number \in 2 .. 10
      PROVE  /\ Recognised(h) /\ ArticleRef(h) = h /\ h # Document
             /\ CanonicalNumber(h) = <<"number", h.number>>
  <2>1. /\ h.form \in {"digits", "levels", "words"} /\ h.number \in Nat
        /\ Document.form = "document"
    BY DEF Headings, Document
  <2>2. h # Document
    BY <2>1
  <2>3. ASSUME h.form = "words"
        PROVE  /\ h.number # 11
               /\ IF h.number \in 2 .. 9 THEN Unit(h.number) = h.number
                  ELSE Unit(h.number) = 0 /\ h.number % 100 = h.number /\ h.number = 10
    BY <1>3, <2>1, <2>3 DEF Unit
  <2>4. [h EXCEPT !.number = h.number] = h
    BY DEF Headings
  <2>5. Recognised(h)
    BY <2>3 DEF Recognised
  <2>6. ArticleRef(h) = h
    BY <2>1, <2>3, <2>4 DEF ArticleRef
  <2>7. CanonicalNumber(h) = <<"number", h.number>>
    BY <2>2, <2>3 DEF CanonicalNumber
  <2> QED BY <2>2, <2>5, <2>6, <2>7
<1>4. heads = 1 .. n
  BY <1>1, <1>2, <1>3
<1> HIDE DEF heads, n
<1>5. ASSUME NEW i, NEW j, i \in DOMAIN text, j \in DOMAIN text,
             text[i].heading.number = text[j].heading.number
      PROVE  i = j
  BY <1>5 DEF Unambiguous
<1>6. ASSUME NEW i \in DOMAIN text PROVE i \in DOMAIN clauses /\ clauses[i] = ClauseOf(text[i])
  <2>1. heads # {} /\ i \in 1 .. n
    BY <1>1, <1>4
  <2>2. clauses = [k \in DOMAIN starts |-> part(k)]
    <3>1. heads # {}
      BY <2>1
    <3> QED BY <3>1, Zenon DEF ExtractClauses, heads
  <2>3. DOMAIN starts = 1 .. n /\ starts[i] = i
    BY <1>1, <1>4, <2>1, IntervalInOrder, InOrderIs
  <2>4. End(i) = i
    <3>1. Len(text) = n /\ (i = n \/ i + 1 \in heads)
      BY <1>1, <1>4, <2>1 DEF n
    <3>2. i \in i .. Len(text) /\ \A x \in (i + 1) .. i : x \notin heads
      BY <1>1, <2>1, <3>1
    <3>3. ASSUME NEW e \in i .. Len(text), \A x \in (i + 1) .. e : x \notin heads
          PROVE  e = i
      <4>1. e # i => i + 1 \in (i + 1) .. e /\ i + 1 \in 1 .. n
        BY <1>1, <2>1, <3>1
      <4> QED BY <1>4, <3>3, <4>1
    <3> QED BY <3>1, <3>2, <3>3
  <2> HIDE DEF starts, End
  <2>5. SubSeq(text, i, i) = <<text[i]>>
    <3>1. /\ SubSeq(text, i, i) \in Seq(TextSections) /\ Len(SubSeq(text, i, i)) = 1
          /\ SubSeq(text, i, i)[1] = text[i]
      <4>1. i \in Int /\ \A k \in i .. i : text[k] \in TextSections
        BY <1>1, <2>1
      <4>2. /\ SubSeq(text, i, i) \in Seq(TextSections)
            /\ Len(SubSeq(text, i, i)) = IF i <= i THEN i - i + 1 ELSE 0
            /\ \A k \in 1 .. i - i + 1 : SubSeq(text, i, i)[k] = text[i + k - 1]
        BY <4>1, SubSeqProperties
      <4>3. i - i + 1 = 1 /\ i <= i /\ 1 \in 1 .. 1 /\ i + 1 - 1 = i
        BY <4>1
      <4> QED BY <4>2, <4>3
    <3> DEFINE t == SubSeq(text, i, i)
               u == <<text[i]>>
    <3>2. u \in Seq(TextSections) /\ Len(u) = 1 /\ u[1] = text[i]
      BY <1>1, <2>1
    <3> HIDE DEF t, u
    <3>3. \A k \in 1 .. 1 : t[k] = u[k]
      BY <3>1, <3>2 DEF t
    <3>4. t = u
      BY <3>1, <3>2, <3>3, SeqEqual DEF t
    <3> QED BY <3>4 DEF t, u
  <2>6. ArticleRef(text[i].heading) = text[i].heading
    BY <1>2, <1>3, <2>1
  <2>7. clauses[i] = part(i) /\ i \in DOMAIN clauses
    BY <2>1, <2>2, <2>3
  <2> HIDE DEF clauses
  <2> QED BY <2>3, <2>4, <2>5, <2>6, <2>7 DEF ClauseOf
<1>7. ASSUME NEW i \in DOMAIN clauses, clauses[i].ref # Document PROVE i \in DOMAIN text
  <2>1. CASE heads = {}
    <3>1. clauses = <<[ref |-> Document, sections |-> text]>>
      BY <2>1 DEF ExtractClauses, heads
    <3>2. i = 1 /\ clauses[1] = [ref |-> Document, sections |-> text]
      BY <3>1
    <3> HIDE DEF clauses
    <3> QED BY <1>7, <3>2
  <2>2. CASE heads # {}
    <3>1. clauses = [k \in DOMAIN starts |-> part(k)]
      BY <2>2, Zenon DEF ExtractClauses, heads
    <3>2. DOMAIN starts = 1 .. n
      BY <1>1, <1>4, IntervalInOrder, InOrderIs
    <3> HIDE DEF starts, part
    <3> QED BY <1>1, <3>1, <3>2
  <2> QED BY <2>1, <2>2
<1>8. \A i \in DOMAIN text :
        /\ text[i].heading # Document
        /\ CanonicalNumber(text[i].heading) = <<"number", text[i].heading.number>>
  BY <1>1, <1>2, <1>3
<1> QED BY <1>5, <1>6, <1>7, <1>8 DEF ClausesAre

(* A pairing takes its seconds from the new clauses, and each of them that *)
(* is one of its kind once.                                                *)
Alone(j, s) == \A i \in DOMAIN s : s[i] = s[j] => i = j

TakenOnce(c, pairs) == \E x : {k \in DOMAIN pairs : pairs[k][2] = c} = {x}

LEMMA SecondsAreNew ==
    ASSUME NEW K, NoClause \notin K, NEW old \in Seq(K), NEW new \in Seq(K),
           NEW pairs, Matching(pairs, old, new, K)
    PROVE  /\ \A k \in DOMAIN pairs : pairs[k][2] # NoClause =>
                \E j \in DOMAIN new : pairs[k][2] = new[j]
           /\ \A j \in DOMAIN new : Alone(j, new) => TakenOnce(new[j], pairs)
<1> DEFINE m == Len(pairs)
           H == K \cup {NoClause}
           s == Seconds(pairs)
<1>1. /\ pairs \in Seq(PairsOf(K))
      /\ \A C \in SUBSET K : Occurrences(s, C) = Occurrences(new, C)
  BY DEF Matching
<1>2. /\ m \in Nat /\ DOMAIN pairs = 1 .. m
      /\ \A k \in 1 .. m : pairs[k][2] \in H
  <2>1. m \in Nat /\ DOMAIN pairs = 1 .. m /\ \A k \in 1 .. m : pairs[k] \in PairsOf(K)
    BY <1>1, LenProperties
  <2>2. \A p \in PairsOf(K) : p[2] \in H
    BY DEF PairsOf
  <2> QED BY <2>1, <2>2
<1>3. s \in Seq(H) /\ DOMAIN s = 1 .. m /\ \A k \in 1 .. m : s[k] = pairs[k][2]
  <2>1. s \in Seq(H) /\ Len(s) = m /\ \A k \in 1 .. m : s[k] = pairs[k][2]
    BY <1>1, SecondsAre
  <2> QED BY <2>1, LenProperties
<1>4. \A c \in H : c # NoClause => c \in K
  OBVIOUS
<1> HIDE DEF H, s, m
<1>5. ASSUME NEW c \in K
      PROVE  /\ Cardinality({k \in 1 .. m : pairs[k][2] = c})
                  = Cardinality({j \in DOMAIN new : new[j] = c})
             /\ IsFiniteSet({k \in 1 .. m : pairs[k][2] = c})
             /\ IsFiniteSet({j \in DOMAIN new : new[j] = c})
  <2>1. Occurrences(s, {c}) = Cardinality({k \in DOMAIN s : s[k] \in {c}})
    BY <1>3, OccurrencesAre
  <2>2. Occurrences(new, {c}) = Cardinality({j \in DOMAIN new : new[j] \in {c}})
    BY OccurrencesAre
  <2>3. Occurrences(s, {c}) = Occurrences(new, {c})
    BY <1>1
  <2>4. {k \in DOMAIN s : s[k] \in {c}} = {k \in 1 .. m : pairs[k][2] = c}
    BY <1>3
  <2>5. {j \in DOMAIN new : new[j] \in {c}} = {j \in DOMAIN new : new[j] = c}
    OBVIOUS
  <2>6. IsFiniteSet({k \in 1 .. m : pairs[k][2] = c})
    <3>1. {k \in 1 .. m : pairs[k][2] = c} \in SUBSET (1 .. m)
      OBVIOUS
    <3> QED BY <1>2, <3>1, UpToSteps
  <2>7. IsFiniteSet({j \in DOMAIN new : new[j] = c})
    <3>1. {j \in DOMAIN new : new[j] = c} \in SUBSET (1 .. Len(new)) /\ Len(new) \in Nat
      BY LenProperties
    <3> QED BY <3>1, UpToSteps
  <2> QED BY <2>1, <2>2, <2>3, <2>4, <2>5, <2>6, <2>7
<1>6. ASSUME NEW k \in 1 .. m, pairs[k][2] # NoClause
      PROVE  \E j \in DOMAIN new : pairs[k][2] = new[j]
  <2> DEFINE c == pairs[k][2]
             at == {i \in 1 .. m : pairs[i][2] = c}
             of == {j \in DOMAIN new : new[j] = c}
  <2>1. c \in K /\ k \in at
    BY <1>2, <1>4, <1>6
  <2>2. Cardinality(at) = Cardinality(of) /\ IsFiniteSet(at) /\ IsFiniteSet(of)
    <3> HIDE DEF c
    <3> QED BY <1>5, <2>1
  <2>3. of # {}
    <3> HIDE DEF c, at, of
    <3> QED BY <2>1, <2>2, FS_EmptySet
  <2> QED BY <2>3
<1>7. ASSUME NEW j \in DOMAIN new, Alone(j, new) PROVE TakenOnce(new[j], pairs)
  <2>1. new[j] \in K
    BY LenProperties
  <2>2. {i \in DOMAIN new : new[i] = new[j]} = {j}
    BY <1>7 DEF Alone
  <2>3. Cardinality({j}) = 1
    BY FS_Singleton
  <2> DEFINE at == {k \in 1 .. m : pairs[k][2] = new[j]}
  <2>4. Cardinality(at) = 1 /\ IsFiniteSet(at)
    BY <1>5, <2>1, <2>2, <2>3
  <2> HIDE DEF at
  <2>5. \E x : at = {x}
    BY <2>4, FS_Singleton
  <2> QED BY <1>2, <2>5 DEF at, TakenOnce
<1> QED BY <1>2, <1>6, <1>7

(* So the articles are paired by their numbers: the one pair recorded      *)
(* under a number holds the section of either text that has it, or none.   *)
RefOf(pair) == IF pair[2] = NoClause THEN pair[1].ref ELSE pair[2].ref

HoldsArticle(clause, text, number) ==
    /\ \A i \in DOMAIN text :
            text[i].heading.number = number => clause = ClauseOf(text[i])
    /\ (\A i \in DOMAIN text : text[i].heading.number # number) => clause = NoClause

PairedByNumber(pairs, old, new) ==
    /\ \A k \in DOMAIN pairs : RefOf(pairs[k]) # Document =>
        /\ HoldsArticle(pairs[k][1], old, RefOf(pairs[k]).number)
        /\ HoldsArticle(pairs[k][2], new, RefOf(pairs[k]).number)
    /\ \A text \in {old, new} : \A i \in DOMAIN text :
        \E k \in DOMAIN pairs : /\ RefOf(pairs[k]) # Document
                                /\ RefOf(pairs[k]).number = text[i].heading.number

LEMMA ArticlesArePaired ==
    ASSUME NEW K, NoClause \notin K, NEW oldClauses \in Seq(K), NEW newClauses \in Seq(K),
           NEW old, NEW new, ClausesAre(oldClauses, old), ClausesAre(newClauses, new),
           NEW pairs, Matching(pairs, oldClauses, newClauses, K)
    PROVE  PairedByNumber(pairs, old, new)
<1> DEFINE n == Len(oldClauses)
           m == Len(pairs)
<1>1. /\ n \in Nat /\ m \in Nat /\ n <= m
      /\ DOMAIN oldClauses = 1 .. n /\ DOMAIN pairs = 1 .. m
  BY LenProperties DEF Matching
<1>2. /\ \A k \in 1 .. n :
            /\ pairs[k][1] = oldClauses[k]
            /\ pairs[k][2] # NoClause =>
                    AreArticlesEquivalent(oldClauses[k].ref, pairs[k][2].ref)
      /\ \A k \in n + 1 .. m : pairs[k][1] = NoClause /\ pairs[k][2] # NoClause
      /\ \A i \in 1 .. n, k \in n + 1 .. m :
            pairs[i][2] = NoClause =>
                ~ AreArticlesEquivalent(oldClauses[i].ref, pairs[k][2].ref)
  BY DEF Matching
<1>3. \A k \in 1 .. m : pairs[k][2] # NoClause =>
        \E j \in DOMAIN newClauses : pairs[k][2] = newClauses[j]
  BY <1>1, SecondsAreNew
<1>4. /\ \A i \in DOMAIN old : i \in 1 .. n /\ oldClauses[i] = ClauseOf(old[i])
      /\ \A i \in 1 .. n : oldClauses[i].ref # Document => i \in DOMAIN old
      /\ \A i \in DOMAIN old :
            /\ old[i].heading # Document
            /\ CanonicalNumber(old[i].heading) = <<"number", old[i].heading.number>>
      /\ \A i, j \in DOMAIN old : old[i].heading.number = old[j].heading.number => i = j
  BY <1>1 DEF ClausesAre
<1>5. /\ \A i \in DOMAIN new : i \in DOMAIN newClauses /\ newClauses[i] = ClauseOf(new[i])
      /\ \A i \in DOMAIN newClauses : newClauses[i].ref # Document => i \in DOMAIN new
      /\ \A i \in DOMAIN new :
            /\ new[i].heading # Document
            /\ CanonicalNumber(new[i].heading) = <<"number", new[i].heading.number>>
      /\ \A i, j \in DOMAIN new : new[i].heading.number = new[j].heading.number => i = j
  BY DEF ClausesAre
<1>6. \A s : ClauseOf(s).ref = s.heading
  BY DEF ClauseOf
<1>7. CanonicalNumber(Document) = <<"document", 0>>
  BY DEF CanonicalNumber, Document
<1> HIDE DEF n, m
<1>8. ASSUME NEW j \in DOMAIN new
      PROVE  \E x \in 1 .. m : /\ pairs[x][2] = ClauseOf(new[j])
                               /\ \A k \in 1 .. m : pairs[k][2] = ClauseOf(new[j]) => k = x
  <2>1. ASSUME NEW i \in DOMAIN newClauses, newClauses[i] = newClauses[j] PROVE i = j
    <3>1. newClauses[j] = ClauseOf(new[j]) /\ newClauses[j].ref = new[j].heading
      BY <1>5, <1>6
    <3>2. i \in DOMAIN new /\ newClauses[i] = ClauseOf(new[i])
      BY <1>5, <2>1, <3>1
    <3>3. new[i].heading = new[j].heading
      BY <1>6, <2>1, <3>1, <3>2
    <3> QED BY <1>5, <3>2, <3>3
  <2>2. j \in DOMAIN newClauses /\ newClauses[j] = ClauseOf(new[j])
    BY <1>5
  <2>3. PICK x : {k \in DOMAIN pairs : pairs[k][2] = newClauses[j]} = {x}
    <3>1. Alone(j, newClauses)
      BY <2>1 DEF Alone
    <3>2. TakenOnce(newClauses[j], pairs)
      BY <2>2, <3>1, SecondsAreNew
    <3> QED BY <3>2 DEF TakenOnce
  <2>4. {k \in 1 .. m : pairs[k][2] = ClauseOf(new[j])} = {x}
    BY <1>1, <2>2, <2>3
  <2> QED BY <2>4
<1>9. ASSUME NEW k \in 1 .. m, pairs[k][2] # NoClause, pairs[k][2].ref # Document
      PROVE  \E j \in DOMAIN new : pairs[k][2] = ClauseOf(new[j])
  <2>1. PICK j \in DOMAIN newClauses : pairs[k][2] = newClauses[j]
    BY <1>3, <1>9
  <2> QED BY <1>5, <1>9, <2>1
<1>10. ASSUME NEW i \in DOMAIN old, pairs[i][2] # NoClause
       PROVE  \E j \in DOMAIN new : /\ pairs[i][2] = ClauseOf(new[j])
                                    /\ new[j].heading.number = old[i].heading.number
  <2>1. i \in 1 .. n /\ i \in 1 .. m /\ oldClauses[i].ref = old[i].heading
    BY <1>1, <1>4, <1>6
  <2>2. CanonicalNumber(pairs[i][2].ref) = <<"number", old[i].heading.number>>
    BY <1>2, <1>4, <1>10, <2>1 DEF AreArticlesEquivalent
  <2>3. pairs[i][2].ref # Document
    BY <1>7, <2>2
  <2>4. PICK j \in DOMAIN new : pairs[i][2] = ClauseOf(new[j])
    BY <1>9, <1>10, <2>1, <2>3
  <2>5. <<"number", new[j].heading.number>> = <<"number", old[i].heading.number>>
    BY <1>5, <1>6, <2>2, <2>4
  <2> QED BY <2>4, <2>5
<1>11. ASSUME NEW j \in DOMAIN new, NEW k \in 1 .. m, pairs[k][2] = ClauseOf(new[j])
       PROVE  HoldsArticle(pairs[k][1], old, new[j].heading.number)
  <2>1. /\ pairs[k][2].ref = new[j].heading
        /\ CanonicalNumber(pairs[k][2].ref) = <<"number", new[j].heading.number>>
        /\ pairs[k][2] # NoClause
    <3>1. /\ pairs[k][2].ref = new[j].heading
          /\ CanonicalNumber(pairs[k][2].ref) = <<"number", new[j].heading.number>>
      BY <1>5, <1>6, <1>11
    <3>2. NoClause.sections = <<>> /\ ClauseOf(new[j]).sections # <<>>
      BY DEF NoClause, ClauseOf
    <3> QED BY <1>11, <3>1, <3>2
  <2>2. CASE k \in 1 .. n
    <3>1. CanonicalNumber(oldClauses[k].ref) = <<"number", new[j].heading.number>>
      BY <1>2, <2>1, <2>2 DEF AreArticlesEquivalent
    <3>2. k \in DOMAIN old
      BY <1>4, <1>7, <2>2, <3>1
    <3>3. /\ pairs[k][1] = ClauseOf(old[k])
          /\ <<"number", old[k].heading.number>> = <<"number", new[j].heading.number>>
      BY <1>2, <1>4, <1>6, <2>2, <3>1, <3>2
    <3>4. old[k].heading.number = new[j].heading.number
      BY <3>3
    <3> QED BY <1>4, <3>2, <3>3, <3>4 DEF HoldsArticle
  <2>3. CASE k \notin 1 .. n
    <3>1. k \in n + 1 .. m /\ pairs[k][1] = NoClause
      BY <1>1, <1>2, <2>3
    <3>2. ASSUME NEW i \in DOMAIN old, old[i].heading.number = new[j].heading.number
          PROVE  FALSE
      <4>1. i \in 1 .. n /\ i \in 1 .. m /\ oldClauses[i].ref = old[i].heading
        BY <1>1, <1>4, <1>6
      <4>2. AreArticlesEquivalent(oldClauses[i].ref, pairs[k][2].ref)
        BY <1>4, <2>1, <3>2, <4>1 DEF AreArticlesEquivalent
      <4>3. pairs[i][2] # NoClause
        BY <1>2, <3>1, <4>1, <4>2
      <4>4. PICK x \in DOMAIN new : /\ pairs[i][2] = ClauseOf(new[x])
                                    /\ new[x].heading.number = old[i].heading.number
        BY <1>10, <4>3
      <4>5. x = j
        BY <1>5, <3>2, <4>4
      <4>6. i = k
        BY <1>8, <1>11, <4>1, <4>4, <4>5
      <4> QED BY <2>3, <4>1, <4>6
    <3> QED BY <3>1, <3>2 DEF HoldsArticle
  <2> QED BY <2>2, <2>3
<1>12. ASSUME NEW k \in 1 .. m, RefOf(pairs[k]) # Document
       PROVE  /\ HoldsArticle(pairs[k][1], old, RefOf(pairs[k]).number)
              /\ HoldsArticle(pairs[k][2], new, RefOf(pairs[k]).number)
  <2>1. CASE pairs[k][2] # NoClause
    <3>1. RefOf(pairs[k]) = pairs[k][2].ref
      BY <2>1 DEF RefOf
    <3>2. PICK j \in DOMAIN new : pairs[k][2] = ClauseOf(new[j])
      BY <1>9, <1>12, <2>1, <3>1
    <3>3. RefOf(pairs[k]).number = new[j].heading.number
      BY <1>6, <3>1, <3>2
    <3>4. HoldsArticle(pairs[k][2], new, new[j].heading.number)
      BY <1>5, <3>2 DEF HoldsArticle
    <3> QED BY <1>11, <3>2, <3>3, <3>4
  <2>2. CASE pairs[k][2] = NoClause
    <3>1. RefOf(pairs[k]) = pairs[k][1].ref
      BY <2>2 DEF RefOf
    <3>2. k \in 1 .. n /\ pairs[k][1] = oldClauses[k]
      BY <1>1, <1>2, <2>2
    <3>3. k \in DOMAIN old /\ pairs[k][1] = ClauseOf(old[k])
      BY <1>4, <1>12, <3>1, <3>2
    <3>4. RefOf(pairs[k]).number = old[k].heading.number
      BY <1>6, <3>1, <3>3
    <3>5. HoldsArticle(pairs[k][1], old, old[k].heading.number)
      BY <1>4, <3>3 DEF HoldsArticle
    <3>6. ASSUME NEW j \in DOMAIN new, new[j].heading.number = old[k].heading.number
          PROVE  FALSE
      <4>1. PICK x \in 1 .. m : pairs[x][2] = ClauseOf(new[j])
        BY <1>8
      <4>2. HoldsArticle(pairs[x][1], old, old[k].heading.number)
        BY <1>11, <3>6, <4>1
      <4>3. pairs[x][1] = ClauseOf(old[k])
        BY <3>3, <4>2 DEF HoldsArticle
      <4>4. x \in 1 .. n
        <5>1. NoClause.sections = <<>> /\ ClauseOf(old[k]).sections # <<>>
          BY DEF NoClause, ClauseOf
        <5>2. pairs[x][1] # NoClause
          BY <4>3, <5>1
        <5>3. x \notin n + 1 .. m
          BY <1>2, <5>2
        <5> QED BY <1>1, <5>3
      <4>5. x \in DOMAIN old /\ oldClauses[x] = ClauseOf(old[k])
        <5>1. oldClauses[x] = ClauseOf(old[k])
          BY <1>2, <4>3, <4>4
        <5>2. oldClauses[x].ref # Document
          BY <1>4, <1>6, <3>3, <5>1
        <5> QED BY <1>4, <4>4, <5>1, <5>2
      <4>6. old[x].heading = old[k].heading
        BY <1>4, <1>6, <4>5
      <4>7. x = k
        BY <1>4, <3>3, <4>5, <4>6
      <4>8. NoClause.sections = <<>> /\ ClauseOf(new[j]).sections # <<>>
        BY DEF NoClause, ClauseOf
      <4> QED BY <2>2, <4>1, <4>7, <4>8
    <3>7. HoldsArticle(pairs[k][2], new, old[k].heading.number)
      BY <2>2, <3>6 DEF HoldsArticle
    <3> QED BY <3>4, <3>5, <3>7
  <2> QED BY <2>1, <2>2
<1>13. ASSUME NEW j \in DOMAIN new
       PROVE  \E k \in 1 .. m : /\ RefOf(pairs[k]) # Document
                                /\ RefOf(pairs[k]).number = new[j].heading.number
  <2>1. PICK x \in 1 .. m : pairs[x][2] = ClauseOf(new[j])
    BY <1>8
  <2>2. NoClause.sections = <<>> /\ ClauseOf(new[j]).sections # <<>>
    BY DEF NoClause, ClauseOf
  <2>3. RefOf(pairs[x]) = new[j].heading
    BY <1>6, <2>1, <2>2 DEF RefOf
  <2> QED BY <1>5, <2>3
<1>14. ASSUME NEW i \in DOMAIN old
       PROVE  \E k \in 1 .. m : /\ RefOf(pairs[k]) # Document
                                /\ RefOf(pairs[k]).number = old[i].heading.number
  <2>1. i \in 1 .. m /\ pairs[i][1] = ClauseOf(old[i])
    BY <1>1, <1>2, <1>4
  <2>2. CASE pairs[i][2] = NoClause
    <3>1. RefOf(pairs[i]) = old[i].heading
      BY <1>6, <2>1, <2>2 DEF RefOf
    <3> QED BY <1>4, <2>1, <3>1
  <2>3. CASE pairs[i][2] # NoClause
    <3>1. PICK j \in DOMAIN new : /\ pairs[i][2] = ClauseOf(new[j])
                                  /\ new[j].heading.number = old[i].heading.number
      BY <1>10, <2>3
    <3>2. RefOf(pairs[i]) = new[j].heading
      BY <1>6, <2>3, <3>1 DEF RefOf
    <3> QED BY <1>5, <2>1, <3>1, <3>2
  <2> QED BY <2>2, <2>3
<1> QED BY <1>1, <1>12, <1>13, <1>14 DEF PairedByNumber

(* What a change recorded of an article says of its two texts.             *)
SectionsAt(text, n) == {text[k] : k \in {i \in DOMAIN text : text[i].heading.number = n}}

ContentAt(text, n) ==
    {<<s.heading, s.body.words, Digits(s.body)>> : s \in SectionsAt(text, n)}

LEMMA ArticleIsOneOrNone ==
    ASSUME NEW clauses, NEW text, ClausesAre(clauses, text), NEW n, NEW clause,
           HoldsArticle(clause, text, n)
    PROVE  \/ /\ clause = NoClause /\ SectionsAt(text, n) = {} /\ ContentAt(text, n) = {}
           \/ \E s : /\ clause = ClauseOf(s) /\ clause # NoClause
                     /\ SectionsAt(text, n) = {s}
                     /\ ContentAt(text, n) = {<<s.heading, s.body.words, Digits(s.body)>>}
<1>1. \A i, j \in DOMAIN text :
        text[i].heading.number = text[j].heading.number => i = j
  BY DEF ClausesAre
<1>2. CASE \A i \in DOMAIN text : text[i].heading.number # n
  <2>1. clause = NoClause
    BY <1>2 DEF HoldsArticle
  <2>2. SectionsAt(text, n) = {}
    BY <1>2 DEF SectionsAt
  <2> QED BY <2>1, <2>2 DEF ContentAt
<1>3. CASE \E i \in DOMAIN text : text[i].heading.number = n
  <2>1. PICK i \in DOMAIN text : text[i].heading.number = n
    BY <1>3
  <2> DEFINE s == text[i]
  <2>2. clause = ClauseOf(s)
    BY <2>1 DEF HoldsArticle
  <2>3. clause # NoClause
    <3>1. NoClause.sections = <<>> /\ ClauseOf(s).sections # <<>>
      BY DEF NoClause, ClauseOf
    <3> QED BY <2>2, <3>1
  <2>4. {k \in DOMAIN text : text[k].heading.number = n} = {i}
    BY <1>1, <2>1
  <2>5. SectionsAt(text, n) = {s}
    BY <2>4 DEF SectionsAt
  <2> HIDE DEF s
  <2>6. ContentAt(text, n) = {<<s.heading, s.body.words, Digits(s.body)>>}
    BY <2>5 DEF ContentAt
  <2> QED BY <2>2, <2>3, <2>5, <2>6
<1> QED BY <1>2, <1>3

LEMMA ClassOfArticles ==
    ASSUME NEW s, NEW t
    PROVE  /\ ClauseOf(s) = ClauseOf(t) <=> s = t
           /\ Tokens(ClauseOf(s)) = Tokens(ClauseOf(t))
                <=> <<s.heading, s.body.words, Digits(s.body)>>
                      = <<t.heading, t.body.words, Digits(t.body)>>
<1>1. \A u : ClauseOf(u).sections = <<u>> /\ <<u>>[1] = u
  BY DEF ClauseOf
<1>2. ASSUME NEW u
      PROVE  /\ DOMAIN Tokens(ClauseOf(u)) = 1 .. 1
             /\ Tokens(ClauseOf(u))[1] = <<u.heading, u.body.words, Digits(u.body)>>
             /\ Tokens(ClauseOf(u)) = [k \in 1 .. 1 |-> Tokens(ClauseOf(u))[k]]
  <2>1. DOMAIN <<u>> = 1 .. 1
    OBVIOUS
  <2>2. Tokens(ClauseOf(u))
          = [k \in 1 .. 1 |-> <<<<u>>[k].heading, <<u>>[k].body.words, Digits(<<u>>[k].body)>>]
    BY <1>1, <2>1 DEF Tokens
  <2>3. 1 \in 1 .. 1
    OBVIOUS
  <2> QED BY <1>1, <2>2, <2>3
<1>3. ClauseOf(s) = ClauseOf(t) <=> s = t
  BY <1>1
<1>4. \A k \in 1 .. 1 : k = 1
  OBVIOUS
<1>5. Tokens(ClauseOf(s))[1] = Tokens(ClauseOf(t))[1] => Tokens(ClauseOf(s)) = Tokens(ClauseOf(t))
  <2> DEFINE a == Tokens(ClauseOf(s))
             b == Tokens(ClauseOf(t))
  <2>1. a = [k \in 1 .. 1 |-> a[k]] /\ b = [k \in 1 .. 1 |-> b[k]]
    BY <1>2
  <2> HIDE DEF a, b
  <2>2. a[1] = b[1] => a = b
    BY <1>4, <2>1
  <2> QED BY <2>2 DEF a, b
<1> QED BY <1>2, <1>3, <1>5

LEMMA ClassOfPair ==
    ASSUME NEW before, NEW after
    PROVE  /\ (before = NoClause) # (after = NoClause) =>
                Substantive(Classify(before, after))
           /\ before # NoClause /\ after # NoClause =>
                (Substantive(Classify(before, after)) <=> Tokens(before) # Tokens(after))
<1>1. CASE before = NoClause /\ after # NoClause
  <2>1. Classify(before, after) = "added"
    BY <1>1 DEF Classify
  <2> QED BY <1>1, <2>1 DEF Substantive
<1>2. CASE before # NoClause /\ after = NoClause
  <2>1. Classify(before, after) = "deleted"
    BY <1>2 DEF Classify
  <2> QED BY <1>2, <2>1 DEF Substantive
<1>3. CASE before # NoClause /\ after # NoClause
  <2>1. CASE Tokens(before) = Tokens(after)
    <3>1. Classify(before, after) = "editorial"
      BY <1>3, <2>1 DEF Classify
    <3> QED BY <1>3, <2>1, <3>1 DEF Substantive
  <2>2. CASE Tokens(before) # Tokens(after)
    <3>1. Classify(before, after) \in {"deadline", "numeric_threshold", "scope",
                                       "responsibility_changed",
                                       "evidence_requirement_changed", "modified"}
      BY <1>3, <2>2 DEF Classify
    <3> QED BY <1>3, <2>2, <3>1 DEF Substantive
  <2> QED BY <2>1, <2>2
<1>4. CASE before = NoClause /\ after = NoClause
  BY <1>4
<1> QED BY <1>1, <1>2, <1>3, <1>4

LEMMA DifferencesFound == ASSUME AnswerInv PROVE DifferencesAreFound
<1> SUFFICES ASSUME Answered("compare"), Unambiguous(call.old), Unambiguous(call.new)
             PROVE  DifferencesAreFound
  BY DEF DifferencesAreFound
<1> DEFINE old == call.old
           new == call.new
           oldClauses == ExtractClauses(old)
           newClauses == ExtractClauses(new)
           K == ClauseSet(old, new)
           pairs == answer.pairs
           changes == answer.changes
           Changes(n) == {c \in changes : c.article_ref # Document /\ c.article_ref.number = n}
           Told(n) ==
             /\ (Changes(n) = {}) = (SectionsAt(old, n) = SectionsAt(new, n))
             /\ \A c \in Changes(n) :
                  /\ (c.before = NoClause) = (SectionsAt(old, n) = {})
                  /\ (c.after = NoClause) = (SectionsAt(new, n) = {})
                  /\ Substantive(c.change_type) = (ContentAt(old, n) # ContentAt(new, n))
<1>1. /\ old \in Seq(TextSections) /\ new \in Seq(TextSections)
      /\ pairs = MatchedPairs(oldClauses, newClauses)
      /\ changes = CompareClauseSets(oldClauses, newClauses)
      /\ Matching(pairs, oldClauses, newClauses, K)
      /\ NoClause \notin K /\ oldClauses \in Seq(K) /\ newClauses \in Seq(K)
  BY ComparisonOfCall, ClausesAreSequences
<1>2. ClausesAre(oldClauses, old) /\ ClausesAre(newClauses, new)
  BY <1>1, SectionsAreClauses
<1> HIDE DEF old, new, oldClauses, newClauses, K, pairs, changes
<1>3. PairedByNumber(pairs, old, new)
  BY <1>1, <1>2, ArticlesArePaired
<1>4. pairs \in Seq(PairsOf(K))
  BY <1>1 DEF Matching
<1>5. /\ \A c \in changes : \E k \in DOMAIN pairs : Differs(pairs[k]) /\ c = Change(pairs[k])
      /\ \A k \in DOMAIN pairs : Differs(pairs[k]) =>
            \E c \in changes : c.article_ref = Change(pairs[k]).article_ref
  <2>1. Records(changes, pairs)
    BY <1>1, <1>4, RecordedChanges
  <2> QED BY <2>1 DEF Records
<1>6. \A p : /\ Change(p).article_ref = RefOf(p) /\ Change(p).before = p[1]
             /\ Change(p).after = p[2]
             /\ Change(p).change_type = Classify(p[1], p[2])
  BY DEF Change, RefOf
<1>7. ASSUME NEW text \in {old, new}, NEW i \in DOMAIN text PROVE Told(text[i].heading.number)
  <2> DEFINE n == text[i].heading.number
  <2>1. PICK k \in DOMAIN pairs : RefOf(pairs[k]) # Document /\ RefOf(pairs[k]).number = n
    BY <1>3, <1>7 DEF PairedByNumber
  <2> DEFINE before == pairs[k][1]
             after == pairs[k][2]
  <2>2. HoldsArticle(before, old, n) /\ HoldsArticle(after, new, n)
    BY <1>3, <2>1 DEF PairedByNumber
  <2>3. ASSUME NEW c \in Changes(n)
        PROVE  /\ c.before = before /\ c.after = after /\ before # after
               /\ c.change_type = Classify(before, after)
    <3>1. PICK l \in DOMAIN pairs : Differs(pairs[l]) /\ c = Change(pairs[l])
      BY <1>5
    <3>2. RefOf(pairs[l]) # Document /\ RefOf(pairs[l]).number = n
      BY <1>6, <3>1
    <3>3. HoldsArticle(pairs[l][1], old, n) /\ HoldsArticle(pairs[l][2], new, n)
      BY <1>3, <3>2 DEF PairedByNumber
    <3>4. pairs[l][1] = before
      BY <2>2, <3>3 DEF HoldsArticle
    <3>5. pairs[l][2] = after
      BY <2>2, <3>3 DEF HoldsArticle
    <3> QED BY <1>6, <3>1, <3>4, <3>5 DEF Differs
  <2>4. before # after => Changes(n) # {}
    <3> SUFFICES ASSUME before # after PROVE Changes(n) # {}
      OBVIOUS
    <3>1. PICK c \in changes : c.article_ref = Change(pairs[k]).article_ref
      BY <1>5 DEF Differs
    <3>2. c \in Changes(n)
      BY <1>6, <2>1, <3>1
    <3> QED BY <3>2
  <2>5. (Changes(n) = {}) <=> before = after
    BY <2>3, <2>4
  <2>6. \/ /\ before = NoClause /\ SectionsAt(old, n) = {} /\ ContentAt(old, n) = {}
        \/ \E s : /\ before = ClauseOf(s) /\ before # NoClause
                  /\ SectionsAt(old, n) = {s}
                  /\ ContentAt(old, n) = {<<s.heading, s.body.words, Digits(s.body)>>}
    BY <1>2, <2>2, ArticleIsOneOrNone
  <2>7. \/ /\ after = NoClause /\ SectionsAt(new, n) = {} /\ ContentAt(new, n) = {}
        \/ \E s : /\ after = ClauseOf(s) /\ after # NoClause
                  /\ SectionsAt(new, n) = {s}
                  /\ ContentAt(new, n) = {<<s.heading, s.body.words, Digits(s.body)>>}
    BY <1>2, <2>2, ArticleIsOneOrNone
  <2> HIDE DEF before, after, n
  <2>8. /\ before = after <=> SectionsAt(old, n) = SectionsAt(new, n)
        /\ before = NoClause <=> SectionsAt(old, n) = {}
        /\ after = NoClause <=> SectionsAt(new, n) = {}
    <3>1. \A s, t : ClauseOf(s) = ClauseOf(t) <=> s = t
      BY ClassOfArticles
    <3> QED BY <2>6, <2>7, <3>1
  <2>9. before # after =>
          (Substantive(Classify(before, after)) <=> ContentAt(old, n) # ContentAt(new, n))
    <3>1. CASE before = NoClause
      BY <2>6, <2>7, <3>1, ClassOfPair
    <3>2. CASE before # NoClause /\ after = NoClause
      BY <2>6, <2>7, <3>2, ClassOfPair
    <3>3. CASE before # NoClause /\ after # NoClause
      <4>1. PICK s : /\ before = ClauseOf(s)
                     /\ ContentAt(old, n) = {<<s.heading, s.body.words, Digits(s.body)>>}
        BY <2>6, <3>3
      <4>2. PICK t : /\ after = ClauseOf(t)
                     /\ ContentAt(new, n) = {<<t.heading, t.body.words, Digits(t.body)>>}
        BY <2>7, <3>3
      <4>3. Tokens(before) = Tokens(after)
              <=> <<s.heading, s.body.words, Digits(s.body)>>
                    = <<t.heading, t.body.words, Digits(t.body)>>
        BY <4>1, <4>2, ClassOfArticles
      <4>4. Substantive(Classify(before, after)) <=> Tokens(before) # Tokens(after)
        BY <3>3, ClassOfPair
      <4>5. ContentAt(old, n) = ContentAt(new, n)
              <=> <<s.heading, s.body.words, Digits(s.body)>>
                    = <<t.heading, t.body.words, Digits(t.body)>>
        BY <4>1, <4>2
      <4> QED BY <4>3, <4>4, <4>5
    <3> QED BY <3>1, <3>2, <3>3
  <2>10. (Changes(n) = {}) = (SectionsAt(old, n) = SectionsAt(new, n))
    BY <2>5, <2>8
  <2>11. ASSUME NEW c \in Changes(n)
         PROVE  /\ (c.before = NoClause) = (SectionsAt(old, n) = {})
                /\ (c.after = NoClause) = (SectionsAt(new, n) = {})
                /\ Substantive(c.change_type) = (ContentAt(old, n) # ContentAt(new, n))
    <3>1. /\ c.before = before /\ c.after = after /\ before # after
          /\ c.change_type = Classify(before, after)
      BY <2>3
    <3>2. Substantive(c.change_type) <=> ContentAt(old, n) # ContentAt(new, n)
      BY <2>9, <3>1
    <3>3. Substantive(c.change_type) \in BOOLEAN
      BY DEF Substantive
    <3> QED BY <2>8, <3>1, <3>2, <3>3
  <2> HIDE DEF Changes
  <2> QED BY <2>10, <2>11 DEF n
<1>8. ASSUME NEW s \in ToSet(old) \cup ToSet(new) PROVE Told(s.heading.number)
  <2>1. PICK text \in {old, new} : \E i \in DOMAIN text : text[i] = s
    BY <1>8 DEF ToSet
  <2>2. PICK i \in DOMAIN text : text[i] = s
    BY <2>1
  <2> HIDE DEF Told
  <2> QED BY <1>7, <2>2
<1> QED BY <1>8, Zenon DEF DifferencesAreFound, SectionsAt, ContentAt, old, new, changes

(* compare_clause_sets, for every pair of texts: each clause of either is  *)
(* compared once, and where the references tell the articles apart exactly *)
(* the differing ones are recorded, as what they are.                      *)
THEOREM DifferencesAreExact == CalculationSpec => []ComparisonIsExact
<1>1. AnswerInv => ComparisonIsExact
  BY PairsCover, DifferencesFound DEF ComparisonIsExact
<1> QED BY <1>1, AnswersFollowCalls, PTL

-----------------------------------------------------------------------------
(* The calendars. The conversion takes centuries, years and months of years *)
(* that begin in March off the Julian day; each lemma says what one of      *)
(* these divisions leaves. Days that follow in the count are days that      *)
(* follow in the calendar. Names stand for the divisions, and bundles for   *)
(* what is known of them, to keep the provers away from the large numbers.  *)

(* The century of a day counted from March, and its day in the century: a   *)
(* century has 36524 days, one in four a day more.                          *)
CenturyOf(l) == (4 * l) \div 146097
DayOfCentury(l) == l - (146097 * CenturyOf(l) + 3) \div 4
CenturyDays == 0 .. 36524
CenturyFits(l, n, l1) ==
    /\ n \in Nat /\ l1 \in CenturyDays
    /\ l = 36524 * n + (n + 3) \div 4 + l1
    /\ l1 = 36524 => n % 4 = 0

LEMMA DaysInCenturies ==
    ASSUME NEW l \in Nat
    PROVE  CenturyFits(l, CenturyOf(l), DayOfCentury(l))
<1>1. PICK n \in Int : n = CenturyOf(l)
  BY SMT DEF CenturyOf
<1>2. 146097 * n <= 4 * l /\ 4 * l < 146097 * n + 146097
  BY SMT, <1>1 DEF CenturyOf
<1>3. n \in Nat
  BY SMT, <1>2
<1>4. (146097 * n + 3) \div 4 = 36524 * n + (n + 3) \div 4
  <2>1. 146097 * n + 3 = 4 * (36524 * n) + (n + 3)
    BY SMT
  <2>2. /\ (n + 3) \div 4 \in Int /\ (n + 3) % 4 \in 0 .. 3
        /\ n + 3 = 4 * ((n + 3) \div 4) + ((n + 3) % 4)
    BY SMT
  <2> QED BY SMT, <2>1, <2>2
<1> DEFINE l1 == l - (146097 * n + 3) \div 4
<1>5. l1 \in Int /\ l = 36524 * n + (n + 3) \div 4 + l1
  BY SMT, <1>4
<1> HIDE DEF l1
<1>6. n = 4 * (n \div 4) + (n % 4) /\ n % 4 \in 0 .. 3 /\ n \div 4 \in Int
  BY SMT
<1>7. (n + 3) \div 4 = n \div 4 + IF n % 4 = 0 THEN 0 ELSE 1
  BY SMT, <1>6
<1>8. l1 >= 0 /\ l1 <= 36524 /\ (l1 = 36524 => n % 4 = 0)
  BY SMT, <1>2, <1>3, <1>5, <1>6, <1>7
<1>9. CenturyFits(l, n, l1)
  BY SMT, <1>3, <1>5, <1>8 DEF CenturyFits, CenturyDays
<1> QED BY <1>1, <1>9 DEF l1, DayOfCentury

(* The year of a century and its day in the year, which is the 366th only   *)
(* in every fourth year.                                                    *)
YearOf(l1) == (4000 * (l1 + 1)) \div 1461001
DayOf(l1) == l1 - (365 * YearOf(l1) + YearOf(l1) \div 4)
YearDays == 0 .. 365
YearFits(l1, i, r) ==
    /\ i \in 0 .. 99
    /\ (1461 * i) \div 4 = 365 * i + i \div 4
    /\ r \in YearDays
    /\ r = 365 => i % 4 = 3
    /\ l1 = 365 * i + i \div 4 + r

LEMMA DaysInYears ==
    ASSUME NEW l1 \in CenturyDays
    PROVE  YearFits(l1, YearOf(l1), DayOf(l1))
<1>1. l1 \in Int /\ l1 >= 0 /\ l1 <= 36524
  BY SMT DEF CenturyDays
<1>2. PICK i \in Int : i = YearOf(l1)
  BY SMT, <1>1 DEF YearOf
<1>3. 1461001 * i <= 4000 * (l1 + 1) /\ 4000 * (l1 + 1) < 1461001 * i + 1461001
  BY SMT, <1>1, <1>2 DEF YearOf
<1>4. i \in 0 .. 99
  BY SMT, <1>1, <1>3
<1>5. (1461 * i) \div 4 = 365 * i + i \div 4
  BY SMT
<1> DEFINE q == i \div 4
           s == i % 4
           t == l1 - 1461 * q
<1>6. q \in 0 .. 24 /\ s \in 0 .. 3 /\ i = 4 * q + s
  BY SMT, <1>4
<1>7. t \in Int /\ l1 = 1461 * q + t
  BY SMT, <1>1, <1>6
<1>8. 365 * i + q = 1461 * q + 365 * s
  BY SMT, <1>6
<1> HIDE DEF t
<1> HIDE DEF s
<1> HIDE DEF q
<1>9. /\ 4 * q + 1461001 * s <= 4000 * t + 4000
      /\ 4000 * t + 4000 < 4 * q + 1461001 * s + 1461001
  <2>1. /\ 1461001 * i = 4 * q + 1461001 * s + 5844000 * q
        /\ 4000 * (l1 + 1) = 4000 * t + 4000 + 5844000 * q
    BY SMT, <1>6, <1>7
  <2> QED BY SMT, <1>1, <1>3, <1>6, <1>7, <2>1
<1>10. t >= 0
  <2>1. 4 * q <= 4000 * t + 4000
    BY SMT, <1>6, <1>7, <1>9
  <2> QED BY SMT, <1>1, <1>6, <1>7, <2>1
<1>11. t - 365 * s \in 0 .. 365 /\ (t - 365 * s = 365 => s = 3)
  <2>1. CASE s = 0 BY SMT, <1>6, <1>7, <1>9, <1>10, <2>1
  <2>2. CASE s = 1 BY SMT, <1>6, <1>7, <1>9, <1>10, <2>2
  <2>3. CASE s = 2 BY SMT, <1>6, <1>7, <1>9, <1>10, <2>3
  <2>4. CASE s = 3
    <3>1. t <= 1460
      BY SMT, <1>6, <1>7, <1>9, <2>4
    <3> QED BY SMT, <1>6, <1>7, <1>9, <2>4, <3>1
  <2> QED BY SMT, <1>6, <2>1, <2>2, <2>3, <2>4
<1> DEFINE r == l1 - (365 * i + q)
<1>12. r = t - 365 * s /\ l1 = 365 * i + q + r
  BY SMT, <1>1, <1>6, <1>7, <1>8
<1> HIDE DEF r
<1>13. r \in 0 .. 365 /\ (r = 365 => s = 3)
  BY SMT, <1>11, <1>12
<1>14. YearFits(l1, i, r)
  BY SMT, <1>4, <1>5, <1>12, <1>13 DEF YearFits, YearDays, q, s
<1> QED BY <1>2, <1>14 DEF r, q, DayOf

(* The month of a year, counted from March, and the day of the month.       *)
MonthOf(r) == (80 * (r + 31)) \div 2447
DayOfMonth(r) == r + 31 - (2447 * MonthOf(r)) \div 80
MonthFits(r, j, d) ==
    /\ j \in 1 .. 12 /\ d \in Int /\ d >= 1
    /\ (153 * (j - 1) + 2) \div 5 + d - 1 = r
    /\ j \in {1, 3, 5, 6, 8, 10, 11} => d <= 31
    /\ j \in {2, 4, 7, 9} => d <= 30
    /\ j = 12 => d <= 29
    /\ j = 12 /\ d = 29 => r = 365

LEMMA DaysInMonths ==
    ASSUME NEW r \in YearDays
    PROVE  MonthFits(r, MonthOf(r), DayOfMonth(r))
<1>1. r \in Int /\ r >= 0 /\ r <= 365
  BY SMT DEF YearDays
<1>2. PICK j \in Int : j = MonthOf(r)
  BY SMT, <1>1 DEF MonthOf
<1>3. PICK d \in Int : d = r + 31 - (2447 * j) \div 80
  BY SMT, <1>1
<1>4. 2447 * j <= 80 * (r + 31) /\ 80 * (r + 31) < 2447 * j + 2447
  BY SMT, <1>1, <1>2 DEF MonthOf
<1>5. j \in 1 .. 12
  BY SMT, <1>1, <1>4
<1>6. MonthFits(r, j, d)
  <2>1. CASE j = 1 BY SMT, <1>1, <1>3, <1>4, <2>1 DEF MonthFits
  <2>2. CASE j = 2 BY SMT, <1>1, <1>3, <1>4, <2>2 DEF MonthFits
  <2>3. CASE j = 3 BY SMT, <1>1, <1>3, <1>4, <2>3 DEF MonthFits
  <2>4. CASE j = 4 BY SMT, <1>1, <1>3, <1>4, <2>4 DEF MonthFits
  <2>5. CASE j = 5 BY SMT, <1>1, <1>3, <1>4, <2>5 DEF MonthFits
  <2>6. CASE j = 6 BY SMT, <1>1, <1>3, <1>4, <2>6 DEF MonthFits
  <2>7. CASE j = 7 BY SMT, <1>1, <1>3, <1>4, <2>7 DEF MonthFits
  <2>8. CASE j = 8 BY SMT, <1>1, <1>3, <1>4, <2>8 DEF MonthFits
  <2>9. CASE j = 9 BY SMT, <1>1, <1>3, <1>4, <2>9 DEF MonthFits
  <2>10. CASE j = 10 BY SMT, <1>1, <1>3, <1>4, <2>10 DEF MonthFits
  <2>11. CASE j = 11 BY SMT, <1>1, <1>3, <1>4, <2>11 DEF MonthFits
  <2>12. CASE j = 12 BY SMT, <1>1, <1>3, <1>4, <2>12 DEF MonthFits
  <2> QED BY SMT, <1>5, <2>1, <2>2, <2>3, <2>4, <2>5, <2>6, <2>7, <2>8, <2>9, <2>10, <2>11, <2>12
<1> QED BY <1>2, <1>3, <1>6 DEF DayOfMonth

(* The date that century, year, month and day make, and its day number.     *)
Parts(n, i, j, d) ==
    [y |-> 100 * (n - 49) + i + j \div 11, m |-> j + 2 - 12 * (j \div 11), d |-> d]

PartsFit(n, i, j, d) == n \in Int /\ i \in 0 .. 99 /\ j \in 1 .. 12 /\ d \in Int
PartsMean(n, i, j, d, g) ==
    /\ g.y \in Int /\ g.d = d
    /\ g.y = 100 * (n - 49) + i + (IF j > 10 THEN 1 ELSE 0)
    /\ g.m = IF j > 10 THEN j - 10 ELSE j + 2
    /\ DayNumber(g) = 36524 * (n - 49) + (n - 49) \div 4 + 365 * i + i \div 4
                        + (153 * (j - 1) + 2) \div 5 + d - 1

LEMMA DayOfParts ==
    ASSUME NEW n, NEW i, NEW j, NEW d, PartsFit(n, i, j, d)
    PROVE  PartsMean(n, i, j, d, Parts(n, i, j, d))
<1>0. n \in Int /\ i \in 0 .. 99 /\ j \in 1 .. 12 /\ d \in Int
  BY DEF PartsFit
<1> DEFINE c == n - 49
           y == 100 * c + i
           g == Parts(n, i, j, d)
<1>1. /\ g.y = 100 * c + i + j \div 11 /\ g.m = j + 2 - 12 * (j \div 11) /\ g.d = d
      /\ j \div 11 = IF j > 10 THEN 1 ELSE 0
  BY SMT, <1>0 DEF Parts
<1> HIDE DEF g
<1>2. /\ c \in Int /\ y \in Int /\ y = 100 * c + i
  BY SMT, <1>0
<1>3. /\ g.y = y + (IF j > 10 THEN 1 ELSE 0)
      /\ g.m = IF j > 10 THEN j - 10 ELSE j + 2
      /\ g.m \in 1 .. 12
  BY SMT, <1>0, <1>1
<1>4. DayNumber(g) = 365 * y + y \div 4 - y \div 100 + y \div 400
                       + (153 * (j - 1) + 2) \div 5 + d - 1
  BY SMT, <1>0, <1>1, <1>2, <1>3 DEF DayNumber
<1> HIDE DEF c
<1> HIDE DEF y
<1>5. y \div 4 = 25 * c + i \div 4
  <2>1. /\ i \div 4 \in Int /\ i % 4 \in 0 .. 3 /\ i = 4 * (i \div 4) + (i % 4)
    BY SMT, <1>0
  <2>2. y = 4 * (25 * c + i \div 4) + (i % 4)
    BY SMT, <1>0, <1>2, <2>1
  <2> QED BY SMT, <1>0, <1>2, <2>1, <2>2
<1>6. y \div 100 = c
  BY SMT, <1>0, <1>2
<1>7. y \div 400 = c \div 4
  <2>1. /\ c \div 4 \in Int /\ c % 4 \in 0 .. 3 /\ c = 4 * (c \div 4) + (c % 4)
    BY SMT, <1>0, <1>2
  <2>2. y = 400 * (c \div 4) + (100 * (c % 4) + i) /\ 100 * (c % 4) + i \in 0 .. 399
    BY SMT, <1>0, <1>2, <2>1
  <2> QED BY SMT, <1>0, <1>2, <2>1, <2>2
<1>8. DayNumber(g) = 36524 * c + c \div 4 + 365 * i + i \div 4
                       + (153 * (j - 1) + 2) \div 5 + d - 1
  <2>1. c \div 4 \in Int /\ i \div 4 \in Int /\ (153 * (j - 1) + 2) \div 5 \in Int
    BY SMT, <1>0, <1>2
  <2> QED BY SMT, <1>0, <1>2, <1>4, <1>5, <1>6, <1>7, <2>1
<1> HIDE DEF y
<1>9. g.y = 100 * (n - 49) + i + (IF j > 10 THEN 1 ELSE 0) /\ g.y \in Int
  BY SMT, <1>0, <1>2, <1>3 DEF c, y
<1> QED BY <1>1, <1>3, <1>8, <1>9 DEF c, g, PartsMean

(* Such a date is one of the calendar: the 29th of February needs the 366th *)
(* day of a year, and so a year that February makes a leap year.            *)
LEMMA DateOfParts ==
    ASSUME NEW l \in Nat, NEW n, NEW l1, NEW i, NEW r, NEW j, NEW d, NEW g,
           CenturyFits(l, n, l1), YearFits(l1, i, r), MonthFits(r, j, d),
           g = Parts(n, i, j, d)
    PROVE  IsDate(g) /\ g.y \in Int /\ DayNumber(g) = l - 1789689
<1>2. /\ n \in Int /\ n >= 0 /\ l1 \in Int /\ l1 <= 36524 /\ (l1 = 36524 => n % 4 = 0)
      /\ l = 36524 * n + (n + 3) \div 4 + l1
  BY SMT DEF CenturyFits, CenturyDays
<1>3. /\ i \in 0 .. 99 /\ r \in 0 .. 365 /\ (r = 365 => i % 4 = 3)
      /\ l1 = 365 * i + i \div 4 + r /\ i \div 4 \in Int
  BY SMT DEF YearFits, YearDays
<1>4. /\ j \in 1 .. 12 /\ d \in Int /\ d >= 1
      /\ (153 * (j - 1) + 2) \div 5 + d - 1 = r
      /\ j \in {1, 3, 5, 6, 8, 10, 11} => d <= 31
      /\ j \in {2, 4, 7, 9} => d <= 30
      /\ j = 12 => d <= 29
      /\ j = 12 /\ d = 29 => r = 365
  BY DEF MonthFits
<1>5. /\ g.y \in Int /\ g.d = d
      /\ g.y = 100 * (n - 49) + i + (IF j > 10 THEN 1 ELSE 0)
      /\ g.m = IF j > 10 THEN j - 10 ELSE j + 2
      /\ DayNumber(g) = 36524 * (n - 49) + (n - 49) \div 4 + 365 * i + i \div 4
                          + (153 * (j - 1) + 2) \div 5 + d - 1
  <2>1. PartsFit(n, i, j, d)
    BY <1>2, <1>3, <1>4 DEF PartsFit
  <2> QED BY <2>1, DayOfParts DEF PartsMean
<1>6. DayNumber(g) = l - 1789689
  <2>1. (n - 49) \div 4 = (n + 3) \div 4 - 13 /\ (n + 3) \div 4 \in Int
    BY SMT, <1>2
  <2>2. (153 * (j - 1) + 2) \div 5 \in Int
    BY SMT, <1>4
  <2> QED BY SMT, <1>2, <1>3, <1>4, <1>5, <2>1, <2>2
<1>7. ASSUME j = 12, d = 29 PROVE Leap(g.y)
  <2>1. i % 4 = 3 /\ r = 365
    BY <1>3, <1>4, <1>7
  <2>2. i = 4 * (i \div 4) + 3
    BY SMT, <1>3, <2>1
  <2>3. g.y = 100 * (n - 49) + i + 1
    BY SMT, <1>5, <1>7
  <2>4. g.y % 4 = 0
    <3>1. g.y = 4 * (25 * (n - 49) + i \div 4 + 1)
      BY SMT, <1>2, <1>3, <2>2, <2>3
    <3> QED BY SMT, <1>2, <1>3, <3>1
  <2>5. CASE i < 99
    <3>1. g.y = 100 * (n - 49) + (i + 1) /\ i + 1 \in 1 .. 99 /\ n - 49 \in Int
      BY SMT, <1>2, <1>3, <2>3, <2>5
    <3>2. g.y % 100 # 0
      BY SMT, <3>1
    <3> QED BY <2>4, <3>2 DEF Leap
  <2>6. CASE i = 99
    <3>1. l1 = 36524
      BY SMT, <1>3, <2>1, <2>6
    <3>2. n % 4 = 0
      BY SMT, <1>2, <3>1
    <3>3. n = 4 * (n \div 4) /\ n \div 4 \in Int
      BY SMT, <1>2, <3>2
    <3>4. g.y = 400 * (n \div 4 - 12)
      BY SMT, <1>2, <2>3, <2>6, <3>3
    <3>5. g.y % 400 = 0
      BY SMT, <3>3, <3>4
    <3> QED BY SMT, <2>4, <3>5 DEF Leap
  <2> QED BY SMT, <1>3, <2>5, <2>6
<1>8. IsDate(g)
  <2>1. CASE j = 12
    <3>1. g.m = 2 /\ d <= 29 /\ (d = 29 => Leap(g.y))
      BY SMT, <1>4, <1>5, <1>7, <2>1
    <3> QED BY SMT, <1>4, <1>5, <3>1 DEF IsDate, DaysOfMonth
  <2>2. CASE j \in {2, 4, 7, 9}
    BY SMT, <1>4, <1>5, <2>2 DEF IsDate, DaysOfMonth
  <2>3. CASE j \in {1, 3, 5, 6, 8, 10, 11}
    BY SMT, <1>4, <1>5, <2>3 DEF IsDate, DaysOfMonth
  <2> QED BY SMT, <1>4, <2>1, <2>2, <2>3
<1> QED BY <1>5, <1>6, <1>8

SinceMarch(jd) == jd - 1721120

(* Every Julian day from 0 on is a Gregorian date, and the next is the next.*)
LEMMA GregorianDays ==
    ASSUME NEW jd \in Nat
    PROVE  /\ IsDate(GregorianOfJulianDay(jd))
           /\ GregorianOfJulianDay(jd).y \in Int
           /\ DayNumber(GregorianOfJulianDay(jd)) = SinceMarch(jd)
<1> DEFINE l == jd + 68569
           n == CenturyOf(l)
           l1 == DayOfCentury(l)
           i == YearOf(l1)
           r == DayOf(l1)
           g == GregorianOfJulianDay(jd)
<1>1. l \in Nat /\ l = jd + 68569
  BY SMT
<1>2. CenturyFits(l, n, l1)
  <2> HIDE DEF l
  <2> QED BY <1>1, DaysInCenturies
<1>3. YearFits(l1, i, r)
  <2> HIDE DEF l1
  <2>1. l1 \in CenturyDays
    BY <1>2 DEF CenturyFits
  <2> QED BY <2>1, DaysInYears
<1>4. MonthFits(r, MonthOf(r), DayOfMonth(r))
  <2> HIDE DEF r
  <2>1. r \in YearDays
    BY <1>3 DEF YearFits
  <2> QED BY <2>1, DaysInMonths
<1>5. g = Parts(n, i, MonthOf(r), DayOfMonth(r))
  <2> DEFINE l2 == l1 - (1461 * i) \div 4 + 31
         k == (80 * l2) \div 2447
  <2>1. g = Parts(n, i, k, l2 - (2447 * k) \div 80)
    BY DEF GregorianOfJulianDay, Parts, CenturyOf, DayOfCentury, YearOf
  <2>2. l1 \in Int /\ i \in Int /\ i \div 4 \in Int /\ r \in Int
        /\ l1 = 365 * i + i \div 4 + r /\ (1461 * i) \div 4 = 365 * i + i \div 4
    <3> HIDE DEF l1, i, r
    <3> QED BY SMT, <1>2, <1>3 DEF CenturyFits, CenturyDays, YearFits, YearDays
  <2>3. l2 = r + 31
    <3> HIDE DEF l1, i, r
    <3> QED BY SMT, <2>2
  <2>4. k = MonthOf(r)
    <3> HIDE DEF l2, r
    <3> QED BY <2>3 DEF MonthOf
  <2>5. l2 - (2447 * k) \div 80 = DayOfMonth(r)
    <3>1. MonthOf(r) \in Int /\ r \in Int
      <4> HIDE DEF r
      <4> QED BY SMT, <1>4, <2>2 DEF MonthFits, MonthOf
    <3> HIDE DEF k, l2, r
    <3> QED BY SMT, <2>3, <2>4, <3>1 DEF DayOfMonth
  <2> HIDE DEF k, l2, g, n, i, r
  <2> QED BY <2>1, <2>4, <2>5
<1> HIDE DEF g
<1> HIDE DEF r
<1> HIDE DEF i
<1> HIDE DEF l1
<1> HIDE DEF n
<1> HIDE DEF l
<1>6. IsDate(g) /\ g.y \in Int /\ DayNumber(g) = l - 1789689
  BY <1>1, <1>2, <1>3, <1>4, <1>5, DateOfParts
<1>7. l - 1789689 = jd - 1721120
  BY SMT, <1>1
<1> QED BY <1>6, <1>7 DEF g, SinceMarch

(* Leap years are counted as they fall in the cycle of thirty, by induction *)
(* on the year.                                                             *)
LEMMA HijriLeapYears ==
    ASSUME NEW y \in Nat \ {0}
    PROVE  Cardinality({k \in 1..(y - 1) : (11 * k + 14) % 30 < 11}) = (11 * y + 3) \div 30
<1> DEFINE n == y - 1
           S == {k \in 1 .. n : (11 * k + 14) % 30 < 11}
           A == {k \in 0 .. n : UpTo(S, k) = (11 * k + 14) \div 30}
<1>1. n \in Nat /\ y = n + 1 /\ S \in SUBSET (1 .. n)
  BY SMT
<1>2. /\ UpTo(S, 0) = 0 /\ UpTo(S, n) = Cardinality(S)
      /\ \A k \in Nat : UpTo(S, k) \in Nat
      /\ \A k \in Nat : UpTo(S, k + 1) = IF k + 1 \in S THEN UpTo(S, k) + 1 ELSE UpTo(S, k)
  <2> HIDE DEF S, n
  <2> QED BY <1>1, UpToSteps
<1>3. 0 \in A
  <2> HIDE DEF S
  <2>1. 0 \in 0 .. n /\ (11 * 0 + 14) \div 30 = 0
    BY SMT, <1>1
  <2> QED BY <1>2, <2>1
<1>4. ASSUME NEW k \in 1 .. n, k - 1 \in A PROVE k \in A
  <2>1. UpTo(S, k) = IF k \in S THEN UpTo(S, k - 1) + 1 ELSE UpTo(S, k - 1)
    <3>1. k - 1 \in Nat /\ (k - 1) + 1 = k
      BY SMT, <1>1
    <3> HIDE DEF S, n
    <3> QED BY <1>2, <3>1
  <2>2. k \in S <=> (11 * k + 14) % 30 < 11
    OBVIOUS
  <2>3. (11 * k + 14) \div 30
            = (11 * (k - 1) + 14) \div 30 + (IF (11 * k + 14) % 30 < 11 THEN 1 ELSE 0)
    <3>1. /\ (11 * k + 14) \div 30 \in Int /\ (11 * k + 14) % 30 \in 0 .. 29
          /\ 11 * k + 14 = 30 * ((11 * k + 14) \div 30) + ((11 * k + 14) % 30)
      BY SMT
    <3> QED BY SMT, <3>1
  <2>4. UpTo(S, k - 1) = (11 * (k - 1) + 14) \div 30 /\ k \in 0 .. n /\ k \in Int
    <3> HIDE DEF S
    <3>1. UpTo(S, k - 1) = (11 * (k - 1) + 14) \div 30
      BY <1>4
    <3>2. k \in 0 .. n /\ k \in Int
      BY SMT, <1>1
    <3> QED BY <3>1, <3>2
  <2> HIDE DEF S
  <2>5. UpTo(S, k) = (11 * k + 14) \div 30
    <3>1. (11 * (k - 1) + 14) \div 30 \in Int
      BY SMT, <2>4
    <3>2. CASE k \in S
      BY SMT, <2>1, <2>2, <2>3, <2>4, <3>1, <3>2
    <3>3. CASE k \notin S
      BY SMT, <2>1, <2>2, <2>3, <2>4, <3>1, <3>3
    <3> QED BY <3>2, <3>3
  <2> QED BY <2>4, <2>5
<1>5. n \in A
  <2> HIDE DEF A
  <2>1. \A k \in 0 .. n : k \in A
    <3> HIDE DEF n
    <3> QED BY <1>1, <1>3, <1>4, CountingUp
  <2>2. n \in 0 .. n
    BY SMT, <1>1
  <2> QED BY <2>1, <2>2
<1>6. Cardinality(S) = (11 * n + 14) \div 30
  <2> HIDE DEF S
  <2> QED BY <1>2, <1>5
<1>7. 11 * n + 14 = 11 * y + 3
  BY SMT, <1>1
<1> QED BY <1>6, <1>7

HijriDay(y, m, d) == y \in Nat \ {0} /\ m \in 1 .. 12 /\ d \in 1 .. 30
HijriEra == DayNumber([y |-> 622, m |-> 7, d |-> 19])

(* The Julian day of a Hijri date counts the days of the Hijri era.         *)
LEMMA HijriJulianDays ==
    ASSUME NEW y, NEW m, NEW d, HijriDay(y, m, d)
    PROVE  /\ JulianDay(y, m, d) \in Nat
           /\ SinceMarch(JulianDay(y, m, d)) = HijriEra + HijriDayNumber(y, m, d)
<1>0. y \in Nat \ {0} /\ m \in 1 .. 12 /\ d \in 1 .. 30
  BY DEF HijriDay
<1> DEFINE leap == Cardinality({k \in 1..(y - 1) : (11 * k + 14) % 30 < 11})
<1>1. leap = (11 * y + 3) \div 30 /\ leap \in Int /\ leap >= 0
  <2>1. leap = (11 * y + 3) \div 30
    BY <1>0, HijriLeapYears
  <2>2. (11 * y + 3) \div 30 \in Int /\ (11 * y + 3) \div 30 >= 0
    BY SMT, <1>0
  <2> HIDE DEF leap
  <2> QED BY <2>1, <2>2
<1>2. HijriDayNumber(y, m, d) = 354 * (y - 1) + leap + 29 * (m - 1) + m \div 2 + d - 1
  BY DEF HijriDayNumber
<1> HIDE DEF leap
<1>3. JulianDay(y, m, d) = leap + 354 * y + 30 * m - (m - 1) \div 2 + d + 1948440 - 385
  BY <1>1 DEF JulianDay
<1>4. /\ m \div 2 \in Int /\ (m - 1) \div 2 \in Int /\ m = (m - 1) \div 2 + m \div 2 + 1
      /\ (m - 1) \div 2 <= 5
  BY SMT, <1>0
<1>5. DayNumber([y |-> 622, m |-> 7, d |-> 19]) = 227320
  <2> DEFINE g == [y |-> 622, m |-> 7, d |-> 19]
  <2>1. g.y = 622 /\ g.m = 7 /\ g.d = 19
    OBVIOUS
  <2> HIDE DEF g
  <2>2. DayNumber(g) = 365 * 622 + 622 \div 4 - 622 \div 100 + 622 \div 400
                         + (153 * 4 + 2) \div 5 + 19 - 1
    BY SMT, <2>1 DEF DayNumber
  <2>3. 622 \div 4 = 155 /\ 622 \div 100 = 6 /\ 622 \div 400 = 1 /\ (153 * 4 + 2) \div 5 = 122
    BY SMT, <1>0
  <2>4. DayNumber(g) = 227320
    BY SMT, <2>2, <2>3
  <2> QED BY <2>4 DEF g
<1>6. JulianDay(y, m, d) \in Nat
  BY SMT, <1>0, <1>1, <1>3, <1>4
<1>7. JulianDay(y, m, d) - 1721120 = 227320 + HijriDayNumber(y, m, d)
  BY SMT, <1>0, <1>1, <1>2, <1>3, <1>4
<1> QED BY <1>5, <1>6, <1>7 DEF SinceMarch, HijriEra

LEMMA HijriDaysAreDays ==
    ASSUME NEW y, NEW m, NEW d, HijriDay(y, m, d)
    PROVE  /\ IsDate(HijriToGregorian(y, m, d))
           /\ HijriToGregorian(y, m, d).y \in Int
           /\ DayNumber(HijriToGregorian(y, m, d)) = HijriEra + HijriDayNumber(y, m, d)
           /\ DayNumber(HijriToGregorian(y, m, d)) = SinceMarch(JulianDay(y, m, d))
BY HijriJulianDays, GregorianDays DEF HijriToGregorian

(* The years that parse_date_string reads as Hijri are of these Gregorian   *)
(* ones.                                                                    *)
LEMMA CenturiesRead ==
    ASSUME NEW w, HijriDay(w.y, w.m, w.d), HijriYear(w)
    PROVE  HijriToGregorian(w.y, w.m, w.d).y \in 1882 .. 2077
<1> DEFINE y == w.y
           m == w.m
           d == w.d
           g == HijriToGregorian(y, m, d)
           jd == JulianDay(y, m, d)
<1>0. y \in 1300 .. 1499 /\ m \in 1 .. 12 /\ d \in 1 .. 30
  BY SMT DEF HijriDay, HijriYear
<1>1. /\ IsDate(g) /\ g.y \in Int /\ DayNumber(g) = jd - 1721120
  BY HijriDaysAreDays DEF SinceMarch
<1>2. jd \in Int /\ jd >= 2408762 /\ jd <= 2479635
  <2> HIDE DEF y, m, d
  <2>1. /\ (11 * y + 3) \div 30 \in Int /\ (m - 1) \div 2 \in 0 .. 5
        /\ (11 * y + 3) \div 30 >= 476 /\ (11 * y + 3) \div 30 <= 549
        /\ 2 * ((m - 1) \div 2) <= m - 1 /\ m - 2 <= 2 * ((m - 1) \div 2)
    BY SMT, <1>0
  <2> QED BY SMT, <1>0, <2>1 DEF JulianDay
<1> HIDE DEF g
<1> HIDE DEF jd
<1>3. g.m \in 1 .. 12 /\ g.d \in 1 .. 31
  BY SMT, <1>1 DEF IsDate, DaysOfMonth
<1>4. PICK y1 \in Int, m1 \in 0 .. 11 :
        /\ y1 = IF g.m > 2 THEN g.y ELSE g.y - 1
        /\ m1 = IF g.m > 2 THEN g.m - 3 ELSE g.m + 9
  BY SMT, <1>1, <1>3
<1>5. DayNumber(g) = 365 * y1 + y1 \div 4 - y1 \div 100 + y1 \div 400
                       + (153 * m1 + 2) \div 5 + g.d - 1
  BY SMT, <1>4 DEF DayNumber
<1>6. /\ y1 \div 4 \in Int /\ 4 * (y1 \div 4) <= y1 /\ y1 < 4 * (y1 \div 4) + 4
      /\ y1 \div 100 \in Int /\ 100 * (y1 \div 100) <= y1 /\ y1 < 100 * (y1 \div 100) + 100
      /\ y1 \div 400 \in Int /\ 400 * (y1 \div 400) <= y1 /\ y1 < 400 * (y1 \div 400) + 400
  BY SMT
<1>7. (153 * m1 + 2) \div 5 \in 0 .. 337 /\ (g.m <= 2 => (153 * m1 + 2) \div 5 >= 306)
  <2>1. g.m <= 2 => m1 >= 10
    BY SMT, <1>3, <1>4
  <2>2. (153 * m1 + 2) \div 5 \in 0 .. 337 /\ (m1 >= 10 => (153 * m1 + 2) \div 5 >= 306)
    BY SMT
  <2> QED BY <2>1, <2>2
<1>8. DayNumber(g) \in Int /\ DayNumber(g) >= 687642 /\ DayNumber(g) <= 758515
  <2>1. jd - 1721120 \in Int /\ jd - 1721120 >= 687642 /\ jd - 1721120 <= 758515
    BY SMT, <1>2
  <2> QED BY SMT, <1>1, <2>1
<1>9. /\ 400 * DayNumber(g) <= 146097 * y1 + 147600
      /\ 146097 * y1 - 1200 <= 400 * DayNumber(g)
  <2> DEFINE a == y1 \div 4
             b == y1 \div 100
             c == y1 \div 400
             e == (153 * m1 + 2) \div 5
  <2>1. /\ a \in Int /\ b \in Int /\ c \in Int /\ e \in Int /\ e >= 0 /\ e <= 337
        /\ 4 * a <= y1 /\ y1 <= 4 * a + 3 /\ 100 * b <= y1 /\ y1 <= 100 * b + 99
        /\ 400 * c <= y1 /\ y1 <= 400 * c + 399
    BY SMT, <1>6, <1>7
  <2>2. DayNumber(g) = 365 * y1 + a - b + c + e + g.d - 1
    BY <1>5
  <2> HIDE DEF a, b, c, e
  <2> QED BY SMT, <1>3, <2>1, <2>2
<1>10. y1 >= 1882 /\ y1 <= 2076
  BY SMT, <1>8, <1>9
<1>11. g.y \in 1882 .. 2077
  BY SMT, <1>1, <1>3, <1>4, <1>10
<1> QED BY <1>11 DEF g

LEMMA MonthsFollow == ASSUME AnswerInv PROVE HijriDaysFollow
<1> SUFFICES ASSUME Answered("hijri"), NEW d \in DOMAIN answer
             PROVE  /\ IsDate(answer[d])
                    /\ DayNumber(answer[d]) = HijriEra + HijriDayNumber(call.y, call.m, d)
  BY DEF HijriDaysFollow, HijriEra
<1>1. answer = [k \in 1..30 |-> HijriToGregorian(call.y, call.m, k)]
  BY DEF AnswerInv
<1>2. call \in HijriMonths
  BY CallsOfTheirKind DEF AnswerInv, Answered
<1>3. d \in 1 .. 30 /\ answer[d] = HijriToGregorian(call.y, call.m, d)
  BY <1>1
<1>4. HijriDay(call.y, call.m, d)
  <2>1. call.y \in 1..9665 /\ call.m \in 1..12
    BY <1>2, CalendarAssumption
  <2> DEFINE y == call.y
  <2>2. y \in 1..9665
    BY <2>1
  <2> HIDE DEF y
  <2>3. y \in Nat \ {0}
    BY SMT, <2>2
  <2> QED BY <1>3, <2>1, <2>3 DEF HijriDay, y
<1> QED BY <1>3, <1>4, HijriDaysAreDays

LEMMA WrittenDatesAreRead == ASSUME AnswerInv PROVE DatesRead
<1> SUFFICES ASSUME Answered("date")
             PROVE  /\ answer = Unknown \/ IsDate(answer.date)
                    /\ answer.calendar = "gregorian" => answer.date = Written(call.written)
                    /\ answer.calendar = "hijri" => answer.date.y \in 1882..2077
  BY DEF DatesRead
<1> DEFINE w == call.written
<1>1. answer = ParseDate(w)
  BY DEF AnswerInv
<1>2. w.y \in Nat /\ w.m \in 1 .. 12 /\ w.d \in 1 .. 31
  BY CallsOfTheirKind, CalendarAssumption DEF AnswerInv, Answered
<1> HIDE DEF w
<1>3. \/ /\ answer = Read("hijri", HijriToGregorian(w.y, w.m, w.d))
         /\ HijriYear(w) /\ w.d <= 30
      \/ answer = Read("gregorian", Written(w)) /\ IsDate(Written(w))
      \/ answer = Unknown
  BY <1>1 DEF ParseDate
<1>4. CASE /\ answer = Read("hijri", HijriToGregorian(w.y, w.m, w.d))
           /\ HijriYear(w) /\ w.d <= 30
  <2>1. w.y \in 1300 .. 1499 /\ w.d \in 1 .. 30
    BY SMT, <1>2, <1>4 DEF HijriYear
  <2>2. HijriDay(w.y, w.m, w.d)
    BY SMT, <1>2, <2>1 DEF HijriDay
  <2> DEFINE g == HijriToGregorian(w.y, w.m, w.d)
  <2>3. IsDate(g)
    BY <2>2, HijriDaysAreDays
  <2>4. g.y \in 1882 .. 2077
    BY <1>4, <2>2, CenturiesRead
  <2> HIDE DEF g
  <2>5. answer.calendar = "hijri" /\ answer.date = g
    BY <1>4 DEF Read, g
  <2> QED BY <2>3, <2>4, <2>5
<1>5. CASE answer = Read("gregorian", Written(w)) /\ IsDate(Written(w))
  <2>1. answer.calendar = "gregorian" /\ answer.date = Written(w)
    BY <1>5 DEF Read
  <2> QED BY <1>5, <2>1 DEF w
<1>6. CASE answer = Unknown
  BY <1>6 DEF Unknown, Read
<1> QED BY <1>3, <1>4, <1>5, <1>6

(* hijri_to_gregorian, parse_date_string: in every year the conversion      *)
(* knows, Hijri days are days of the Gregorian calendar that follow one     *)
(* another through months and years, and a text is read as a day it can     *)
(* mean or not at all.                                                      *)
THEOREM CalendarsAgree == CalculationSpec => []CalendarIsRight
<1>1. AnswerInv => CalendarIsRight
  BY MonthsFollow, WrittenDatesAreRead DEF CalendarIsRight
<1> QED BY <1>1, AnswersFollowCalls, PTL

-----------------------------------------------------------------------------
(* What the rules make of an article, as the run store assumes it.         *)

(* An article whose company, clause and change leave room for a gap.       *)
MayBeGap(change_type, authority, clause, company) ==
    /\ Obligated(change_type, clause)
    /\ CheckApplicability(authority, clause, company) = "applicable"
    /\ Modality(clause.markers) # "permission_option"
    /\ clause.limit # NoLimit

(* extract_obligations, analyze_gap, generate_task: an obligation comes of  *)
(* a substantive change, a gap of an obligation that binds, applies and has *)
(* a threshold, whatever the evidence at the moment, and a task of a gap.   *)
(* So the articles of RunStore are nested as it assumes, and a later        *)
(* execution with more evidence may change a verdict only of the innermost. *)
THEOREM RulesNest ==
    ASSUME NEW change_type, NEW authority, NEW clause, NEW company, NEW evidence
    PROVE  LET result == AssessChange(change_type, authority, clause, company, evidence)
           IN  /\ Obligated(change_type, clause) => Substantive(change_type)
               /\ result.verdict = "gap" =>
                        MayBeGap(change_type, authority, clause, company)
               /\ result.due # 0 => result.verdict = "gap"
<1> DEFINE result == AssessChange(change_type, authority, clause, company, evidence)
           items == Retrieve(clause, evidence)
           applicability == CheckApplicability(authority, clause, company)
           verdict == AnalyzeGap(clause, applicability, items)
           due == DueDays(verdict, Priority(clause, verdict))
<1>1. Obligated(change_type, clause) => Substantive(change_type)
  BY DEF Obligated, Substantive
<1>2. result = IF ~Obligated(change_type, clause) THEN [verdict |-> "none", due |-> 0]
                ELSE [verdict |-> verdict, due |-> due]
  BY DEF AssessChange
<1>3. applicability \in {"not_applicable", "unknown", "needs_review", "applicable"}
  BY DEF CheckApplicability
<1>4. verdict = "gap" => /\ applicability = "applicable"
                         /\ Modality(clause.markers) # "permission_option"
                         /\ clause.limit # NoLimit
  <2> HIDE DEF applicability, items
  <2>1. CASE applicability = "not_applicable"
    BY <2>1 DEF AnalyzeGap
  <2>2. CASE applicability \in {"unknown", "needs_review"}
    BY <2>2 DEF AnalyzeGap
  <2>3. CASE applicability = "applicable"
    BY <2>3 DEF AnalyzeGap
  <2> QED BY <1>3, <2>1, <2>2, <2>3
<1>5. due # 0 => verdict = "gap"
  <2> HIDE DEF verdict
  <2> QED BY DEF DueDays
<1> HIDE DEF verdict, due, result
<1>6. CASE Obligated(change_type, clause)
  <2>1. result.verdict = verdict /\ result.due = due
    BY <1>2, <1>6
  <2>2. verdict = "gap" => MayBeGap(change_type, authority, clause, company)
    BY <1>4, <1>6 DEF MayBeGap
  <2>3. /\ result.verdict = "gap" => MayBeGap(change_type, authority, clause, company)
        /\ result.due # 0 => result.verdict = "gap"
    BY <1>5, <2>1, <2>2
  <2> QED BY <1>1, <2>3 DEF result
<1>7. CASE ~Obligated(change_type, clause)
  <2>1. result.verdict = "none" /\ result.due = 0
    BY <1>2, <1>7
  <2>2. /\ result.verdict = "gap" => MayBeGap(change_type, authority, clause, company)
        /\ result.due # 0 => result.verdict = "gap"
    BY <2>1
  <2> QED BY <1>1, <2>2 DEF result
<1> QED BY <1>6, <1>7
=============================================================================
