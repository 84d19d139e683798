------------------------------ MODULE FoldLemmas ------------------------------
(***************************************************************************)
(* What folds over finite sets are, for the sums and merges of the         *)
(* modules.  A fold takes one element from the set, folds the rest and     *)
(* combines the two; here its value is a function of the subsets, and so   *)
(* are the element it takes first and the operation.  The community        *)
(* modules define theirs by a recursive function, which is one of these    *)
(* once there is any.                                                      *)
(***************************************************************************)
EXTENDS Integers, FiniteSets, FiniteSetTheorems, WellFoundedInduction, TLAPS

-----------------------------------------------------------------------------
(* Induction over finite sets, by the least counterexample.                *)

LEMMA LeastNatural ==
    ASSUME NEW S \in SUBSET Nat, S # {}
    PROVE  \E m \in S : \A k \in S : m <= k
<1>1. PICK m \in S : \A k \in S : <<k, m>> \notin OpToRel(<, Nat)
  BY NatLessThanWellFounded, WFMin
<1>2. ASSUME NEW k \in S PROVE m <= k
  <2> SUFFICES ~ (k < m)
    OBVIOUS
  <2> QED BY <1>1 DEF OpToRel
<1> QED BY <1>2

(* Among subsets of a finite set there is one none of whose smaller ones   *)
(* is among them.                                                          *)
LEMMA SmallestSet ==
    ASSUME NEW S, IsFiniteSet(S), NEW B \in SUBSET SUBSET S, B # {}
    PROVE  \E s \in B : \A x \in s : s \ {x} \notin B
<1> DEFINE sizes == {Cardinality(s) : s \in B}
<1>1. \A s \in B : IsFiniteSet(s) /\ Cardinality(s) \in Nat
  BY FS_Subset, FS_CardinalityType
<1>2. sizes \in SUBSET Nat /\ sizes # {}
  BY <1>1
<1>3. PICK m \in sizes : \A k \in sizes : m <= k
  BY <1>2, LeastNatural
<1>4. PICK s \in B : m = Cardinality(s)
  BY <1>3
<1>5. ASSUME NEW x \in s PROVE s \ {x} \notin B
  <2>1. Cardinality(s \ {x}) = m - 1
    BY <1>1, <1>4, FS_RemoveElement
  <2>2. m \in Nat /\ ~ (m <= m - 1)
    BY <1>1, <1>4
  <2> QED BY <1>3, <2>1, <2>2
<1> QED BY <1>5

-----------------------------------------------------------------------------
(* Folds.                                                                  *)

Folding(g, base, op, v, first, S) ==
    g = [s \in SUBSET S |-> IF s = {} THEN base
                            ELSE op[v[first[s]]][g[s \ {first[s]}]]]

Takes(first, S) == \A s \in SUBSET S : s # {} => first[s] \in s

(* There are folds: those of sets of up to n elements, for each n.         *)
LEMMA FoldsExist ==
    ASSUME NEW S, IsFiniteSet(S), NEW V, NEW W, NEW base \in W,
           NEW op \in [V -> [W -> W]], NEW v \in [S -> V],
           NEW first, Takes(first, S)
    PROVE  \E g \in [SUBSET S -> W] : Folding(g, base, op, v, first, S)
<1> DEFINE upto(n) == {s \in SUBSET S : Cardinality(s) <= n}
           next(g, s) == IF s = {} THEN base ELSE op[v[first[s]]][g[s \ {first[s]}]]
           folds(g, n) == /\ g \in [upto(n) -> W]
                          /\ \A s \in upto(n) : g[s] = next(g, s)
           B == {n \in Nat : ~ \E g : folds(g, n)}
<1>1. \A s \in SUBSET S : IsFiniteSet(s) /\ Cardinality(s) \in Nat
  BY FS_Subset, FS_CardinalityType
<1>2. ASSUME NEW n \in Nat, NEW s \in upto(n + 1), s # {}
      PROVE  s \ {first[s]} \in upto(n) /\ v[first[s]] \in V
  <2>1. first[s] \in s
    BY <1>2 DEF Takes
  <2>2. Cardinality(s \ {first[s]}) = Cardinality(s) - 1
    BY <1>1, <2>1, FS_RemoveElement
  <2> QED BY <1>1, <2>1, <2>2
<1>3. \E g : folds(g, 0)
  <2>1. \A s \in upto(0) : s = {}
    BY <1>1, FS_EmptySet
  <2> DEFINE g == [s \in upto(0) |-> base]
  <2>2. folds(g, 0)
    BY <2>1
  <2> QED BY <2>2
<1>4. ASSUME NEW n \in Nat, NEW g, folds(g, n) PROVE \E h : folds(h, n + 1)
  <2> DEFINE h == [s \in upto(n + 1) |-> next(g, s)]
  <2>1. upto(n) \subseteq upto(n + 1)
    BY <1>1
  <2>2. \A s \in upto(n) : h[s] = g[s]
    BY <1>4, <2>1
  <2>3. ASSUME NEW s \in upto(n + 1) PROVE h[s] \in W /\ h[s] = next(h, s)
    <3>1. CASE s = {}
      BY <3>1
    <3>2. CASE s # {}
      <4>1. s \ {first[s]} \in upto(n) /\ v[first[s]] \in V
        BY <1>2, <3>2
      <4>2. h[s \ {first[s]}] = g[s \ {first[s]}] /\ g[s \ {first[s]}] \in W
        BY <1>4, <2>2, <4>1
      <4>3. op[v[first[s]]][g[s \ {first[s]}]] \in W
        BY <4>1, <4>2
      <4> QED BY <3>2, <4>2, <4>3
    <3> QED BY <3>1, <3>2
  <2> HIDE DEF next
  <2>4. folds(h, n + 1)
    BY <2>3
  <2> QED BY <2>4
<1>5. B = {}
  <2> SUFFICES ASSUME B # {} PROVE FALSE
    OBVIOUS
  <2>1. PICK m \in B : \A k \in B : m <= k
    BY LeastNatural
  <2> HIDE DEF folds
  <2>2. m \in Nat /\ m # 0 /\ m - 1 \in Nat /\ m - 1 \notin B
    BY <1>3, <2>1
  <2>3. PICK g : folds(g, m - 1)
    BY <2>2
  <2>4. \E h : folds(h, (m - 1) + 1)
    BY <1>4, <2>2, <2>3
  <2>5. (m - 1) + 1 = m
    BY <2>2
  <2> QED BY <2>1, <2>4, <2>5
<1>6. PICK g : folds(g, Cardinality(S))
  <2> HIDE DEF folds
  <2> QED BY <1>1, <1>5
<1>7. upto(Cardinality(S)) = SUBSET S
  BY <1>1, FS_Subset
<1>8. Folding(g, base, op, v, first, S)
  BY <1>6, <1>7 DEF Folding
<1> QED BY <1>6, <1>7, <1>8

-----------------------------------------------------------------------------
(* Sums.  In which order they are taken does not matter.                   *)

Pick(s) == CHOOSE x \in s : TRUE

SumsUp(g, v, S) ==
    g = [s \in SUBSET S |-> IF s = {} THEN 0 ELSE v[Pick(s)] + g[s \ {Pick(s)}]]

LEMMA PickIsElement ==
    ASSUME NEW s, s # {}
    PROVE  Pick(s) \in s
BY DEF Pick

LEMMA SumsExist ==
    ASSUME NEW S, IsFiniteSet(S), NEW v \in [S -> Nat]
    PROVE  \E g \in [SUBSET S -> Nat] : SumsUp(g, v, S)
<1> DEFINE plus == [m \in Nat |-> [n \in Nat |-> m + n]]
           first == [s \in SUBSET S |-> Pick(s)]
<1>1. plus \in [Nat -> [Nat -> Nat]] /\ \A m, n \in Nat : plus[m][n] = m + n
  OBVIOUS
<1>2. Takes(first, S) /\ \A s \in SUBSET S : first[s] = Pick(s)
  BY PickIsElement DEF Takes
<1> HIDE DEF plus, first
<1>3. PICK g \in [SUBSET S -> Nat] : Folding(g, 0, plus, v, first, S)
  BY <1>1, <1>2, FoldsExist
<1>4. \A s \in SUBSET S : s # {} => /\ v[Pick(s)] \in Nat
                                     /\ s \ {Pick(s)} \in SUBSET S
  BY PickIsElement
<1>5. \A s \in SUBSET S :
        g[s] = IF s = {} THEN 0 ELSE v[Pick(s)] + g[s \ {Pick(s)}]
  <2> SUFFICES ASSUME NEW s \in SUBSET S
               PROVE  g[s] = IF s = {} THEN 0 ELSE v[Pick(s)] + g[s \ {Pick(s)}]
    OBVIOUS
  <2>1. g[s] = IF s = {} THEN 0 ELSE plus[v[Pick(s)]][g[s \ {Pick(s)}]]
    BY <1>2, <1>3 DEF Folding
  <2>2. s # {} => g[s \ {Pick(s)}] \in Nat
    BY <1>3, <1>4
  <2> QED BY <1>1, <1>4, <2>1, <2>2
<1>6. SumsUp(g, v, S)
  BY <1>5 DEF SumsUp
<1> QED BY <1>6

(* They are the same for the same set, whatever it is a subset of.         *)
LEMMA SumsAgree ==
    ASSUME NEW S, IsFiniteSet(S), NEW T \in SUBSET S, NEW v, NEW u, NEW g, NEW h,
           SumsUp(g, v, S), SumsUp(h, u, T), \A x \in T : v[x] = u[x]
    PROVE  \A s \in SUBSET T : g[s] = h[s]
<1> DEFINE B == {s \in SUBSET T : g[s] # h[s]}
<1>1. IsFiniteSet(T)
  BY FS_Subset
<1> SUFFICES ASSUME B # {} PROVE FALSE
  OBVIOUS
<1>2. PICK s \in B : \A x \in s : s \ {x} \notin B
  BY <1>1, SmallestSet
<1>3. /\ g[s] = IF s = {} THEN 0 ELSE v[Pick(s)] + g[s \ {Pick(s)}]
      /\ h[s] = IF s = {} THEN 0 ELSE u[Pick(s)] + h[s \ {Pick(s)}]
  BY DEF SumsUp
<1>4. s # {}
  BY <1>3
<1>5. Pick(s) \in s
  BY <1>4, PickIsElement
<1>6. g[s \ {Pick(s)}] = h[s \ {Pick(s)}] /\ v[Pick(s)] = u[Pick(s)]
  BY <1>2, <1>5
<1> QED BY <1>3, <1>6

(* Adding an element to a set adds its value to the sum.                   *)
LEMMA SumsAdd ==
    ASSUME NEW S, IsFiniteSet(S), NEW v \in [S -> Nat], NEW g, SumsUp(g, v, S)
    PROVE  /\ g[{}] = 0 /\ \A s \in SUBSET S : g[s] \in Nat
           /\ \A s \in SUBSET S, x \in S : x \notin s => g[s \cup {x}] = v[x] + g[s]
<1>1. \A s \in SUBSET S : g[s] \in Nat
  <2>1. PICK h \in [SUBSET S -> Nat] : SumsUp(h, v, S)
    BY SumsExist
  <2>2. S \in SUBSET S /\ \A x \in S : v[x] = v[x]
    OBVIOUS
  <2>3. \A s \in SUBSET S : g[s] = h[s]
    BY <2>1, <2>2, SumsAgree
  <2> QED BY <2>1, <2>3
<1>2. \A s \in SUBSET S : g[s] = IF s = {} THEN 0 ELSE v[Pick(s)] + g[s \ {Pick(s)}]
  BY DEF SumsUp
<1> DEFINE B == {s \in SUBSET S : \E x \in s : g[s] # v[x] + g[s \ {x}]}
<1>3. B = {}
  <2> SUFFICES ASSUME B # {} PROVE FALSE
    OBVIOUS
  <2>1. PICK s \in B : \A x \in s : s \ {x} \notin B
    BY SmallestSet
  <2>2. PICK x \in s : g[s] # v[x] + g[s \ {x}]
    OBVIOUS
  <2> DEFINE c == Pick(s)
  <2>3. c \in s /\ g[s] = v[c] + g[s \ {c}]
    BY <1>2, PickIsElement
  <2>4. x # c
    BY <2>2, <2>3
  <2> HIDE DEF c
  <2>5. g[s \ {c}] = v[x] + g[(s \ {c}) \ {x}]
    BY <2>1, <2>3, <2>4
  <2>6. g[s \ {x}] = v[c] + g[(s \ {x}) \ {c}]
    BY <2>1, <2>3, <2>4
  <2>7. (s \ {c}) \ {x} = (s \ {x}) \ {c}
    OBVIOUS
  <2> DEFINE rest == g[(s \ {x}) \ {c}]
  <2>8. v[x] \in Nat /\ v[c] \in Nat /\ rest \in Nat
    BY <1>1, <2>3
  <2>9. g[s] = v[c] + (v[x] + rest) /\ g[s \ {x}] = v[c] + rest
    BY <2>3, <2>5, <2>6, <2>7
  <2> HIDE DEF rest
  <2> QED BY <2>2, <2>8, <2>9
<1>4. ASSUME NEW s \in SUBSET S, NEW x \in S, x \notin s
      PROVE  g[s \cup {x}] = v[x] + g[s]
  <2>1. s \cup {x} \in SUBSET S /\ (s \cup {x}) \ {x} = s
    BY <1>4
  <2> QED BY <1>3, <2>1
<1> QED BY <1>1, <1>2, <1>4
=============================================================================
