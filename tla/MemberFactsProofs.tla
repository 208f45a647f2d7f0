-------------------------- MODULE MemberFactsProofs --------------------------
(* The row that rules are evaluated on, made of any customers and          *)
(* subscriptions of a member that are read in any order: it is of one      *)
(* piece, its sums are right, and the order decides only between equals.   *)
EXTENDS MemberFacts, FiniteSetTheorems, WellFoundedInduction, TLAPS

(* What the folds return.                                                  *)

LEMMA LeastNat ==
  ASSUME NEW T, T \subseteq Nat, T # {}
  PROVE  \E x \in T : \A y \in T : x <= y
  <1>1. PICK x \in T : \A y \in T : ~(<<y, x>> \in OpToRel(<, Nat))
    BY WFMin, NatLessThanWellFounded
  <1>2. \A y \in T : ~(y < x)
    BY <1>1 DEF OpToRel
  <1> QED
    BY <1>2

(* The least of some numbers is one of them.                               *)
LEMMA MinIsLeast ==
  ASSUME NEW T, T \subseteq Nat, T # {}
  PROVE  Min(T) \in T
  BY LeastNat DEF Min

(* Of finitely many rows one has the greatest key, and of those the last:  *)
(* the one that has the fewest rows above it has none.                     *)
LEMMA LastMaxIs ==
  ASSUME NEW S, S \subseteq Nat, IsFiniteSet(S), S # {}, NEW key \in [S -> Nat]
  PROVE  /\ LastMax(key) \in S
         /\ \A j \in S : key[j] <= key[LastMax(key)]
  <1> DEFINE Above(i) == {j \in S : key[j] > key[i] \/ (key[j] = key[i] /\ j > i)}
             Sizes == {Cardinality(Above(i)) : i \in S}
  <1>1. \A i \in S : IsFiniteSet(Above(i)) /\ Cardinality(Above(i)) \in Nat
    <2>1. \A i \in S : Above(i) \in SUBSET S
      OBVIOUS
    <2> QED
      BY <2>1, FS_Subset, FS_CardinalityType
  <1>2. \A i \in S : key[i] \in Nat /\ i \in Nat
    OBVIOUS
  <1>3. PICK least \in Sizes : \A y \in Sizes : least <= y
    <2>1. Sizes \subseteq Nat /\ Sizes # {}
      BY <1>1
    <2> QED
      BY <2>1, LeastNat
  <1>4. PICK i \in S : least = Cardinality(Above(i))
    BY <1>3
  <1>5. \A j \in S : Cardinality(Above(i)) <= Cardinality(Above(j))
    <2> HIDE DEF Above
    <2> QED
      BY <1>3, <1>4
  <1>6. ASSUME NEW j \in Above(i) PROVE FALSE
    <2>0. j \in S /\ (key[j] > key[i] \/ (key[j] = key[i] /\ j > i))
      BY <1>6
    <2>1. Above(j) \subseteq Above(i) /\ j \notin Above(j) /\ j \in S
      <3>1. ASSUME NEW k \in S, key[k] > key[j] \/ (key[k] = key[j] /\ k > j)
            PROVE  key[k] > key[i] \/ (key[k] = key[i] /\ k > i)
        <4>1. /\ key[i] \in Nat /\ key[j] \in Nat /\ key[k] \in Nat
              /\ i \in Nat /\ j \in Nat /\ k \in Nat
          BY <1>2, <2>0
        <4> QED
          BY <2>0, <3>1, <4>1
      <3>2. ~(key[j] > key[j]) /\ ~(j > j)
        BY <1>2, <2>0
      <3> QED
        BY <2>0, <3>1, <3>2
    <2>2. Above(j) # Above(i)
      BY <1>6, <2>1
    <2>3. /\ Cardinality(Above(j)) <= Cardinality(Above(i))
          /\ Cardinality(Above(i)) # Cardinality(Above(j))
      BY <1>1, <2>1, <2>2, FS_Subset
    <2>4. /\ Cardinality(Above(i)) <= Cardinality(Above(j))
          /\ Cardinality(Above(i)) \in Nat /\ Cardinality(Above(j)) \in Nat
      BY <1>1, <1>5, <2>1
    <2> HIDE DEF Above
    <2> QED
      BY <2>3, <2>4
  <1>7. ASSUME NEW j \in S PROVE key[j] < key[i] \/ (key[j] = key[i] /\ j <= i)
    BY <1>2, <1>6
  <1>8. DOMAIN key = S
    OBVIOUS
  <1>9. \A j \in DOMAIN key : \/ key[j] < key[LastMax(key)]
                              \/ key[j] = key[LastMax(key)] /\ j <= LastMax(key)
    BY <1>7, <1>8 DEF LastMax
  <1>10. LastMax(key) \in DOMAIN key
    BY <1>7, <1>8 DEF LastMax
  <1> DEFINE m == LastMax(key)
  <1>11. m \in S /\ key[m] \in Nat
    BY <1>2, <1>8, <1>10
  <1>12. \A j \in S : key[j] < key[m] \/ (key[j] = key[m] /\ j <= m)
    BY <1>8, <1>9
  <1> HIDE DEF m
  <1>13. \A j \in S : key[j] <= key[m]
    BY <1>2, <1>11, <1>12
  <1> QED
    BY <1>11, <1>13 DEF m

-----------------------------------------------------------------------------
(* Sums.                                                                   *)

(* Of some subsets of a finite set one has no other of them inside it: the *)
(* form in which the lemmas on sums use induction.                         *)
LEMMA LeastSubset ==
  ASSUME NEW S, IsFiniteSet(S), NEW B, B \subseteq SUBSET S, B # {}
  PROVE  \E s \in B : \A t \in B : t \subseteq s => t = s
  <1> DEFINE Sizes == {Cardinality(s) : s \in B}
  <1>1. \A s \in B : IsFiniteSet(s) /\ Cardinality(s) \in Nat
    BY FS_Subset, FS_CardinalityType
  <1>2. Sizes \subseteq Nat /\ Sizes # {}
    BY <1>1
  <1>3. PICK least \in Sizes : \A y \in Sizes : least <= y
    <2> HIDE DEF Sizes
    <2> QED
      BY <1>2, LeastNat
  <1>4. PICK s \in B : least = Cardinality(s)
    BY <1>3
  <1>5. ASSUME NEW t \in B, t \subseteq s, t # s PROVE FALSE
    <2>1. Cardinality(t) < Cardinality(s)
      BY <1>1, <1>5, FS_Subset
    <2>2. Cardinality(s) <= Cardinality(t)
      BY <1>3, <1>4
    <2> QED
      BY <1>1, <2>1, <2>2
  <1> QED
    BY <1>5

(* What Total adds up, as the fold of the community module does it.        *)
Some(s) == CHOOSE x \in s : TRUE
IsSum(v, g) ==
    g = [s \in SUBSET DOMAIN v |-> IF s = {} THEN 0 ELSE v[Some(s)] + g[s \ {Some(s)}]]
Sum(v) == CHOOSE g : IsSum(v, g)

LEMMA TotalIsSum == ASSUME NEW v PROVE Total(v) = Sum(v)[DOMAIN v]
  BY DEF Total, MapThenSumSet, MapThenFoldSet, Sum, IsSum, Some

LEMMA SomeIs == ASSUME NEW s, s # {} PROVE Some(s) \in s
  BY DEF Some

(* The recursion has a solution: one for the sets of up to k elements      *)
(* extends to those of k + 1.                                              *)
LEMMA SumExists ==
  ASSUME NEW S, IsFiniteSet(S), NEW v \in [S -> Nat]
  PROVE  \E g \in [SUBSET S -> Nat] : IsSum(v, g)
  <1> DEFINE Up(k) == {s \in SUBSET S : Cardinality(s) <= k}
             Next1(g, s) == IF s = {} THEN 0 ELSE v[Some(s)] + g[s \ {Some(s)}]
             Solves(k, g) == g \in [Up(k) -> Nat] /\ \A s \in Up(k) : g[s] = Next1(g, s)
             Not == {k \in Nat : ~\E g : Solves(k, g)}
  <1>1. \A s \in SUBSET S : IsFiniteSet(s) /\ Cardinality(s) \in Nat
    BY FS_Subset, FS_CardinalityType
  <1>2. ASSUME NEW s \in SUBSET S, s # {}
        PROVE  /\ Some(s) \in s /\ s \ {Some(s)} \in SUBSET S
               /\ Cardinality(s \ {Some(s)}) = Cardinality(s) - 1
               /\ Cardinality(s) # 0
    <2>1. Some(s) \in s
      BY <1>2, SomeIs
    <2> QED
      BY <1>1, <1>2, <2>1, FS_RemoveElement, FS_EmptySet
  <1>3. \E g : Solves(0, g)
    <2> DEFINE g0 == [s \in Up(0) |-> 0]
    <2>1. ASSUME NEW s \in Up(0) PROVE s = {}
      <3>1. s \in SUBSET S /\ Cardinality(s) <= 0 /\ Cardinality(s) \in Nat
        BY <1>1
      <3>2. Cardinality(s) = 0
        BY <3>1
      <3> QED
        BY <1>2, <3>1, <3>2
    <2>2. Solves(0, g0)
      BY <2>1
    <2> QED
      BY <2>2
  <1>4. ASSUME NEW k \in Nat, NEW g, Solves(k, g) PROVE \E h : Solves(k + 1, h)
    <2> DEFINE h == [s \in Up(k + 1) |-> IF s \in Up(k) THEN g[s] ELSE v[Some(s)] + g[s \ {Some(s)}]]
    <2>1. ASSUME NEW s \in Up(k + 1), s # {}
          PROVE  s \ {Some(s)} \in Up(k) /\ s \ {Some(s)} \in Up(k + 1) /\ v[Some(s)] \in Nat
      <3>1. s \in SUBSET S /\ Cardinality(s) <= k + 1 /\ Cardinality(s) \in Nat
        BY <1>1
      <3>2. s \ {Some(s)} \in SUBSET S /\ Cardinality(s \ {Some(s)}) = Cardinality(s) - 1 /\ Some(s) \in S
        BY <1>2, <2>1, <3>1
      <3> QED
        BY <3>1, <3>2
    <2>2. {} \in Up(k)
      BY FS_EmptySet
    <2>3. \A s \in Up(k) : s \in Up(k + 1) /\ g[s] \in Nat /\ g[s] = Next1(g, s)
      <3>1. \A s \in Up(k) : s \in Up(k + 1)
        BY <1>1
      <3> HIDE DEF Up
      <3> QED
        BY <1>4, <3>1
    <2> HIDE DEF Up
    <2>4. ASSUME NEW s \in Up(k + 1) PROVE h[s] \in Nat
      <3>1. CASE s \in Up(k)
        BY <2>3, <3>1
      <3>2. CASE s \notin Up(k)
        <4>1. v[Some(s)] \in Nat /\ g[s \ {Some(s)}] \in Nat
          BY <2>1, <2>2, <2>3, <3>2
        <4> QED
          BY <3>2, <4>1
      <3> QED
        BY <3>1, <3>2
    <2>5. ASSUME NEW s \in Up(k + 1) PROVE h[s] = Next1(h, s)
      <3>1. CASE s = {}
        BY <3>1, <2>2, <2>3
      <3>2. CASE s # {}
        <4>1. h[s \ {Some(s)}] = g[s \ {Some(s)}]
          BY <2>1, <3>2
        <4>2. h[s] = Next1(g, s)
          <5>1. CASE s \in Up(k)
            <6>1. h[s] = g[s]
              BY <5>1
            <6> QED
              BY <2>3, <5>1, <6>1
          <5>2. CASE s \notin Up(k)
            BY <3>2, <5>2
          <5> QED
            BY <5>1, <5>2
        <4> QED
          BY <3>2, <4>1, <4>2
      <3> QED
        BY <3>1, <3>2
    <2>6. Solves(k + 1, h)
      BY <2>4, <2>5
    <2> QED
      BY <2>6
  <1>5. Not = {}
    <2> SUFFICES ASSUME Not # {} PROVE FALSE
      OBVIOUS
    <2> HIDE DEF Solves
    <2>1. PICK k \in Not : \A j \in Not : k <= j
      BY LeastNat
    <2>2. k \in Nat /\ k # 0
      BY <1>3, <2>1
    <2>3. k - 1 \in Nat /\ k - 1 \notin Not /\ (k - 1) + 1 = k
      BY <2>1, <2>2
    <2>4. PICK g : Solves(k - 1, g)
      BY <2>3
    <2>5. \E h : Solves((k - 1) + 1, h)
      BY <1>4, <2>3, <2>4
    <2> QED
      BY <2>1, <2>3, <2>5
  <1>6. Cardinality(S) \in Nat /\ Up(Cardinality(S)) = SUBSET S
    BY FS_Subset, FS_CardinalityType
  <1>7. PICK g : Solves(Cardinality(S), g)
    <2> HIDE DEF Solves
    <2> QED
      BY <1>5, <1>6
  <1>8. g \in [SUBSET S -> Nat] /\ \A s \in SUBSET S : g[s] = Next1(g, s)
    BY <1>6, <1>7
  <1>9. g = [s \in SUBSET S |-> Next1(g, s)]
    <2> HIDE DEF Next1
    <2> QED
      BY <1>8
  <1> QED
    BY <1>8, <1>9 DEF IsSum

(* It is the only one, in the numbers.                                     *)
LEMMA SumIs ==
  ASSUME NEW S, IsFiniteSet(S), NEW v \in [S -> Nat]
  PROVE  /\ Sum(v) \in [SUBSET S -> Nat] /\ Sum(v)[{}] = 0
         /\ \A s \in SUBSET S : s # {} =>
              /\ Some(s) \in s
              /\ Sum(v)[s] = v[Some(s)] + Sum(v)[s \ {Some(s)}]
  <1>1. IsSum(v, Sum(v))
    BY SumExists DEF Sum
  <1> DEFINE F == Sum(v)
  <1> HIDE DEF F
  <1>2. F = [s \in SUBSET S |-> IF s = {} THEN 0 ELSE v[Some(s)] + F[s \ {Some(s)}]]
    BY <1>1 DEF IsSum, F
  <1>3. /\ DOMAIN F = SUBSET S
        /\ \A s \in SUBSET S : F[s] = IF s = {} THEN 0 ELSE v[Some(s)] + F[s \ {Some(s)}]
    BY <1>2
  <1>4. \A s \in SUBSET S : F[s] \in Nat
    <2> DEFINE B == {s \in SUBSET S : F[s] \notin Nat}
    <2> SUFFICES ASSUME B # {} PROVE FALSE
      OBVIOUS
    <2>0. B \subseteq SUBSET S /\ \A s \in SUBSET S : s \in B <=> F[s] \notin Nat
      OBVIOUS
    <2> HIDE DEF B
    <2>1. PICK s \in B : \A t \in B : t \subseteq s => t = s
      BY <2>0, LeastSubset
    <2>2. s \in SUBSET S /\ F[s] \notin Nat /\ s # {}
      <3>1. F[{}] = 0
        BY <1>3
      <3>2. s \in SUBSET S /\ F[s] \notin Nat
        BY <2>0, <2>1
      <3>3. 0 \in Nat
        OBVIOUS
      <3> QED
        BY <3>1, <3>2, <3>3, Zenon
    <2>3. Some(s) \in s /\ v[Some(s)] \in Nat
      BY <2>2, SomeIs
    <2>4. F[s \ {Some(s)}] \in Nat
      <3>1. s \ {Some(s)} \in SUBSET S /\ s \ {Some(s)} # s /\ s \ {Some(s)} \subseteq s
        BY <2>2, <2>3
      <3> QED
        BY <2>0, <2>1, <3>1
    <2> QED
      BY <1>3, <2>2, <2>3, <2>4
  <1>5. F \in [SUBSET S -> Nat]
    BY <1>2, <1>4
  <1> QED
    BY <1>3, <1>5, SomeIs DEF F

(* Whichever element is taken out.                                         *)
LEMMA SumWithout ==
  ASSUME NEW S, IsFiniteSet(S), NEW v \in [S -> Nat], NEW s \in SUBSET S, NEW y \in s
  PROVE  Sum(v)[s] = v[y] + Sum(v)[s \ {y}]
  <1> DEFINE F == Sum(v)
             B == {t \in SUBSET S : \E z \in t : F[t] # v[z] + F[t \ {z}]}
  <1>1. /\ \A t \in SUBSET S : F[t] \in Nat
        /\ \A t \in SUBSET S : t # {} => Some(t) \in t /\ F[t] = v[Some(t)] + F[t \ {Some(t)}]
    <2>1. /\ Sum(v) \in [SUBSET S -> Nat] /\ Sum(v)[{}] = 0
          /\ \A t \in SUBSET S : t # {} =>
               /\ Some(t) \in t
               /\ Sum(v)[t] = v[Some(t)] + Sum(v)[t \ {Some(t)}]
      BY SumIs, ZenonT(40)
    <2> QED
      BY <2>1
  <1>3. /\ B \subseteq SUBSET S
        /\ \A t \in SUBSET S : t \in B <=> \E z \in t : F[t] # v[z] + F[t \ {z}]
    OBVIOUS
  <1> HIDE DEF F, B
  <1>2. ASSUME B # {} PROVE FALSE
    <2>1. PICK t \in B : \A u \in B : u \subseteq t => u = t
      BY <1>2, <1>3, LeastSubset
    <2>2. t \in SUBSET S /\ \E z \in t : F[t] # v[z] + F[t \ {z}]
      BY <1>3, <2>1
    <2>20. PICK z \in t : F[t] # v[z] + F[t \ {z}]
      BY <2>2
    <2> DEFINE x == Some(t)
    <2>3. x \in t /\ F[t] = v[x] + F[t \ {x}]
      BY <1>1, <2>2
    <2>4. x # z
      BY <2>20, <2>3
    <2> HIDE DEF x
    <2>5. F[t \ {x}] = v[z] + F[(t \ {x}) \ {z}]
      <3>1. t \ {x} \in SUBSET S /\ t \ {x} \notin B /\ z \in t \ {x}
        BY <2>1, <2>2, <2>3, <2>4
      <3> QED
        BY <1>3, <3>1
    <2>6. F[t \ {z}] = v[x] + F[(t \ {z}) \ {x}]
      <3>1. t \ {z} \in SUBSET S /\ t \ {z} \notin B /\ x \in t \ {z}
        BY <2>1, <2>2, <2>3, <2>4
      <3> QED
        BY <1>3, <3>1
    <2>7. (t \ {x}) \ {z} = (t \ {z}) \ {x} /\ (t \ {x}) \ {z} \in SUBSET S
      BY <2>2
    <2>8. v[x] \in Nat /\ v[z] \in Nat /\ F[(t \ {x}) \ {z}] \in Nat
      BY <1>1, <2>2, <2>3, <2>7
    <2>9. F[t] = v[x] + (v[z] + F[(t \ {x}) \ {z}]) /\ F[t \ {z}] = v[x] + F[(t \ {x}) \ {z}]
      BY <2>3, <2>5, <2>6, <2>7
    <2>10. F[t] = v[z] + F[t \ {z}]
      BY <2>8, <2>9
    <2> QED
      BY <2>20, <2>10
  <1> QED
    BY <1>2, <1>3 DEF F

(* The same numbers under other names have the same sum.                   *)
LEMMA SumRenamed ==
  ASSUME NEW S, IsFiniteSet(S), NEW v \in [S -> Nat],
         NEW T, IsFiniteSet(T), NEW w \in [T -> Nat],
         NEW p \in Bijection(S, T), \A i \in S : w[p[i]] = v[i]
  PROVE  Total(v) = Total(w)
  <1> DEFINE F == Sum(v)
             G == Sum(w)
             At(s) == {p[i] : i \in s}
             B == {s \in SUBSET S : F[s] # G[At(s)]}
  <1>1. /\ \A i \in S : p[i] \in T
        /\ \A i, j \in S : p[i] = p[j] => i = j
        /\ \A x \in T : \E i \in S : p[i] = x
    BY DEF Bijection, Injection, Surjection, IsInjective
  <1>2. /\ F[{}] = 0 /\ G[{}] = 0
        /\ \A s \in SUBSET S : \A y \in s : F[s] = v[y] + F[s \ {y}]
        /\ \A t \in SUBSET T : \A y \in t : G[t] = w[y] + G[t \ {y}]
    <2>1. ASSUME NEW s \in SUBSET S, NEW y \in s
          PROVE  Sum(v)[s] = v[y] + Sum(v)[s \ {y}]
      BY SumWithout
    <2>2. ASSUME NEW t \in SUBSET T, NEW y \in t
          PROVE  Sum(w)[t] = w[y] + Sum(w)[t \ {y}]
      BY SumWithout
    <2>3. Sum(v)[{}] = 0
      BY SumIs
    <2>4. Sum(w)[{}] = 0
      BY SumIs
    <2> QED
      BY <2>1, <2>2, <2>3, <2>4
  <1>3. B \subseteq SUBSET S /\ \A s \in SUBSET S : s \in B <=> F[s] # G[At(s)]
    OBVIOUS
  <1> HIDE DEF F, G, B
  <1>4. ASSUME B # {} PROVE FALSE
    <2>1. PICK s \in B : \A t \in B : t \subseteq s => t = s
      BY <1>3, <1>4, LeastSubset
    <2>2. s \in SUBSET S /\ F[s] # G[At(s)]
      BY <1>3, <2>1
    <2>3. At({}) = {}
      OBVIOUS
    <2>4. PICK y \in s : TRUE
      BY <1>2, <2>2, <2>3
    <2>5. s \ {y} \in SUBSET S /\ s \ {y} \notin B
      BY <2>1, <2>2
    <2>6. At(s) \in SUBSET T /\ p[y] \in At(s) /\ At(s) \ {p[y]} = At(s \ {y})
      BY <1>1, <2>2
    <2>7. F[s \ {y}] = G[At(s) \ {p[y]}]
      BY <1>3, <2>5, <2>6
    <2> HIDE DEF At
    <2>8. F[s] = v[y] + F[s \ {y}] /\ G[At(s)] = w[p[y]] + G[At(s) \ {p[y]}]
      BY <1>2, <2>2, <2>6
    <2> QED
      BY <2>2, <2>7, <2>8
  <1>5. F[S] = G[At(S)]
    BY <1>3, <1>4
  <1>6. At(S) = T
    BY <1>1
  <1>7. DOMAIN v = S /\ DOMAIN w = T
    OBVIOUS
  <1> QED
    BY <1>5, <1>6, <1>7, TotalIsSum DEF F, G

(* If every number times k is another, to within d, then so is their sum,  *)
(* to within d for each of them.                                           *)
LEMMA SumWithin ==
  ASSUME NEW S, IsFiniteSet(S), NEW v \in [S -> Nat], NEW w \in [S -> Nat],
         NEW k \in Nat, NEW d \in Nat,
         \A i \in S : k * v[i] - w[i] <= d /\ w[i] - k * v[i] <= d
  PROVE  k * Total(v) - Total(w) \in -(d * Cardinality(S)) .. d * Cardinality(S)
  <1> DEFINE F == Sum(v)
             G == Sum(w)
             Near(a, b, n) == k * a - b <= d * n /\ b - k * a <= d * n
             B == {s \in SUBSET S : ~Near(F[s], G[s], Cardinality(s))}
  <1>1. /\ F[{}] = 0 /\ G[{}] = 0
        /\ \A s \in SUBSET S : F[s] \in Nat /\ G[s] \in Nat
        /\ \A s \in SUBSET S : \A y \in s : F[s] = v[y] + F[s \ {y}] /\ G[s] = w[y] + G[s \ {y}]
    <2>1. ASSUME NEW s \in SUBSET S, NEW y \in s
          PROVE  Sum(v)[s] = v[y] + Sum(v)[s \ {y}]
      BY SumWithout
    <2>2. ASSUME NEW s \in SUBSET S, NEW y \in s
          PROVE  Sum(w)[s] = w[y] + Sum(w)[s \ {y}]
      BY SumWithout
    <2>3. Sum(v)[{}] = 0 /\ Sum(v) \in [SUBSET S -> Nat]
      BY SumIs
    <2>4. Sum(w)[{}] = 0 /\ Sum(w) \in [SUBSET S -> Nat]
      BY SumIs
    <2>5. \A s \in SUBSET S : Sum(v)[s] \in Nat /\ Sum(w)[s] \in Nat
      BY <2>3, <2>4
    <2> QED
      BY <2>1, <2>2, <2>3, <2>4, <2>5
  <1>2. \A s \in SUBSET S : IsFiniteSet(s) /\ Cardinality(s) \in Nat
    BY FS_Subset, FS_CardinalityType
  <1>3. /\ B \subseteq SUBSET S
        /\ \A s \in SUBSET S : s \in B <=> ~Near(F[s], G[s], Cardinality(s))
    OBVIOUS
  <1> HIDE DEF F, G, B
  <1>4. Near(0, 0, 0)
    OBVIOUS
  <1>5. ASSUME NEW a \in Nat, NEW b \in Nat, NEW x \in Nat, NEW y \in Nat, NEW n \in Nat,
               Near(a, b, n), k * x - y <= d, y - k * x <= d
        PROVE  Near(x + a, y + b, n + 1)
    <2>1. k * (x + a) = k * x + k * a /\ d * (n + 1) = d * n + d
      OBVIOUS
    <2>2. k * x \in Nat /\ k * a \in Nat /\ d * n \in Nat
      OBVIOUS
    <2> QED
      BY <1>5, <2>1, <2>2
  <1> HIDE DEF Near
  <1>6. ASSUME B # {} PROVE FALSE
    <2>1. PICK s \in B : \A t \in B : t \subseteq s => t = s
      BY <1>3, <1>6, LeastSubset
    <2>2. s \in SUBSET S /\ ~Near(F[s], G[s], Cardinality(s))
      BY <1>3, <2>1
    <2>3. s # {}
      BY <1>1, <1>4, <2>2, FS_EmptySet
    <2>4. PICK y \in s : TRUE
      BY <2>3
    <2>5. s \ {y} \in SUBSET S /\ s \ {y} \notin B
      BY <2>1, <2>2
    <2>6. Near(F[s \ {y}], G[s \ {y}], Cardinality(s \ {y}))
      BY <1>3, <2>5
    <2>7. Cardinality(s \ {y}) \in Nat /\ Cardinality(s) = Cardinality(s \ {y}) + 1
      BY <1>2, <2>2, <2>5, FS_RemoveElement
    <2>8. v[y] \in Nat /\ w[y] \in Nat /\ k * v[y] - w[y] <= d /\ w[y] - k * v[y] <= d
      BY <2>2
    <2>9. F[s] = v[y] + F[s \ {y}] /\ G[s] = w[y] + G[s \ {y}]
      BY <1>1, <2>2
    <2>10. Near(v[y] + F[s \ {y}], w[y] + G[s \ {y}], Cardinality(s \ {y}) + 1)
      BY <1>1, <1>5, <2>5, <2>6, <2>7, <2>8
    <2> QED
      BY <2>2, <2>7, <2>9, <2>10
  <1>7. Near(F[S], G[S], Cardinality(S)) /\ F[S] \in Nat /\ G[S] \in Nat
    BY <1>1, <1>3, <1>6
  <1>8. Total(v) = F[S] /\ Total(w) = G[S]
    <2>1. DOMAIN v = S /\ DOMAIN w = S
      OBVIOUS
    <2> QED
      BY <2>1, TotalIsSum DEF F, G
  <1>9. \A a, b, c \in Nat : c \in Nat /\ a - b <= c /\ b - a <= c => a - b \in -c .. c
    OBVIOUS
  <1>10. k * F[S] \in Nat /\ d * Cardinality(S) \in Nat
    <2>1. \A x, y \in Nat : x * y \in Nat
      OBVIOUS
    <2> QED
      BY <1>2, <1>7, <2>1
  <1> QED
    BY <1>7, <1>8, <1>9, <1>10 DEF Near

-----------------------------------------------------------------------------
(* A list of subscription rows, as a SELECT returns it.                    *)
IsList(n, ss) ==
    /\ n \in Nat /\ DOMAIN ss = 1..n
    /\ \A i \in 1..n : ss[i].status \in Status /\ ss[i].start \in Nat

LEMMA RankIs ==
  ASSUME NEW s \in Status
  PROVE  /\ Rank(s) \in 0..7
         /\ IsActive(s) <=> Rank(s) >= 6
         /\ s = "past_due" <=> Rank(s) = 5
  BY DEF Rank, Status, IsActive

(* The headline status is that of a row that none outranks.                *)
LEMMA BestStatus ==
  ASSUME NEW a, IsFiniteSet(DOMAIN a), DOMAIN a \subseteq Nat, DOMAIN a # {},
         \A i \in DOMAIN a : a[i].status \in Status
  PROVE  \E m \in DOMAIN a :
           /\ StatusOf(a) = a[m].status
           /\ \A i \in DOMAIN a : Rank(a[i].status) <= Rank(a[m].status)
  <1> DEFINE key == [i \in DOMAIN a |-> Rank(a[i].status)]
  <1>1. key \in [DOMAIN a -> Nat]
    BY RankIs
  <1>2. LastMax(key) \in DOMAIN a /\ \A j \in DOMAIN a : key[j] <= key[LastMax(key)]
    <2> HIDE DEF key
    <2> QED
      BY <1>1, LastMaxIs
  <1>3. StatusOf(a) = a[LastMax(key)].status
    BY DEF StatusOf
  <1> QED
    BY <1>2, <1>3

-----------------------------------------------------------------------------
(* Whatever the lists are, the tests on the row made from them agree.      *)
Agrees(f) ==
    /\ f.active <=> f.status # None /\ IsActive(f.status)
    /\ f.active <=> f.count > 0
    /\ f.trialing => f.active
    /\ f.status = "trialing" => f.trialing
    /\ f.status = "past_due" => f.pastDue /\ ~f.active
    /\ f.pastDue /\ ~f.active => f.status = "past_due"
    /\ f.cancels \/ f.plan > 0 \/ f.interval # None \/ f.products # {} => f.active
    /\ f.active <=> f.started # None

LEMMA AggregateAgrees ==
  ASSUME NEW cs, NEW ss, NEW n, IsList(n, ss)
  PROVE  Agrees(Aggregate(cs, ss))
  <1> DEFINE f == Aggregate(cs, ss)
             act == Actives(ss)
  <1>1. /\ f.active = (act # {}) /\ f.status = StatusOf(ss) /\ f.count = Cardinality(act)
        /\ f.trialing = (\E i \in DOMAIN ss : ss[i].status = "trialing")
        /\ f.pastDue = (\E i \in DOMAIN ss : ss[i].status = "past_due")
    BY DEF Aggregate
  <1>2. /\ f.cancels = (\E i \in act : ss[i].cancels)
        /\ f.plan = IF act = {} THEN 0 ELSE Charge(Primary(ss))
        /\ f.interval = IF act = {} THEN None ELSE Primary(ss).interval
        /\ f.started = IF act = {} THEN None ELSE Min({ss[i].start : i \in act})
        /\ f.products = {ss[i].product : i \in act} \ {None}
    BY DEF Aggregate
  <1>3. DOMAIN ss = 1..n /\ n \in Nat /\ act \subseteq 1..n
    BY DEF IsList, Actives
  <1>4. \A i \in 1..n : ss[i].status \in Status /\ ss[i].start \in Nat
    BY DEF IsList
  <1>5. \A i \in 1..n : i \in act <=> IsActive(ss[i].status)
    BY <1>3 DEF Actives
  <1> HIDE DEF f, act
  <1>6. f.active <=> f.count > 0
    <2>1. IsFiniteSet(act) /\ Cardinality(act) \in Nat
      <3>1. IsFiniteSet(1..n)
        BY <1>3, FS_Interval
      <3>2. IsFiniteSet(act)
        BY <1>3, <3>1, FS_Subset
      <3> QED
        BY <3>2, FS_CardinalityType
    <2>2. Cardinality(act) = 0 <=> act = {}
      BY <2>1, FS_EmptySet
    <2>3. Cardinality(act) > 0 <=> act # {}
      BY <2>1, <2>2
    <2> QED
      BY <1>1, <2>3
  <1>7. f.active <=> f.started # None
    <2>1. CASE act = {}
      BY <2>1, <1>1, <1>2
    <2>2. CASE act # {}
      <3> DEFINE T == {ss[i].start : i \in act}
      <3>1. T \subseteq Nat /\ T # {}
        BY <2>2, <1>3, <1>4
      <3>2. Min(T) \in Nat
        BY <3>1, MinIsLeast
      <3> QED
        BY <2>2, <3>2, <1>1, <1>2, MemberFactsAssumption
    <2> QED
      BY <2>1, <2>2
  <1>8. f.cancels \/ f.plan > 0 \/ f.interval # None \/ f.products # {} => f.active
    <2>1. ASSUME act = {} PROVE ~f.cancels /\ f.plan = 0 /\ f.interval = None /\ f.products = {}
      BY <2>1, <1>2
    <2>2. ~(0 > 0)
      OBVIOUS
    <2> QED
      BY <2>1, <2>2, <1>1
  <1>9. f.trialing => f.active
    BY <1>1, <1>3, <1>5 DEF IsActive
  <1>10. /\ f.active <=> f.status # None /\ IsActive(f.status)
         /\ f.status = "trialing" => f.trialing
         /\ f.status = "past_due" => f.pastDue /\ ~f.active
         /\ f.pastDue /\ ~f.active => f.status = "past_due"
    <2>1. CASE n = 0
      <3>1. DOMAIN ss = {} /\ act = {}
        BY <2>1, <1>3
      <3>2. StatusOf(ss) = None /\ None # "trialing" /\ None # "past_due"
        BY <3>1, MemberFactsAssumption DEF StatusOf, Status
      <3> QED
        BY <3>1, <3>2, <1>1
    <2>2. CASE n # 0
      <3>0. IsFiniteSet(DOMAIN ss) /\ DOMAIN ss \subseteq Nat /\ DOMAIN ss # {}
        <4>1. n \in Nat /\ n >= 1 /\ DOMAIN ss = 1..n
          BY <2>2, <1>3
        <4>2. IsFiniteSet(1..n)
          BY <4>1, FS_Interval
        <4>3. 1..n \subseteq Nat /\ 1 \in 1..n
          BY <4>1
        <4> QED
          BY <4>1, <4>2, <4>3
      <3>1. PICK m \in 1..n : /\ StatusOf(ss) = ss[m].status
                              /\ \A i \in 1..n : Rank(ss[i].status) <= Rank(ss[m].status)
        BY <3>0, <1>3, <1>4, BestStatus
      <3>2. f.status = ss[m].status /\ ss[m].status \in Status /\ ss[m].status # None
        BY <3>1, <1>1, <1>4, MemberFactsAssumption
      <3>3. ASSUME NEW i \in act PROVE IsActive(ss[m].status)
        <4>1. i \in 1..n /\ Rank(ss[i].status) >= 6 /\ Rank(ss[i].status) \in 0..7
          BY <1>3, <1>4, <1>5, RankIs
        <4>2. Rank(ss[m].status) >= 6
          BY <4>1, <3>1, <3>2, RankIs
        <4> QED
          BY <4>2, <3>2, RankIs
      <3>4. act # {} <=> IsActive(ss[m].status)
        BY <3>3, <1>5
      <3>5. ASSUME NEW i \in 1..n, ss[i].status = "past_due", ~IsActive(ss[m].status)
            PROVE  ss[m].status = "past_due"
        <4>1. Rank(ss[i].status) = 5
          BY <3>5, <1>4, RankIs
        <4>2. /\ Rank(ss[m].status) \in 0..7
              /\ ~(Rank(ss[m].status) >= 6) /\ Rank(ss[m].status) >= 5
          BY <4>1, <3>1, <3>2, <3>5, RankIs
        <4>3. Rank(ss[m].status) = 5
          BY <4>2
        <4> QED
          BY <4>3, <3>2, RankIs
      <3>6. ~IsActive("past_due")
        BY DEF IsActive
      <3>7. f.active <=> IsActive(f.status)
        BY <3>2, <3>4, <1>1
      <3>8. f.status = "trialing" => f.trialing
        BY <3>2, <1>1, <1>3
      <3>9. f.status = "past_due" => f.pastDue
        BY <3>2, <1>1, <1>3
      <3>10. f.pastDue /\ ~f.active => f.status = "past_due"
        BY <3>2, <3>5, <3>7, <1>1, <1>3
      <3> QED
        BY <3>2, <3>6, <3>7, <3>8, <3>9, <3>10
    <2> QED
      BY <2>1, <2>2, <1>3
  <1> QED
    BY <1>6, <1>7, <1>8, <1>9, <1>10 DEF Agrees, f

LEMMA NoFactsAgree == Agrees(NoFacts)
  <1>1. None # "trialing" /\ None # "past_due"
    BY MemberFactsAssumption DEF Status
  <1> QED
    BY <1>1 DEF Agrees, NoFacts

-----------------------------------------------------------------------------
(* The rows a recompute reads are Stripe's.                                *)

RowsOK ==
    /\ IsFiniteSet(DOMAIN subs) /\ DOMAIN subs \subseteq SubId
    /\ \A s \in DOMAIN subs : subs[s].status \in Status /\ subs[s].start \in Nat

FactsInv == RowsOK /\ TestsAgree

LEMMA SubRowIsTyped ==
  ASSUME NEW o \in Subscription
  PROVE  SubRow(o).status \in Status /\ SubRow(o).start \in Nat
  BY MemberFactsAssumption DEF SubRow

LEMMA ListingIsList ==
  ASSUME RowsOK, NEW ss \in Listings(subs)
  PROVE  \E n : IsList(n, ss)
  <1> DEFINE n == Cardinality(DOMAIN subs)
  <1>1. n \in Nat
    BY FS_CardinalityType DEF RowsOK
  <1>2. PICK p \in [1..n -> DOMAIN subs] : ss = [i \in 1..n |-> subs[p[i]]]
    BY DEF Listings
  <1>3. DOMAIN ss = 1..n /\ \A i \in 1..n : ss[i] = subs[p[i]] /\ p[i] \in DOMAIN subs
    BY <1>2
  <1>4. \A i \in 1..n : ss[i].status \in Status /\ ss[i].start \in Nat
    BY <1>3 DEF RowsOK
  <1>5. IsList(n, ss)
    BY <1>1, <1>3, <1>4 DEF IsList
  <1> QED
    BY <1>5

LEMMA Agreed == TestsAgree <=> Agrees(facts)
  BY DEF TestsAgree, Agrees

LEMMA FactsInit == Init => FactsInv
  <1> SUFFICES ASSUME Init PROVE FactsInv
    OBVIOUS
  <1>1. DOMAIN subs = {}
    BY DEF Init
  <1>2. RowsOK
    BY <1>1, FS_EmptySet DEF RowsOK
  <1>3. TestsAgree
    BY NoFactsAgree, Agreed DEF Init
  <1> QED
    BY <1>2, <1>3 DEF FactsInv

LEMMA FactsStep == FactsInv /\ [Next]_vars => FactsInv'
  <1> SUFFICES ASSUME FactsInv, [Next]_vars PROVE FactsInv'
    OBVIOUS
  <1> USE DEF FactsInv
  <1>1. ASSUME UNCHANGED <<subs, facts>> PROVE FactsInv'
    BY <1>1 DEF RowsOK, TestsAgree
  <1>2. ASSUME NEW id \in CustomerId, NEW row \in CustomerRow, WriteCustomer(id, row)
        PROVE FactsInv'
    BY <1>2, <1>1 DEF WriteCustomer
  <1>3. ASSUME NEW id \in DOMAIN customers, LoseCustomer(id) PROVE FactsInv'
    BY <1>3, <1>1 DEF LoseCustomer
  <1>4. ASSUME NEW id \in SubId, NEW o \in Subscription, WriteSub(id, o) PROVE FactsInv'
    <2>1. DOMAIN subs' = DOMAIN subs \cup {id}
      BY <1>4 DEF WriteSub, With
    <2>2. IsFiniteSet(DOMAIN subs') /\ DOMAIN subs' \subseteq SubId
      BY <2>1, FS_AddElement DEF RowsOK
    <2>3. \A s \in DOMAIN subs' : subs'[s].status \in Status /\ subs'[s].start \in Nat
      BY <1>4, <2>1, SubRowIsTyped DEF WriteSub, With,
         RowsOK
    <2> QED
      BY <1>4, <2>2, <2>3 DEF WriteSub, RowsOK, TestsAgree
  <1>5. ASSUME NEW id \in DOMAIN subs, LoseSub(id) PROVE FactsInv'
    <2>1. DOMAIN subs' = DOMAIN subs \ {id} /\ \A s \in DOMAIN subs' : subs'[s] = subs[s]
      BY <1>5 DEF LoseSub, Without
    <2>2. IsFiniteSet(DOMAIN subs')
      BY <2>1, FS_Subset DEF RowsOK
    <2> QED
      BY <1>5, <2>1, <2>2 DEF LoseSub, RowsOK, TestsAgree
  <1>6. ASSUME Recompute PROVE FactsInv'
    <2>1. PICK cs \in Listings(customers), ss \in Listings(subs) :
            facts' = IF cs = <<>> /\ ss = <<>> THEN NoFacts ELSE Aggregate(cs, ss)
      BY <1>6 DEF Recompute
    <2>2. Agrees(Aggregate(cs, ss))
      BY ListingIsList, AggregateAgrees
    <2>3. Agrees(facts')
      BY <2>1, <2>2, NoFactsAgree
    <2>4. TestsAgree'
      BY <2>3 DEF TestsAgree, Agrees
    <2> QED
      BY <1>6, <2>4 DEF Recompute, RowsOK
  <1> QED
    BY <1>1, <1>2, <1>3, <1>4, <1>5, <1>6 DEF Next, vars

(* Whatever rows the member has and in whatever order they are read, what  *)
(* rules can test of the facts says one thing (status_rank against         *)
(* is_active_status in services/sync.rs).                                  *)
THEOREM RulesSeeOneMember == Spec => []TestsAgree
  <1>1. FactsInv => TestsAgree
    BY DEF FactsInv
  <1> QED
    BY FactsInit, FactsStep, <1>1, PTL DEF Spec

-----------------------------------------------------------------------------
(* The facts row is there if and only if a row was read.                   *)
FactsRowInv ==
    /\ IsFiniteSet(DOMAIN customers) /\ IsFiniteSet(DOMAIN subs)
    /\ TypeOK

LEMMA ListingIsEmpty ==
  ASSUME NEW t, IsFiniteSet(DOMAIN t), NEW ts \in Listings(t)
  PROVE  ts = <<>> <=> DOMAIN t = {}
  <1> DEFINE n == Cardinality(DOMAIN t)
  <1>1. n \in Nat /\ (n = 0 <=> DOMAIN t = {})
    BY FS_CardinalityType, FS_EmptySet
  <1>2. PICK p \in [1..n -> DOMAIN t] : ts = [i \in 1..n |-> t[p[i]]]
    BY DEF Listings
  <1> HIDE DEF n
  <1>3. DOMAIN ts = 1..n
    BY <1>2
  <1>4. ASSUME ts = <<>> PROVE n = 0
    <2>1. DOMAIN ts = {}
      BY <1>4
    <2> QED
      BY <1>1, <1>3, <2>1
  <1>5. ASSUME n = 0 PROVE ts = <<>>
    <2>1. ts \in [1..0 -> {t[x] : x \in DOMAIN t}]
      BY <1>2, <1>5
    <2> QED
      BY <2>1
  <1> QED
    BY <1>1, <1>4, <1>5

LEMMA FactsRowInit == Init => FactsRowInv
  <1> SUFFICES ASSUME Init PROVE FactsRowInv
    OBVIOUS
  <1>1. DOMAIN customers = {} /\ DOMAIN subs = {} /\ facts = NoFacts /\ fresh = TRUE
    BY DEF Init
  <1>2. NoFacts.row = FALSE
    BY DEF NoFacts
  <1> QED
    BY <1>1, <1>2, FS_EmptySet DEF FactsRowInv, TypeOK

LEMMA AggregateIsRow ==
  ASSUME NEW cs, NEW ss
  PROVE  DOMAIN Aggregate(cs, ss) = DOMAIN NoFacts /\ Aggregate(cs, ss).row = TRUE
  BY DEF Aggregate, NoFacts

LEMMA FactsRowStep == FactsRowInv /\ [Next]_vars => FactsRowInv'
  <1> SUFFICES ASSUME FactsRowInv, [Next]_vars PROVE FactsRowInv'
    OBVIOUS
  <1> USE DEF FactsRowInv
  <1>1. ASSUME NEW id \in CustomerId, NEW row \in CustomerRow, WriteCustomer(id, row)
        PROVE FactsRowInv'
    <2>1. DOMAIN customers' = DOMAIN customers \cup {id}
      BY <1>1 DEF WriteCustomer, With
    <2>2. IsFiniteSet(DOMAIN customers')
      BY <2>1, FS_AddElement
    <2>3. \A c \in DOMAIN customers' : customers'[c] \in CustomerRow
      BY <1>1, <2>1 DEF WriteCustomer, With, TypeOK
    <2> QED
      BY <1>1, <2>1, <2>2, <2>3 DEF WriteCustomer, TypeOK
  <1>2. ASSUME NEW id \in DOMAIN customers, LoseCustomer(id) PROVE FactsRowInv'
    <2>1. DOMAIN customers' = DOMAIN customers \ {id}
          /\ \A c \in DOMAIN customers' : customers'[c] = customers[c]
      BY <1>2 DEF LoseCustomer, Without
    <2>2. IsFiniteSet(DOMAIN customers')
      BY <2>1, FS_Subset
    <2> QED
      BY <1>2, <2>1, <2>2 DEF LoseCustomer, TypeOK
  <1>3. ASSUME NEW id \in SubId, NEW o \in Subscription, WriteSub(id, o) PROVE FactsRowInv'
    <2>1. DOMAIN subs' = DOMAIN subs \cup {id}
      BY <1>3 DEF WriteSub, With
    <2>2. IsFiniteSet(DOMAIN subs')
      BY <2>1, FS_AddElement
    <2>3. \A s \in DOMAIN subs' : subs'[s] \in {SubRow(x) : x \in Subscription}
      BY <1>3, <2>1 DEF WriteSub, With, TypeOK
    <2> QED
      BY <1>3, <2>1, <2>2, <2>3 DEF WriteSub, TypeOK
  <1>4. ASSUME NEW id \in DOMAIN subs, LoseSub(id) PROVE FactsRowInv'
    <2>1. DOMAIN subs' = DOMAIN subs \ {id} /\ \A s \in DOMAIN subs' : subs'[s] = subs[s]
      BY <1>4 DEF LoseSub, Without
    <2>2. IsFiniteSet(DOMAIN subs')
      BY <2>1, FS_Subset
    <2> QED
      BY <1>4, <2>1, <2>2 DEF LoseSub, TypeOK
  <1>5. ASSUME Recompute PROVE FactsRowInv'
    <2>1. PICK cs \in Listings(customers), ss \in Listings(subs) :
            facts' = IF cs = <<>> /\ ss = <<>> THEN NoFacts ELSE Aggregate(cs, ss)
      BY <1>5 DEF Recompute
    <2>2. (cs = <<>> <=> DOMAIN customers = {}) /\ (ss = <<>> <=> DOMAIN subs = {})
      BY ListingIsEmpty
    <2>3. NoFacts.row = FALSE
      BY DEF NoFacts
    <2>4. /\ DOMAIN facts' = DOMAIN NoFacts /\ facts'.row \in BOOLEAN
          /\ ~facts'.row => facts' = NoFacts
          /\ facts'.row <=> DOMAIN customers # {} \/ DOMAIN subs # {}
      BY <2>1, <2>2, <2>3, AggregateIsRow
    <2> QED
      BY <1>5, <2>4 DEF Recompute, TypeOK
  <1>6. CASE UNCHANGED vars
    BY <1>6 DEF vars, TypeOK
  <1> QED
    BY <1>1, <1>2, <1>3, <1>4, <1>5, <1>6 DEF Next

(* The rows are Stripe's, and a member has a facts row, with the columns   *)
(* of the table, if and only if one of them was there when it was made.    *)
THEOREM FactsTypeCorrect == Spec => []TypeOK
  <1>1. FactsRowInv => TypeOK
    BY DEF FactsRowInv
  <1> QED
    BY FactsRowInit, FactsRowStep, <1>1, PTL DEF Spec

-----------------------------------------------------------------------------
(* Two recomputes of the same rows.                                        *)

(* find_map returns NULL, or a value that a row has.                       *)
LEMMA FirstGivenIs ==
  ASSUME NEW v, DOMAIN v \subseteq Nat
  PROVE  \/ FirstGiven(v) = None /\ \A i \in DOMAIN v : v[i] = None
         \/ \E i \in DOMAIN v : v[i] # None /\ FirstGiven(v) = v[i]
  <1>1. CASE \A i \in DOMAIN v : v[i] = None
    BY <1>1 DEF FirstGiven
  <1>2. CASE ~(\A i \in DOMAIN v : v[i] = None)
    <2> DEFINE T == {i \in DOMAIN v : v[i] # None}
    <2>1. T \subseteq Nat /\ T # {}
      BY <1>2
    <2>2. Min(T) \in T
      BY <2>1, MinIsLeast
    <2> QED
      BY <1>2, <2>2 DEF FirstGiven
  <1> QED
    BY <1>1, <1>2

(* What two listings of one table have in common: the rows.                *)
Alike(a, b) ==
    /\ DOMAIN a \subseteq Nat /\ DOMAIN b \subseteq Nat
    /\ \A i \in DOMAIN a : \E j \in DOMAIN b : a[i] = b[j]
    /\ \A j \in DOMAIN b : \E i \in DOMAIN a : a[i] = b[j]

(* A listing has each row in one place.                                    *)
LEMMA ListingIsBijection ==
  ASSUME NEW t, IsFiniteSet(DOMAIN t), NEW a \in Listings(t)
  PROVE  \E n \in Nat : \E p \in Bijection(1..n, DOMAIN t) : a = [i \in 1..n |-> t[p[i]]]
  <1> DEFINE n == Cardinality(DOMAIN t)
  <1>1. n \in Nat
    BY FS_CardinalityType
  <1>2. PICK p \in [1..n -> DOMAIN t] :
          a = [i \in 1..n |-> t[p[i]]] /\ \A i, j \in 1..n : p[i] = p[j] => i = j
    BY DEF Listings
  <1>3. p \in Injection(1..n, DOMAIN t)
    BY <1>2 DEF Injection, IsInjective
  <1>4. Cardinality(1..n) = n
    BY <1>1, FS_Interval
  <1>5. p \in Bijection(1..n, DOMAIN t)
    BY <1>3, <1>4, FS_Injection DEF Bijection
  <1> QED
    BY <1>1, <1>2, <1>5

LEMMA ListingsAreAlike ==
  ASSUME NEW t, IsFiniteSet(DOMAIN t), NEW a \in Listings(t), NEW b \in Listings(t)
  PROVE  /\ Alike(a, b)
         /\ \A i \in DOMAIN a : \E x \in DOMAIN t : a[i] = t[x]
         /\ \A i \in DOMAIN b : \E x \in DOMAIN t : b[i] = t[x]
  <1>0. PICK n \in Nat : \E p \in Bijection(1..n, DOMAIN t) : a = [i \in 1..n |-> t[p[i]]]
    BY ListingIsBijection
  <1>1. PICK p \in Bijection(1..n, DOMAIN t) : a = [i \in 1..n |-> t[p[i]]]
    BY <1>0
  <1>20. PICK m \in Nat : \E q \in Bijection(1..m, DOMAIN t) : b = [i \in 1..m |-> t[q[i]]]
    BY ListingIsBijection
  <1>2. PICK q \in Bijection(1..m, DOMAIN t) : b = [i \in 1..m |-> t[q[i]]]
    BY <1>20
  <1>3. /\ DOMAIN a = 1..n /\ DOMAIN b = 1..m
        /\ \A i \in 1..n : p[i] \in DOMAIN t /\ a[i] = t[p[i]]
        /\ \A j \in 1..m : q[j] \in DOMAIN t /\ b[j] = t[q[j]]
    BY <1>1, <1>2 DEF Bijection, Injection
  <1>4. /\ \A x \in DOMAIN t : \E i \in 1..n : p[i] = x
        /\ \A x \in DOMAIN t : \E j \in 1..m : q[j] = x
    BY <1>1, <1>2 DEF Bijection, Surjection
  <1>5. ASSUME NEW i \in 1..n PROVE \E j \in 1..m : a[i] = b[j]
    <2>1. PICK j \in 1..m : q[j] = p[i]
      BY <1>3, <1>4
    <2> QED
      BY <1>3, <2>1
  <1>6. ASSUME NEW j \in 1..m PROVE \E i \in 1..n : a[i] = b[j]
    <2>1. PICK i \in 1..n : p[i] = q[j]
      BY <1>3, <1>4
    <2> QED
      BY <1>3, <2>1
  <1>10. DOMAIN a = 1..n /\ DOMAIN b = 1..m /\ 1..n \subseteq Nat /\ 1..m \subseteq Nat
    BY <1>3
  <1>7. Alike(a, b)
    BY <1>5, <1>6, <1>10, Zenon DEF Alike
  <1>8. \A i \in 1..n : a[i] = t[p[i]] /\ p[i] \in DOMAIN t
    BY <1>3
  <1>9. \A i \in 1..m : b[i] = t[q[i]] /\ q[i] \in DOMAIN t
    BY <1>3
  <1> QED
    BY <1>3, <1>7, <1>8, <1>9, Zenon

(* A listing has each active row in one place, too.                        *)
ActiveIn(t) == {x \in DOMAIN t : IsActive(t[x].status)}

LEMMA ActivesAreListed ==
  ASSUME NEW t, IsFiniteSet(DOMAIN t), NEW a \in Listings(t)
  PROVE  /\ IsFiniteSet(Actives(a)) /\ IsFiniteSet(ActiveIn(t))
         /\ \E q \in Bijection(Actives(a), ActiveIn(t)) : \A i \in Actives(a) : a[i] = t[q[i]]
  <1> DEFINE T == ActiveIn(t)
             S == Actives(a)
  <1>0. PICK n \in Nat : \E p \in Bijection(1..n, DOMAIN t) : a = [i \in 1..n |-> t[p[i]]]
    BY ListingIsBijection
  <1>1. PICK p \in Bijection(1..n, DOMAIN t) : a = [i \in 1..n |-> t[p[i]]]
    BY <1>0
  <1>2. /\ DOMAIN a = 1..n /\ \A i \in 1..n : p[i] \in DOMAIN t /\ a[i] = t[p[i]]
        /\ \A i, j \in 1..n : p[i] = p[j] => i = j
        /\ \A x \in DOMAIN t : \E i \in 1..n : p[i] = x
    BY <1>1 DEF Bijection, Injection, Surjection, IsInjective
  <1>3. S = {i \in 1..n : IsActive(t[p[i]].status)} /\ T = {x \in DOMAIN t : IsActive(t[x].status)}
    BY <1>2 DEF Actives, ActiveIn
  <1> DEFINE f == [i \in S |-> p[i]]
  <1>4. f \in [S -> T]
    BY <1>2, <1>3
  <1>5. \A i, j \in S : f[i] = f[j] => i = j
    BY <1>2, <1>3
  <1>6. \A x \in T : \E i \in S : f[i] = x
    BY <1>2, <1>3
  <1>7. \A i \in S : a[i] = t[f[i]]
    BY <1>2, <1>3
  <1>8. IsFiniteSet(S) /\ IsFiniteSet(T)
    <2>1. IsFiniteSet(1..n) /\ S \subseteq 1..n /\ T \subseteq DOMAIN t
      BY <1>1, <1>3, FS_Interval
    <2> QED
      BY <2>1, FS_Subset
  <1> HIDE DEF f, S, T
  <1>9. f \in Bijection(S, T)
    BY <1>4, <1>5, <1>6 DEF Bijection, Injection, Surjection, IsInjective
  <1> QED
    BY <1>7, <1>8, <1>9 DEF S, T

(* As many active rows in the one as in the other.                         *)
LEMMA ActivesAreCounted ==
  ASSUME NEW t, IsFiniteSet(DOMAIN t), NEW a \in Listings(t)
  PROVE  Cardinality(Actives(a)) = Cardinality(ActiveIn(t))
  <1>1. IsFiniteSet(Actives(a)) /\ ExistsBijection(Actives(a), ActiveIn(t))
    BY ActivesAreListed DEF ExistsBijection
  <1> QED
    BY <1>1, FS_Bijection

(* find_map over the same values finds none or one of them in either.      *)
LEMMA GivenInBoth ==
  ASSUME NEW v, NEW w, Alike(v, w)
  PROVE  /\ FirstGiven(v) = None <=> FirstGiven(w) = None
         /\ FirstGiven(v) # None => \E i \in DOMAIN v : FirstGiven(v) = v[i]
         /\ FirstGiven(w) # None => \E i \in DOMAIN w : FirstGiven(w) = w[i]
  BY FirstGivenIs DEF Alike

(* Of two lists with the same rows the active ones are the same.           *)
Active(ss) == [i \in Actives(ss) |-> ss[i]]

LEMMA ActivesAreAlike ==
  ASSUME NEW a, NEW b, Alike(a, b)
  PROVE  Alike(Active(a), Active(b))
  BY DEF Alike, Active, Actives

(* A column of lists with the same rows.                                   *)
LEMMA ColumnsAreAlike ==
  ASSUME NEW a, NEW b, Alike(a, b)
  PROVE  /\ Alike([i \in DOMAIN a |-> a[i].email], [i \in DOMAIN b |-> b[i].email])
         /\ Alike([i \in DOMAIN a |-> a[i].currency], [i \in DOMAIN b |-> b[i].currency])
  BY DEF Alike

LEMMA FullRow ==
  ASSUME NEW o \in Subscription
  PROVE  /\ SubRow(o).status \in Status /\ SubRow(o).start \in Nat
         /\ SubRow(o).amount \in Nat /\ SubRow(o).quantity \in Nat
         /\ SubRow(o).every \in Nat /\ Ratio % AtLeast1(SubRow(o).every) = 0
  <1> DEFINE item == IF o.items = <<>> THEN NoItem ELSE Head(o.items)
  <1>1. /\ SubRow(o).amount = item.amount /\ SubRow(o).quantity = item.quantity
        /\ SubRow(o).every = item.every
    BY DEF SubRow
  <1>2. CASE o.items = <<>>
    <2>1. AtLeast1(1) = 1 /\ Ratio % 1 = 0
      BY RatioAssumption DEF AtLeast1
    <2> QED
      BY <1>1, <1>2, <2>1, SubRowIsTyped DEF NoItem
  <1>3. CASE o.items # <<>>
    <2>1. 1 \in DOMAIN o.items
      BY <1>3, MemberFactsAssumption
    <2>2. Head(o.items) = o.items[1]
      BY <2>1, MemberFactsAssumption
    <2> QED
      BY <1>1, <1>3, <2>1, <2>2, SubRowIsTyped, MemberFactsAssumption, RatioAssumption
  <1> QED
    BY <1>2, <1>3

(* A list of the rows of subscriptions, read in some order.                *)
FullList(ss) ==
    /\ IsFiniteSet(DOMAIN ss) /\ DOMAIN ss \subseteq Nat
    /\ \A i \in DOMAIN ss :
         /\ ss[i].status \in Status /\ ss[i].start \in Nat
         /\ ss[i].amount \in Nat /\ ss[i].quantity \in Nat
         /\ ss[i].every \in Nat /\ Ratio % AtLeast1(ss[i].every) = 0

LEMMA RanksDiffer ==
  ASSUME NEW s \in Status, NEW u \in Status, Rank(s) = Rank(u)
  PROVE  s = u
  BY DEF Rank, Status

LEMMA StatusInBoth ==
  ASSUME NEW a, NEW b, FullList(a), FullList(b), Alike(a, b)
  PROVE  StatusOf(a) = StatusOf(b)
  <1>1. CASE DOMAIN a = {}
    <2>1. DOMAIN b = {}
      BY <1>1 DEF Alike
    <2> QED
      BY <1>1, <2>1 DEF StatusOf
  <1>2. CASE DOMAIN a # {}
    <2>1. DOMAIN b # {}
      BY <1>2 DEF Alike
    <2>2. PICK m \in DOMAIN a :
            /\ StatusOf(a) = a[m].status
            /\ \A i \in DOMAIN a : Rank(a[i].status) <= Rank(a[m].status)
      BY <1>2, BestStatus DEF FullList
    <2>3. PICK k \in DOMAIN b :
            /\ StatusOf(b) = b[k].status
            /\ \A i \in DOMAIN b : Rank(b[i].status) <= Rank(b[k].status)
      BY <2>1, BestStatus DEF FullList
    <2>4. PICK i \in DOMAIN a : a[i] = b[k]
      BY DEF Alike
    <2>5. PICK j \in DOMAIN b : a[m] = b[j]
      BY DEF Alike
    <2>6. a[m].status \in Status /\ b[k].status \in Status
      BY DEF FullList
    <2>7. /\ Rank(b[k].status) <= Rank(a[m].status)
          /\ Rank(a[m].status) <= Rank(b[k].status)
          /\ Rank(a[m].status) \in 0..7 /\ Rank(b[k].status) \in 0..7
      BY <2>2, <2>3, <2>4, <2>5, <2>6, RankIs
    <2>8. Rank(a[m].status) = Rank(b[k].status)
      BY <2>7
    <2> QED
      BY <2>2, <2>3, <2>6, <2>8, RanksDiffer
  <1> QED
    BY <1>1, <1>2

LEMMA ChargeIsNat ==
  ASSUME NEW r, r.amount \in Nat, r.quantity \in Nat
  PROVE  Charge(r) \in Nat
  <1>1. AtLeast1(r.quantity) \in Nat
    BY DEF AtLeast1
  <1>2. \A x, y \in Nat : x * y \in Nat
    OBVIOUS
  <1> QED
    BY <1>1, <1>2 DEF Charge

(* Halves are rounded up: half of the divisor off at most.                 *)
LEMMA RoundedIs ==
  ASSUME NEW x \in Nat, NEW den \in Nat \ {0}
  PROVE  LET m == (2 * x + den) \div (2 * den) IN
         m \in Nat /\ 2 * (den * m) - 2 * x <= den /\ 2 * x - 2 * (den * m) <= den
  <1> DEFINE a == 2 * x + den
             b == 2 * den
             m == a \div b
  <1>1. a \in Nat /\ b \in Nat /\ b > 0
    OBVIOUS
  <1> HIDE DEF a, b
  <1>2. m \in Nat /\ b * m <= a /\ a < b * m + b
    BY <1>1
  <1> HIDE DEF m
  <1>3. b * m = 2 * (den * m) /\ den * m \in Nat
    BY <1>2 DEF b
  <1>4. 2 * (den * m) <= 2 * x + den /\ 2 * x + den < 2 * (den * m) + 2 * den
    BY <1>2, <1>3 DEF a, b
  <1>5. 2 * (den * m) - 2 * x <= den /\ 2 * x - 2 * (den * m) <= den
    BY <1>3, <1>4
  <1> QED
    BY <1>2, <1>5 DEF m, a, b

(* Of den divisors that divide ratio, all together: half of ratio off.     *)
LEMMA ScaleUp ==
  ASSUME NEW n \in Nat, NEW k \in Nat, NEW x \in Nat, NEW m \in Nat, NEW f \in {1, 12},
         2 * ((f * n) * m) - 2 * x <= f * n, 2 * x - 2 * ((f * n) * m) <= f * n
  PROVE  /\ 2 * (f * ((n * k) * m)) - 2 * (x * k) <= f * (n * k)
         /\ 2 * (x * k) - 2 * (f * ((n * k) * m)) <= f * (n * k)
  <1> DEFINE z == n * m
  <1>1. z \in Nat /\ (f * n) * m = f * z /\ (n * k) * m = z * k
    OBVIOUS
  <1>2. z * k \in Nat /\ x * k \in Nat /\ n * k \in Nat
    BY <1>1
  <1> HIDE DEF z
  <1>3. 2 * (f * z) <= 2 * x + f * n /\ 2 * x <= 2 * (f * z) + f * n
    BY <1>1
  <1>4. \A a, b \in Nat : a <= b => a * k <= b * k
    OBVIOUS
  <1>5. (2 * (f * z)) * k <= (2 * x + f * n) * k /\ (2 * x) * k <= (2 * (f * z) + f * n) * k
    BY <1>1, <1>3, <1>4
  <1>6. /\ (2 * (f * z)) * k = 2 * (f * (z * k)) /\ (2 * x) * k = 2 * (x * k)
        /\ (2 * x + f * n) * k = 2 * (x * k) + f * (n * k)
        /\ (2 * (f * z) + f * n) * k = 2 * (f * (z * k)) + f * (n * k)
    BY <1>1
  <1>7. /\ 2 * (f * (z * k)) <= 2 * (x * k) + f * (n * k)
        /\ 2 * (x * k) <= 2 * (f * (z * k)) + f * (n * k)
    BY <1>5, <1>6
  <1> QED
    BY <1>1, <1>2, <1>7

(* monthly_value is a twelfth of the yearly charge, to half a cent.        *)
LEMMA MonthlyIsATwelfth ==
  ASSUME NEW r, r.amount \in Nat, r.quantity \in Nat, r.every \in Nat,
         Ratio % AtLeast1(r.every) = 0
  PROVE  /\ Monthly(r) \in Nat /\ Yearly(r) \in Nat
         /\ 12 * Ratio * Monthly(r) - Yearly(r) <= 6 * Ratio
         /\ Yearly(r) - 12 * Ratio * Monthly(r) <= 6 * Ratio
  <1> DEFINE c == Charge(r)
             n == AtLeast1(r.every)
             k == Ratio \div n
             m == Monthly(r)
             y == Yearly(r)
  <1>1. c \in Nat /\ n \in Nat \ {0}
    <2>1. c \in Nat
      BY ChargeIsNat
    <2>2. n \in Nat \ {0}
      BY DEF AtLeast1
    <2> QED
      BY <2>1, <2>2
  <1> HIDE DEF c, n
  <1>2. Ratio \in Nat /\ Ratio % n = 0
    BY RatioAssumption DEF n
  <1>3. k \in Nat /\ n * k = Ratio
    BY <1>1, <1>2
  <1> HIDE DEF k
  <1>4. ASSUME NEW num \in {1, 30, 52}, NEW f \in {1, 12},
               m = (2 * c * num + f * n) \div (2 * (f * n)),
               f = 12 => y = c * num * k,
               f = 1  => y = c * (12 * num) * k
        PROVE  m \in Nat /\ y \in Nat /\ 12 * Ratio * m - y <= 6 * Ratio /\ y - 12 * Ratio * m <= 6 * Ratio
    <2> DEFINE x == c * num
    <2>1. x \in Nat /\ f * n \in Nat \ {0} /\ 2 * c * num = 2 * x
      BY <1>1
    <2> HIDE DEF x
    <2>2. m \in Nat /\ 2 * ((f * n) * m) - 2 * x <= f * n /\ 2 * x - 2 * ((f * n) * m) <= f * n
      <3> DEFINE den == f * n
      <3>1. m = (2 * x + den) \div (2 * den) /\ den \in Nat \ {0}
        BY <1>4, <2>1
      <3> HIDE DEF den
      <3>2. LET q == (2 * x + den) \div (2 * den) IN
            q \in Nat /\ 2 * (den * q) - 2 * x <= den /\ 2 * x - 2 * (den * q) <= den
        BY <2>1, <3>1, RoundedIs, Zenon
      <3>3. m \in Nat /\ 2 * (den * m) - 2 * x <= den /\ 2 * x - 2 * (den * m) <= den
        BY <3>1, <3>2, Zenon
      <3> QED
        BY <3>3 DEF den
    <2>3. /\ 2 * (f * (Ratio * m)) - 2 * (x * k) <= f * Ratio
          /\ 2 * (x * k) - 2 * (f * (Ratio * m)) <= f * Ratio
      BY <1>1, <1>3, <2>1, <2>2, ScaleUp
    <2>4. x * k \in Nat /\ Ratio * m \in Nat /\ 12 * Ratio * m = 12 * (Ratio * m)
      BY <1>2, <1>3, <2>1, <2>2
    <2>5. CASE f = 12
      <3>1. y = x * k
        BY <1>4, <2>5 DEF x
      <3> HIDE DEF m, y
      <3> QED
        BY <1>2, <2>2, <2>3, <2>4, <2>5, <3>1
    <2>6. CASE f = 1
      <3>1. y = 12 * (x * k)
        <4>1. c * (12 * num) * k = 12 * (x * k)
          BY <1>1, <1>3 DEF x
        <4> QED
          BY <1>4, <2>6, <4>1
      <3> HIDE DEF m, y
      <3> QED
        BY <1>2, <2>2, <2>3, <2>4, <2>6, <3>1
    <2> QED
      BY <1>4, <2>5, <2>6
  <1>5. CASE r.interval = "year"
    <2>1. m = (2 * c * 1 + 12 * n) \div (2 * (12 * n)) /\ y = c * 1 * k
      BY <1>5 DEF Monthly, Yearly, PeriodsAYear, c, n, k
    <2> QED
      BY <1>4, <2>1
  <1>6. CASE r.interval = "week"
    <2>1. m = (2 * c * 52 + 12 * n) \div (2 * (12 * n)) /\ y = c * 52 * k
      BY <1>6 DEF Monthly, Yearly, PeriodsAYear, c, n, k
    <2> QED
      BY <1>4, <2>1
  <1>7. CASE r.interval = "day"
    <2>1. m = (2 * c * 30 + n) \div (2 * n) /\ y = c * 360 * k
      BY <1>7 DEF Monthly, Yearly, PeriodsAYear, c, n, k
    <2>2. 1 * n = n /\ 12 * 30 = 360
      BY <1>1
    <2> QED
      BY <1>4, <2>1, <2>2
  <1>8. CASE r.interval \notin {"year", "week", "day"}
    <2>1. m = (2 * c * 1 + n) \div (2 * n) /\ y = c * 12 * k
      BY <1>8 DEF Monthly, Yearly, PeriodsAYear, c, n, k
    <2>2. 1 * n = n /\ 12 * 1 = 12
      BY <1>1
    <2> QED
      BY <1>4, <2>1, <2>2
  <1> QED
    BY <1>5, <1>6, <1>7, <1>8

(* The plan is an active subscription that none outbids.                   *)
LEMMA PrimaryIs ==
  ASSUME NEW a, FullList(a), Actives(a) # {}
  PROVE  \E m \in Actives(a) :
           /\ Primary(a) = a[m]
           /\ \A i \in Actives(a) : Charge(a[i]) <= Charge(a[m])
  <1> DEFINE act == Actives(a)
             key == [i \in act |-> Charge(a[i])]
  <1>1. act \subseteq DOMAIN a
    BY DEF Actives
  <1>2. act \subseteq Nat /\ IsFiniteSet(act)
    BY <1>1, FS_Subset DEF FullList
  <1>3. key \in [act -> Nat]
    BY <1>1, ChargeIsNat DEF FullList
  <1>4. LastMax(key) \in act /\ \A j \in act : key[j] <= key[LastMax(key)]
    <2> HIDE DEF key, act
    <2>1. act # {}
      BY DEF act
    <2> QED
      BY <1>2, <1>3, <2>1, LastMaxIs
  <1>5. Primary(a) = a[LastMax(key)]
    BY DEF Primary
  <1> QED
    BY <1>4, <1>5

LEMMA PlanInBoth ==
  ASSUME NEW a, NEW b, FullList(a), FullList(b), Alike(a, b), Actives(a) # {}
  PROVE  /\ Actives(b) # {}
         /\ Charge(Primary(a)) = Charge(Primary(b))
         /\ \E m \in Actives(a) : Primary(a) = a[m]
         /\ \E m \in Actives(b) : Primary(b) = b[m]
  <1>1. /\ \A i \in Actives(a) : \E j \in Actives(b) : a[i] = b[j]
        /\ \A j \in Actives(b) : \E i \in Actives(a) : a[i] = b[j]
    BY DEF Alike, Actives
  <1>2. Actives(b) # {}
    BY <1>1
  <1>3. PICK m \in Actives(a) :
          /\ Primary(a) = a[m]
          /\ \A i \in Actives(a) : Charge(a[i]) <= Charge(a[m])
    BY PrimaryIs
  <1>4. PICK k \in Actives(b) :
          /\ Primary(b) = b[k]
          /\ \A i \in Actives(b) : Charge(b[i]) <= Charge(b[k])
    BY <1>2, PrimaryIs
  <1>5. PICK i \in Actives(a) : a[i] = b[k]
    BY <1>1
  <1>6. PICK j \in Actives(b) : a[m] = b[j]
    BY <1>1
  <1>7. Charge(a[m]) \in Nat /\ Charge(b[k]) \in Nat
    BY ChargeIsNat DEF FullList, Actives
  <1>8. Charge(a[i]) <= Charge(a[m]) /\ Charge(b[j]) <= Charge(b[k])
    BY <1>3, <1>4
  <1>9. Charge(a[m]) = Charge(b[k])
    BY <1>5, <1>6, <1>7, <1>8
  <1> QED
    BY <1>2, <1>3, <1>4, <1>9

-----------------------------------------------------------------------------
(* The facts made of two readings of the same rows.                        *)

Tied == {"email", "currency", "interval"}

Spends(cs)  == [i \in DOMAIN cs |-> cs[i].spend]
Charges(ss) == [i \in Actives(ss) |-> Monthly(ss[i])]

LEMMA SameFields ==
  ASSUME NEW cs, NEW ct, NEW ss, NEW st, Alike(cs, ct), Alike(ss, st), FullList(ss), FullList(st),
         Cardinality(Actives(ss)) = Cardinality(Actives(st)),
         Total(Spends(cs)) = Total(Spends(ct)), Total(Charges(ss)) = Total(Charges(st))
  PROVE  \A f \in DOMAIN Aggregate(cs, ss) \ Tied :
           Aggregate(cs, ss)[f] = Aggregate(ct, st)[f]
  <1> DEFINE A == Aggregate(cs, ss)
             B == Aggregate(ct, st)
             act == Actives(ss)
             bct == Actives(st)
  <1>1. /\ \A i \in act : \E j \in bct : ss[i] = st[j]
        /\ \A j \in bct : \E i \in act : ss[i] = st[j]
    BY DEF Alike, Actives
  <1>2. act = {} <=> bct = {}
    BY <1>1
  <1>3. A.delinquent = B.delinquent /\ A.row = B.row
    BY DEF Aggregate, Alike
  <1>4. A.trialing = B.trialing /\ A.pastDue = B.pastDue
    BY DEF Aggregate, Alike
  <1>5. A.cancels = B.cancels /\ A.active = B.active
    BY <1>1, <1>2 DEF Aggregate
  <1>6. A.count = B.count
    BY DEF Aggregate
  <1>7. A.status = B.status
    BY StatusInBoth DEF Aggregate
  <1>8. A.plan = B.plan
    BY <1>2, PlanInBoth DEF Aggregate
  <1>9. A.started = B.started
    <2>1. {ss[i].start : i \in act} = {st[i].start : i \in bct}
      BY <1>1
    <2> QED
      BY <1>2, <2>1 DEF Aggregate
  <1>10. A.products = B.products
    <2>1. {ss[i].product : i \in act} = {st[i].product : i \in bct}
      BY <1>1
    <2> QED
      BY <2>1 DEF Aggregate
  <1>11. A.spend = B.spend /\ A.mrr = B.mrr
    BY DEF Aggregate, Spends, Charges
  <1>12. DOMAIN A \ Tied =
           {"row", "delinquent", "spend", "active", "count", "status", "trialing", "pastDue",
            "cancels", "plan", "started", "mrr", "products"}
    BY DEF Aggregate, Tied
  <1> HIDE DEF A, B
  <1> SUFFICES ASSUME NEW f \in DOMAIN A \ Tied PROVE A[f] = B[f]
    BY DEF A, B
  <1> QED
    BY <1>3, <1>4, <1>5, <1>6, <1>7, <1>8, <1>9, <1>10, <1>11, <1>12

(* The e-mail address is that of a customer, in either reading.            *)
LEMMA EmailOfACustomer ==
  ASSUME NEW cs, NEW ct, NEW ss, NEW st, Alike(cs, ct),
         Aggregate(cs, ss).email # Aggregate(ct, st).email
  PROVE  \E i \in DOMAIN cs : \E j \in DOMAIN ct :
           None # cs[i].email /\ cs[i].email # ct[j].email /\ ct[j].email # None
  <1> DEFINE v == [i \in DOMAIN cs |-> cs[i].email]
             w == [i \in DOMAIN ct |-> ct[i].email]
  <1>1. Alike(v, w)
    BY ColumnsAreAlike
  <1>2. FirstGiven(v) # FirstGiven(w)
    BY DEF Aggregate
  <1> HIDE DEF v, w
  <1>3. /\ FirstGiven(v) # None /\ FirstGiven(w) # None
        /\ \E i \in DOMAIN v : FirstGiven(v) = v[i]
        /\ \E i \in DOMAIN w : FirstGiven(w) = w[i]
    BY <1>1, <1>2, GivenInBoth
  <1> QED
    BY <1>2, <1>3 DEF v, w

(* The currency is that of a customer or of an active subscription.        *)
LEMMA CurrencyOfARow ==
  ASSUME NEW cs, NEW ct, NEW ss, NEW st, Alike(cs, ct), Alike(ss, st),
         Aggregate(cs, ss).currency # Aggregate(ct, st).currency
  PROVE  \/ \E i \in DOMAIN cs : \E j \in DOMAIN ct :
              None # cs[i].currency /\ cs[i].currency # ct[j].currency /\ ct[j].currency # None
         \/ \E i \in Actives(ss) : \E j \in Actives(st) :
              None # ss[i].currency /\ ss[i].currency # st[j].currency /\ st[j].currency # None
  <1> DEFINE v == [i \in DOMAIN cs |-> cs[i].currency]
             w == [i \in DOMAIN ct |-> ct[i].currency]
             x == [i \in Actives(ss) |-> ss[i].currency]
             y == [i \in Actives(st) |-> st[i].currency]
  <1>1. Alike(v, w)
    BY ColumnsAreAlike
  <1>2. Alike(x, y)
    BY DEF Alike, Actives
  <1>3. (IF FirstGiven(v) # None THEN FirstGiven(v) ELSE FirstGiven(x))
          # (IF FirstGiven(w) # None THEN FirstGiven(w) ELSE FirstGiven(y))
    BY DEF Aggregate
  <1> HIDE DEF v, w, x, y
  <1>4. CASE FirstGiven(v) # None
    <2>1. /\ FirstGiven(v) # FirstGiven(w) /\ FirstGiven(w) # None
          /\ \E i \in DOMAIN v : FirstGiven(v) = v[i]
          /\ \E i \in DOMAIN w : FirstGiven(w) = w[i]
      BY <1>1, <1>3, <1>4, GivenInBoth
    <2> QED
      BY <1>4, <2>1 DEF v, w
  <1>5. CASE FirstGiven(v) = None
    <2>1. /\ FirstGiven(x) # FirstGiven(y)
          /\ FirstGiven(x) # None /\ FirstGiven(y) # None
          /\ \E i \in DOMAIN x : FirstGiven(x) = x[i]
          /\ \E i \in DOMAIN y : FirstGiven(y) = y[i]
      <3>1. FirstGiven(w) = None
        BY <1>1, <1>5, GivenInBoth
      <3>2. FirstGiven(x) # FirstGiven(y)
        BY <1>3, <1>5, <3>1
      <3> QED
        BY <1>2, <3>2, GivenInBoth
    <2> QED
      BY <2>1 DEF x, y
  <1> QED
    BY <1>4, <1>5

LEMMA IntervalOfATie ==
  ASSUME NEW cs, NEW ct, NEW ss, NEW st, Alike(ss, st), FullList(ss), FullList(st),
         Aggregate(cs, ss).interval # Aggregate(ct, st).interval
  PROVE  \E i \in Actives(ss) : \E j \in Actives(st) :
           /\ ss[i].interval # st[j].interval
           /\ Charge(ss[i]) = Aggregate(cs, ss).plan
           /\ Charge(st[j]) = Aggregate(cs, ss).plan
  <1>1. Actives(ss) = {} => Actives(st) = {}
    BY DEF Alike, Actives
  <1>2. Actives(ss) # {}
    BY <1>1 DEF Aggregate
  <1>3. /\ Actives(st) # {}
        /\ Charge(Primary(ss)) = Charge(Primary(st))
    BY <1>2, PlanInBoth
  <1>4. PICK i \in Actives(ss) : Primary(ss) = ss[i]
    BY <1>2, PlanInBoth
  <1>5. PICK j \in Actives(st) : Primary(st) = st[j]
    BY <1>2, PlanInBoth
  <1>6. /\ Aggregate(cs, ss).interval = Primary(ss).interval
        /\ Aggregate(ct, st).interval = Primary(st).interval
        /\ Aggregate(cs, ss).plan = Charge(Primary(ss))
    BY <1>2, <1>3 DEF Aggregate
  <1> QED
    BY <1>3, <1>4, <1>5, <1>6

(* A fresh facts row was made of the rows that are there.                  *)
Made(cs, ss) ==
    IF cs = <<>> /\ ss = <<>> THEN NoFacts ELSE Aggregate(cs, ss)

MadeInv ==
    fresh => \E cs \in Listings(customers) : \E ss \in Listings(subs) :
               facts = Made(cs, ss)

LEMMA ListingOfNothing == <<>> \in Listings(<<>>)
  <1>1. DOMAIN <<>> = {} /\ Cardinality(DOMAIN <<>>) = 0
    BY FS_EmptySet
  <1> DEFINE p == [i \in 1..0 |-> 0]
             a == [i \in 1..0 |-> <<>>[p[i]]]
  <1>2. p \in [1..0 -> DOMAIN <<>>] /\ \A i, j \in 1..0 : p[i] = p[j] => i = j
    OBVIOUS
  <1>3. a \in Listings(<<>>)
    <2> HIDE DEF p
    <2> QED
      BY <1>1, <1>2 DEF Listings
  <1>4. a \in [1..0 -> {}]
    OBVIOUS
  <1>5. a = <<>>
    <2> HIDE DEF a
    <2> QED
      BY <1>4
  <1> QED
    BY <1>3, <1>5

LEMMA MadeInit == Init => MadeInv
  <1> SUFFICES ASSUME Init PROVE MadeInv
    OBVIOUS
  <1>1. customers = <<>> /\ subs = <<>> /\ facts = Made(<<>>, <<>>)
    BY DEF Init, Made
  <1> QED
    BY <1>1, ListingOfNothing DEF MadeInv

LEMMA MadeStep == MadeInv /\ [Next]_vars => MadeInv'
  <1> SUFFICES ASSUME MadeInv, [Next]_vars PROVE MadeInv'
    OBVIOUS
  <1>1. CASE fresh' = FALSE
    BY <1>1 DEF MadeInv
  <1>2. CASE UNCHANGED vars
    BY <1>2 DEF MadeInv, vars
  <1>3. CASE Recompute
    BY <1>3 DEF Recompute, MadeInv, Made
  <1> QED
    BY <1>1, <1>2, <1>3 DEF Next, WriteCustomer, WriteSub, LoseCustomer,
       LoseSub

(* OrderDecidesTiesOnly as a step.                                         *)
TiesOnly ==
    fresh /\ fresh' =>
      /\ \A f \in DOMAIN facts \ Tied : facts'[f] = facts[f]
      /\ facts'.email # facts.email =>
           \E a, b \in Theirs : None # a.email /\ a.email # b.email /\ b.email # None
      /\ facts'.currency # facts.currency =>
           \E R \in {Mine, Theirs} : \E a, b \in R :
              None # a.currency /\ a.currency # b.currency /\ b.currency # None
      /\ facts'.interval # facts.interval =>
           \E a, b \in Mine : a.interval # b.interval /\ Charge(a) = facts.plan /\ Charge(b) = facts.plan

LEMMA ListedSubsAreFull ==
  ASSUME FactsRowInv, NEW ss \in Listings(subs)
  PROVE  FullList(ss)
  <1>1. IsFiniteSet(DOMAIN subs) /\ \A s \in DOMAIN subs : subs[s] \in {SubRow(o) : o \in Subscription}
    BY DEF FactsRowInv, TypeOK
  <1>2. \A i \in DOMAIN ss : \E x \in DOMAIN subs : ss[i] = subs[x]
    BY <1>1, ListingsAreAlike
  <1>3. PICK n \in Nat : \E p \in Bijection(1..n, DOMAIN subs) : ss = [i \in 1..n |-> subs[p[i]]]
    BY <1>1, ListingIsBijection
  <1>4. IsFiniteSet(DOMAIN ss) /\ DOMAIN ss \subseteq Nat
    BY <1>3, FS_Interval
  <1>5. ASSUME NEW i \in DOMAIN ss
        PROVE  /\ ss[i].status \in Status /\ ss[i].start \in Nat
               /\ ss[i].amount \in Nat /\ ss[i].quantity \in Nat
               /\ ss[i].every \in Nat /\ Ratio % AtLeast1(ss[i].every) = 0
    BY <1>1, <1>2, FullRow
  <1> QED
    BY <1>4, <1>5 DEF FullList

(* The sums of a listing are those of the table.                           *)
LEMMA SpendOfListing ==
  ASSUME FactsRowInv, NEW cs \in Listings(customers)
  PROVE  Total(Spends(cs)) = Total(Spends(customers))
  <1>1. /\ IsFiniteSet(DOMAIN customers)
        /\ \A c \in DOMAIN customers : customers[c].spend \in Nat
    BY MemberFactsAssumption DEF FactsRowInv, TypeOK
  <1>2. PICK n \in Nat : \E p \in Bijection(1..n, DOMAIN customers) : cs = [i \in 1..n |-> customers[p[i]]]
    BY <1>1, ListingIsBijection
  <1>3. PICK p \in Bijection(1..n, DOMAIN customers) : cs = [i \in 1..n |-> customers[p[i]]]
    BY <1>2
  <1>4. /\ DOMAIN cs = 1..n /\ IsFiniteSet(1..n)
        /\ \A i \in 1..n : p[i] \in DOMAIN customers /\ cs[i] = customers[p[i]]
    BY <1>3, FS_Interval DEF Bijection, Injection
  <1> DEFINE v == Spends(cs)
             w == Spends(customers)
  <1>5. v \in [1..n -> Nat] /\ w \in [DOMAIN customers -> Nat] /\ \A i \in 1..n : w[p[i]] = v[i]
    BY <1>1, <1>4 DEF Spends
  <1> HIDE DEF v, w
  <1>6. Total(v) = Total(w)
    <2> DEFINE S == 1..n
               T == DOMAIN customers
    <2>1. /\ IsFiniteSet(S) /\ v \in [S -> Nat] /\ IsFiniteSet(T) /\ w \in [T -> Nat]
          /\ p \in Bijection(S, T) /\ \A i \in S : w[p[i]] = v[i]
      BY <1>1, <1>3, <1>4, <1>5
    <2> HIDE DEF S, T
    <2> QED
      BY <2>1, SumRenamed
  <1> QED
    BY <1>6 DEF v, w

MonthlyOf(t) == [x \in ActiveIn(t) |-> Monthly(t[x])]

LEMMA ActiveRow ==
  ASSUME FactsRowInv, NEW s \in DOMAIN subs
  PROVE  /\ subs[s].amount \in Nat /\ subs[s].quantity \in Nat /\ subs[s].every \in Nat
         /\ Ratio % AtLeast1(subs[s].every) = 0
  <1>1. PICK o \in Subscription : subs[s] = SubRow(o)
    BY DEF FactsRowInv, TypeOK
  <1> QED
    BY <1>1, FullRow

LEMMA MrrOfListing ==
  ASSUME FactsRowInv, NEW ss \in Listings(subs)
  PROVE  Total(Charges(ss)) = Total(MonthlyOf(subs))
  <1>1. IsFiniteSet(DOMAIN subs)
    BY DEF FactsRowInv
  <1>2. /\ IsFiniteSet(Actives(ss)) /\ IsFiniteSet(ActiveIn(subs))
        /\ \E q \in Bijection(Actives(ss), ActiveIn(subs)) : \A i \in Actives(ss) : ss[i] = subs[q[i]]
    BY <1>1, ActivesAreListed
  <1>3. PICK q \in Bijection(Actives(ss), ActiveIn(subs)) : \A i \in Actives(ss) : ss[i] = subs[q[i]]
    BY <1>2
  <1>4. \A i \in Actives(ss) : q[i] \in ActiveIn(subs)
    BY DEF Bijection, Injection
  <1>5. \A s \in ActiveIn(subs) : Monthly(subs[s]) \in Nat
    BY ActiveRow, MonthlyIsATwelfth DEF ActiveIn
  <1> DEFINE v == Charges(ss)
             w == MonthlyOf(subs)
  <1>6. v \in [Actives(ss) -> Nat] /\ w \in [ActiveIn(subs) -> Nat] /\ \A i \in Actives(ss) : w[q[i]] = v[i]
    BY <1>3, <1>4, <1>5 DEF Charges, MonthlyOf
  <1> HIDE DEF v, w
  <1>7. Total(v) = Total(w)
    BY <1>2, <1>3, <1>6, SumRenamed
  <1> QED
    BY <1>7 DEF v, w

LEMMA TiesStep ==
  FactsRowInv /\ MadeInv /\ [Next]_vars => TiesOnly
  <1> SUFFICES ASSUME FactsRowInv, MadeInv, [Next]_vars, fresh, fresh' PROVE TiesOnly
    BY DEF TiesOnly
  <1>1. CASE UNCHANGED vars
    BY <1>1 DEF TiesOnly, vars
  <1>2. CASE Recompute
    <2>1. PICK cs \in Listings(customers), ss \in Listings(subs) : facts = Made(cs, ss)
      BY DEF MadeInv
    <2>2. PICK ct \in Listings(customers), st \in Listings(subs) : facts' = Made(ct, st)
      BY <1>2 DEF Recompute, Made
    <2>3. IsFiniteSet(DOMAIN customers) /\ IsFiniteSet(DOMAIN subs)
      BY DEF FactsRowInv
    <2>4. /\ cs = <<>> <=> ct = <<>>
          /\ ss = <<>> <=> st = <<>>
      BY <2>3, ListingIsEmpty
    <2>5. CASE cs = <<>> /\ ss = <<>>
      BY <2>1, <2>2, <2>4, <2>5 DEF Made, TiesOnly
    <2>6. CASE ~(cs = <<>> /\ ss = <<>>)
      <3>1. facts = Aggregate(cs, ss) /\ facts' = Aggregate(ct, st)
        BY <2>1, <2>2, <2>4, <2>6 DEF Made
      <3>2. /\ Alike(cs, ct) /\ Alike(ss, st)
            /\ \A i \in DOMAIN cs : cs[i] \in Theirs
            /\ \A i \in DOMAIN ct : ct[i] \in Theirs
            /\ \A i \in DOMAIN ss : \E x \in DOMAIN subs : ss[i] = subs[x]
            /\ \A i \in DOMAIN st : \E x \in DOMAIN subs : st[i] = subs[x]
        BY <2>3, ListingsAreAlike DEF Theirs
      <3>3. /\ \A i \in Actives(ss) : ss[i] \in Mine
            /\ \A i \in Actives(st) : st[i] \in Mine
        BY <3>2 DEF Actives, Mine
      <3>4. FullList(ss) /\ FullList(st)
        BY ListedSubsAreFull
      <3>5. Cardinality(Actives(ss)) = Cardinality(Actives(st))
        BY <2>3, ActivesAreCounted
      <3>10. Total(Spends(cs)) = Total(Spends(ct)) /\ Total(Charges(ss)) = Total(Charges(st))
        BY SpendOfListing, MrrOfListing
      <3>6. \A f \in DOMAIN facts \ Tied : facts'[f] = facts[f]
        BY <3>1, <3>2, <3>4, <3>5, <3>10, SameFields
      <3>7. facts'.email # facts.email =>
              \E a, b \in Theirs : None # a.email /\ a.email # b.email /\ b.email # None
        BY <3>1, <3>2, EmailOfACustomer
      <3>8. facts'.currency # facts.currency =>
              \E R \in {Mine, Theirs} : \E a, b \in R :
                 None # a.currency /\ a.currency # b.currency /\ b.currency # None
        BY <3>1, <3>2, <3>3, CurrencyOfARow
      <3>9. facts'.interval # facts.interval =>
              \E a, b \in Mine : /\ a.interval # b.interval
                                       /\ Charge(a) = facts.plan
                                       /\ Charge(b) = facts.plan
        BY <3>1, <3>2, <3>3, <3>4, IntervalOfATie
      <3> QED
        BY <3>6, <3>7, <3>8, <3>9 DEF TiesOnly
    <2> QED
      BY <2>5, <2>6
  <1> QED
    BY <1>1, <1>2 DEF Next, WriteCustomer, WriteSub, LoseCustomer,
       LoseSub

(* The order in which the rows come decides nothing but between equals:    *)
(* made again of the same rows, the facts can differ in the email of a     *)
(* member whose customers have two, in the currency of one whose customers *)
(* or whose active subscriptions have two and in the interval if two       *)
(* active subscriptions tie for the highest charge (find_map and           *)
(* max_by_key in services/sync.rs), and in nothing else: not in the sums   *)
(* either.                                                                 *)
THEOREM OrderDecidesTies == Spec => OrderDecidesTiesOnly
  <1>1. Init => FactsRowInv /\ MadeInv
    BY FactsRowInit, MadeInit
  <1>2. FactsRowInv /\ MadeInv /\ [Next]_vars => FactsRowInv' /\ MadeInv'
    BY FactsRowStep, MadeStep
  <1>3. FactsRowInv /\ MadeInv /\ [Next]_vars => [TiesOnly]_vars
    BY TiesStep
  <1>4. Spec => [][TiesOnly]_vars
    BY <1>1, <1>2, <1>3, PTL DEF Spec
  <1> QED
    BY <1>4 DEF OrderDecidesTiesOnly, TiesOnly, Tied

-----------------------------------------------------------------------------
(* The monthly recurring revenue of a fresh row.                           *)

LEMMA MadeMrr ==
  ASSUME FactsRowInv, MadeInv, fresh
  PROVE  facts.mrr = Total(MonthlyOf(subs))
  <1>1. IsFiniteSet(DOMAIN customers) /\ IsFiniteSet(DOMAIN subs)
    BY DEF FactsRowInv
  <1>2. PICK cs \in Listings(customers), ss \in Listings(subs) : facts = Made(cs, ss)
    BY DEF MadeInv
  <1>3. Total(Charges(ss)) = Total(MonthlyOf(subs))
    BY MrrOfListing
  <1>4. CASE cs = <<>> /\ ss = <<>>
    <2>1. ActiveIn(subs) = {}
      BY <1>1, <1>4, ListingIsEmpty DEF ActiveIn
    <2>2. MonthlyOf(subs) \in [{} -> Nat] /\ DOMAIN MonthlyOf(subs) = {}
      BY <2>1 DEF MonthlyOf
    <2>3. Total(MonthlyOf(subs)) = 0
      <3> DEFINE w == MonthlyOf(subs)
      <3> HIDE DEF w
      <3>1. w \in [{} -> Nat] /\ DOMAIN w = {}
        BY <2>2 DEF w
      <3>2. Sum(w)[{}] = 0
        BY <3>1, FS_EmptySet, SumIs
      <3>3. Total(w) = 0
        BY <3>1, <3>2, TotalIsSum
      <3> QED
        BY <3>3 DEF w
    <2>4. facts.mrr = 0
      BY <1>2, <1>4 DEF Made, NoFacts
    <2> QED
      BY <2>3, <2>4
  <1>5. CASE ~(cs = <<>> /\ ss = <<>>)
    <2>1. facts.mrr = Total(Charges(ss))
      BY <1>2, <1>5 DEF Made, Aggregate, Charges
    <2> QED
      BY <1>3, <2>1
  <1> QED
    BY <1>4, <1>5

LEMMA MrrOfRows == FactsRowInv /\ MadeInv => MrrIsAYearsTwelfth
  <1> SUFFICES ASSUME FactsRowInv, MadeInv, fresh PROVE MrrIsAYearsTwelfth
    BY DEF MrrIsAYearsTwelfth
  <1> DEFINE mine == ActiveIn(subs)
             v == MonthlyOf(subs)
             w == [s \in mine |-> Yearly(subs[s])]
  <1>1. IsFiniteSet(mine)
    BY FS_Subset DEF FactsRowInv, ActiveIn
  <1>2. \A s \in mine :
          /\ Monthly(subs[s]) \in Nat /\ Yearly(subs[s]) \in Nat
          /\ 12 * Ratio * Monthly(subs[s]) - Yearly(subs[s]) <= 6 * Ratio
          /\ Yearly(subs[s]) - 12 * Ratio * Monthly(subs[s]) <= 6 * Ratio
    BY ActiveRow, MonthlyIsATwelfth DEF ActiveIn
  <1>3. /\ v \in [mine -> Nat] /\ w \in [mine -> Nat]
        /\ \A s \in mine : 12 * Ratio * v[s] - w[s] <= 6 * Ratio /\ w[s] - 12 * Ratio * v[s] <= 6 * Ratio
    BY <1>2 DEF MonthlyOf
  <1>4. 12 * Ratio \in Nat /\ 6 * Ratio \in Nat
    BY RatioAssumption
  <1>5. facts.mrr = Total(v)
    BY MadeMrr
  <1>6. 12 * Ratio * Total(v) - Total(w) \in -(6 * Ratio * Cardinality(mine)) .. 6 * Ratio * Cardinality(mine)
    <2> DEFINE k == 12 * Ratio
               d == 6 * Ratio
    <2> HIDE DEF v, w, mine, k, d
    <2>1. k \in Nat /\ d \in Nat /\ \A s \in mine : k * v[s] - w[s] <= d /\ w[s] - k * v[s] <= d
      BY <1>3, <1>4 DEF k, d
    <2>2. k * Total(v) - Total(w) \in -(d * Cardinality(mine)) .. d * Cardinality(mine)
      BY <1>1, <1>3, <2>1, SumWithin
    <2> QED
      BY <2>2 DEF k, d
  <1> QED
    BY <1>5, <1>6 DEF MrrIsAYearsTwelfth, ActiveIn

(* Of rows just read the monthly revenue is a twelfth of what the active   *)
(* subscriptions cost in a year, to half a cent for each of them: for any  *)
(* number of subscriptions, any amounts, quantities and interval counts.   *)
THEOREM MrrIsRight == Spec => []MrrIsAYearsTwelfth
  <1>1. Init => FactsRowInv /\ MadeInv
    BY FactsRowInit, MadeInit
  <1>2. FactsRowInv /\ MadeInv /\ [Next]_vars => FactsRowInv' /\ MadeInv'
    BY FactsRowStep, MadeStep
  <1> QED
    BY <1>1, <1>2, MrrOfRows, PTL DEF Spec
=============================================================================
