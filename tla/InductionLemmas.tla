-------------------------- MODULE InductionLemmas --------------------------
(***************************************************************************)
(* Induction, sums, sorting and folds as facts to cite.  An induction is   *)
(* carried out on a set, of the numbers or of the subsets for which a fact *)
(* holds: if it were not everything, something would be least outside it.  *)
(* The functions that the community modules choose for sums and folds are  *)
(* shown to exist that way.                                                *)
(***************************************************************************)
EXTENDS Integers, FiniteSets, FiniteSetTheorems, WellFoundedInduction, SequencesExt, TLAPS

(* A set of natural numbers has a least one.                               *)
LEMMA NatMinimum ==
    ASSUME NEW T \in SUBSET Nat, T # {}
    PROVE  \E n \in T : \A m \in T : n <= m
<1> DEFINE R == {s \in Nat \X Nat : s[1] < s[2]}
<1>1. OpToRel(<, Nat) = R
  BY DEF OpToRel
<1>2. IsWellFoundedOn(R, Nat)
  BY <1>1, NatLessThanWellFounded
<1> HIDE DEF R
<1>3. \E n \in T : \A m \in T : ~ (<<m, n>> \in R)
  BY <1>2, WFMin
<1>4. \A m, n \in Nat : m < n => <<m, n>> \in R
  BY DEF R
<1>5. PICK n \in T : \A m \in T : ~ (<<m, n>> \in R)
  BY <1>3
<1>6. \A m \in T : ~ (m < n)
  BY <1>4, <1>5, T \subseteq Nat, n \in Nat, Zenon
<1> QED
  BY <1>6

(* A set of natural numbers that goes up from 0 has them all: whatever is  *)
(* not in it would have a least one.                                       *)
LEMMA NatAscent ==
    ASSUME NEW Q \in SUBSET Nat, 0 \in Q, \A n \in Q : n + 1 \in Q
    PROVE  Q = Nat
<1> SUFFICES ASSUME Nat \ Q # {} PROVE FALSE
  OBVIOUS
<1>1. PICK n \in Nat \ Q : \A m \in Nat \ Q : n <= m
  BY NatMinimum
<1> QED
  BY <1>1

(* Some subsets of a finite set have a smallest one.                       *)
LEMMA SmallestSet ==
    ASSUME NEW S, IsFiniteSet(S), NEW B \in SUBSET SUBSET S, B # {}
    PROVE  \E T \in B : \A U \in B : U \subseteq T => U = T
<1> DEFINE Sizes == {Cardinality(T) : T \in B}
<1>1. \A T \in B : IsFiniteSet(T) /\ Cardinality(T) \in Nat
  BY FS_Subset, FS_CardinalityType
<1>2. PICK n \in Sizes : \A m \in Sizes : n <= m
  <2>1. Sizes \in SUBSET Nat /\ Sizes # {}
    BY <1>1
  <2> HIDE DEF Sizes
  <2> QED
    BY <2>1, NatMinimum
<1>3. PICK T \in B : n = Cardinality(T)
  BY <1>2
<1>4. ASSUME NEW U \in B, U \subseteq T PROVE U = T
  <2>1. Cardinality(T) <= Cardinality(U)
    BY <1>2, <1>3
  <2>2. Cardinality(U) <= Cardinality(T) /\ (Cardinality(T) = Cardinality(U) => T = U)
    BY <1>1, <1>4, FS_Subset
  <2> QED
    BY <1>1, <2>1, <2>2
<1> QED
  BY <1>3, <1>4

(* What holds of nothing and of one element more holds of a finite set.    *)
LEMMA SubsetInduction ==
    ASSUME NEW S, IsFiniteSet(S), NEW G \in SUBSET SUBSET S, {} \in G,
           \A T \in G : \A x \in S \ T : T \cup {x} \in G
    PROVE  S \in G
<1> SUFFICES ASSUME S \notin G PROVE FALSE
  OBVIOUS
<1> DEFINE B == {S \ T : T \in G}
<1>1. PICK U \in B : \A V \in B : V \subseteq U => V = U
  <2>1. S \ {} \in B
    OBVIOUS
  <2>2. B \in SUBSET SUBSET S
    OBVIOUS
  <2> HIDE DEF B
  <2> QED
    BY <2>1, <2>2, SmallestSet
<1>2. PICK T \in G : U = S \ T
  BY <1>1
<1>3. PICK x \in S \ T : TRUE
  BY <1>2
<1>4. S \ (T \cup {x}) \in B /\ S \ (T \cup {x}) \subseteq U /\ x \in U
  BY <1>2, <1>3
<1> QED
  BY <1>1, <1>4

(* A finite set of integers has a greatest one.                            *)
LEMMA FiniteMaximum ==
    ASSUME NEW S \in SUBSET Int, IsFiniteSet(S), S # {}
    PROVE  \E x \in S : \A y \in S : y <= x
<1> DEFINE G == {T \in SUBSET S : T = {} \/ \E x \in T : \A y \in T : y <= x}
<1>1. {} \in G
  OBVIOUS
<1>2. ASSUME NEW T \in G, NEW z \in S \ T PROVE T \cup {z} \in G
  <2>1. CASE T = {}
    BY <2>1
  <2>2. ASSUME NEW x \in T, \A y \in T : y <= x PROVE \E v \in T \cup {z} : \A y \in T \cup {z} : y <= v
    <3>1. CASE z <= x
      BY <2>2, <3>1
    <3>2. CASE x <= z
      BY <2>2, <3>2
    <3> QED
      BY <3>1, <3>2
  <2> QED
    BY <2>1, <2>2
<1>3. S \in G
  <2>1. G \in SUBSET SUBSET S
    OBVIOUS
  <2> HIDE DEF G
  <2> QED
    BY <1>1, <1>2, <2>1, SubsetInduction
<1> QED
  BY <1>3

(* The image of a finite set is finite.                                    *)
LEMMA ImageIsFinite ==
    ASSUME NEW S, IsFiniteSet(S), NEW f
    PROVE  IsFiniteSet({f[x] : x \in S})
<1> DEFINE g == [x \in S |-> f[x]]
<1>1. g \in Surjection(S, {f[x] : x \in S})
  BY DEF Surjection
<1> QED
  BY <1>1, FS_Surjection

(* A set of places that is shifted keeps its size.                         *)
LEMMA ShiftKeepsCount ==
    ASSUME NEW n \in Nat, NEW m \in Nat, NEW D \in SUBSET (1 .. n)
    PROVE  Cardinality({k \in m + 1 .. m + n : k - m \in D}) = Cardinality(D) /\ IsFiniteSet(D)
<1> DEFINE E == {k \in m + 1 .. m + n : k - m \in D}
           f == [i \in D |-> i + m]
<1>1. IsFiniteSet(D)
  <2>1. IsFiniteSet(1 .. n)
    BY FS_Interval
  <2> QED
    BY <2>1, FS_Subset
<1>2. f \in [D -> E] /\ \A i, j \in D : f[i] = f[j] => i = j
  OBVIOUS
<1>3. \A k \in E : k - m \in D /\ f[k - m] = k
  OBVIOUS
<1> HIDE DEF f, E
<1>4. f \in Bijection(D, E)
  BY <1>2, <1>3 DEF Bijection, Injection, Surjection, IsInjective
<1> QED
  BY <1>1, <1>4, FS_Bijection DEF ExistsBijection, E

-----------------------------------------------------------------------------
(* Sorting by a key: the place of an element is its rank.                  *)
RankIn(S, key) == [x \in S |-> Cardinality({y \in S : key[y] <= key[x]})]

(* Where keys differ the rank of an element is its place: every place is   *)
(* taken by one element, in the order of the keys.                         *)
LEMMA RankIsPlace ==
    ASSUME NEW S, IsFiniteSet(S), NEW key \in [S -> Int],
           \A x, y \in S : key[x] = key[y] => x = y
    PROVE  /\ Cardinality(S) \in Nat
           /\ RankIn(S, key) \in [S -> 1 .. Cardinality(S)]
           /\ \A x, y \in S : RankIn(S, key)[x] < RankIn(S, key)[y] <=> key[x] < key[y]
           /\ \A i \in 1 .. Cardinality(S) : \E x \in S : RankIn(S, key)[x] = i
<1> DEFINE rank == RankIn(S, key)
           n == Cardinality(S)
           Upto(x) == {y \in S : key[y] <= key[x]}
<1>1. n \in Nat
  BY FS_CardinalityType
<1>2. ASSUME NEW x \in S PROVE IsFiniteSet(Upto(x)) /\ Cardinality(Upto(x)) \in 1 .. n
  <2>1. IsFiniteSet(Upto(x)) /\ Cardinality(Upto(x)) <= n /\ Cardinality(Upto(x)) \in Nat
    BY FS_Subset, FS_CardinalityType
  <2>2. x \in Upto(x)
    OBVIOUS
  <2>3. Cardinality(Upto(x)) # 0
    BY <2>1, <2>2, FS_EmptySet
  <2> QED
    BY <2>1, <2>3
<1>3. ASSUME NEW x \in S, NEW y \in S, key[x] < key[y]
      PROVE  Cardinality(Upto(x)) < Cardinality(Upto(y))
  <2>1. Upto(x) \subseteq Upto(y) /\ y \in Upto(y) /\ y \notin Upto(x)
    BY <1>3
  <2>2. /\ Cardinality(Upto(x)) <= Cardinality(Upto(y))
        /\ Cardinality(Upto(x)) # Cardinality(Upto(y))
    BY <1>2, <2>1, FS_Subset
  <2> DEFINE a == Cardinality(Upto(x))
             b == Cardinality(Upto(y))
  <2>3. a \in 1 .. n /\ b \in 1 .. n
    BY <1>2
  <2>4. a <= b /\ a # b
    BY <2>2
  <2> HIDE DEF a, b, n
  <2>5. a < b
    BY <1>1, <2>3, <2>4
  <2> QED
    BY <2>5 DEF a, b
<1>4. \A x \in S : rank[x] = Cardinality(Upto(x))
  BY DEF RankIn
<1>5. rank \in [S -> 1 .. n]
  BY <1>2 DEF RankIn
<1> HIDE DEF n, Upto, rank
<1>6. \A x, y \in S : rank[x] < rank[y] <=> key[x] < key[y]
  <2> TAKE x, y \in S
  <2>1. key[x] < key[y] => rank[x] < rank[y]
    BY <1>3, <1>4
  <2>2. key[y] < key[x] => rank[y] < rank[x]
    BY <1>3, <1>4
  <2>3. rank[x] \in Nat /\ rank[y] \in Nat
    BY <1>5, <1>1
  <2> QED
    BY <2>1, <2>2, <2>3
<1>7. rank \in Injection(S, 1 .. n)
  <2>1. \A x, y \in S : rank[x] = rank[y] => x = y
    <3> TAKE x, y \in S
    <3>1. rank[x] \in Nat /\ rank[y] \in Nat
      BY <1>5, <1>1
    <3>2. key[x] \in Int /\ key[y] \in Int
      OBVIOUS
    <3> QED
      BY <1>6, <3>1, <3>2
  <2> QED
    BY <1>5, <2>1 DEF Injection, IsInjective
<1>8. IsFiniteSet(1 .. n) /\ Cardinality(1 .. n) = n
  BY <1>1, FS_Interval
<1>9. rank \in Surjection(S, 1 .. n)
  BY <1>7, <1>8, FS_Injection DEF n
<1>10. \A i \in 1 .. n : \E x \in S : rank[x] = i
  BY <1>9 DEF Surjection
<1> QED
  BY <1>1, <1>5, <1>6, <1>10 DEF n, rank

-----------------------------------------------------------------------------
(* Sums over a finite set.                                                 *)
Picked(s) == CHOOSE x \in s : TRUE

Rec(w, S) ==
    CHOOSE iter : iter = [s \in SUBSET S |-> IF s = {} THEN 0 ELSE w[Picked(s)] + iter[s \ {Picked(s)}]]

(* The sum as the function that the community module chooses.              *)
LEMMA SumUnfold == \A w, S : SumFunctionOnSet(w, S) = Rec(w, S)[S]
  BY DEF SumFunctionOnSet, FoldFunctionOnSet, MapThenFoldSet, Rec, Picked

(* There is such a function.                                               *)
LEMMA RecExists ==
    ASSUME NEW w, NEW S, IsFiniteSet(S)
    PROVE  \A s \in SUBSET S :
               Rec(w, S)[s] = IF s = {} THEN 0 ELSE w[Picked(s)] + Rec(w, S)[s \ {Picked(s)}]
<1> DEFINE Step(g) == [s \in SUBSET S |-> IF s = {} THEN 0 ELSE w[Picked(s)] + g[s \ {Picked(s)}]]
           Small(n) == {s \in SUBSET S : Cardinality(s) <= n}
           Agrees(g, n) == \A s \in Small(n) : g[s] = IF s = {} THEN 0 ELSE w[Picked(s)] + g[s \ {Picked(s)}]
           Q == {n \in Nat : \E g : Agrees(g, n)}
<1>1. \A s \in SUBSET S : IsFiniteSet(s) /\ Cardinality(s) \in Nat /\ Cardinality(s) <= Cardinality(S)
  BY FS_Subset, FS_CardinalityType
<1>2. \A s \in SUBSET S : s # {} =>
          /\ Picked(s) \in s
          /\ Cardinality(s \ {Picked(s)}) = Cardinality(s) - 1
          /\ s \ {Picked(s)} \in SUBSET S
  BY <1>1, FS_RemoveElement DEF Picked
<1>3. 0 \in Q
  <2> DEFINE g == [s \in SUBSET S |-> 0]
  <2>1. \A s \in Small(0) : s = {}
    BY <1>1, FS_EmptySet
  <2>2. Agrees(g, 0)
    BY <2>1
  <2> QED
    BY <2>2
<1>4. ASSUME NEW n \in Q PROVE n + 1 \in Q
  <2>1. PICK g : Agrees(g, n)
    BY <1>4
  <2> DEFINE h == Step(g)
  <2>2. \A s \in SUBSET S : h[s] = IF s = {} THEN 0 ELSE w[Picked(s)] + g[s \ {Picked(s)}]
    OBVIOUS
  <2> HIDE DEF h
  <2>3. \A s \in Small(n) : h[s] = g[s]
    BY <2>1, <2>2
  <2>4. \A s \in Small(n + 1) : s # {} => s \ {Picked(s)} \in Small(n)
    BY <1>1, <1>2
  <2>5. Agrees(h, n + 1)
    BY <2>2, <2>3, <2>4
  <2>6. \E f : Agrees(f, n + 1)
    BY <2>5
  <2> HIDE DEF Agrees
  <2> QED
    BY <2>6
<1>5. Cardinality(S) \in Q
  <2>1. Q \in SUBSET Nat
    OBVIOUS
  <2> HIDE DEF Q
  <2>2. Q = Nat
    BY <2>1, <1>3, <1>4, NatAscent
  <2> QED
    BY <2>2, FS_CardinalityType
<1>6. PICK g : Agrees(g, Cardinality(S))
  BY <1>5
<1>7. \A s \in SUBSET S : s \in Small(Cardinality(S))
  BY <1>1
<1> DEFINE h == [s \in SUBSET S |-> g[s]]
<1>8. h = Step(h)
  <2>1. \A s \in SUBSET S : h[s] = IF s = {} THEN 0 ELSE w[Picked(s)] + h[s \ {Picked(s)}]
    BY <1>2, <1>6, <1>7
  <2>2. \A s \in SUBSET S : Step(h)[s] = h[s]
    BY <2>1
  <2> QED
    BY <2>2
<1> HIDE DEF h
<1>9. Rec(w, S) = Step(Rec(w, S))
  BY <1>8 DEF Rec
<1>10. \A f : f = Step(f) => \A s \in SUBSET S : f[s] = IF s = {} THEN 0 ELSE w[Picked(s)] + f[s \ {Picked(s)}]
  OBVIOUS
<1> HIDE DEF Step
<1> QED
  BY <1>9, <1>10

(* Nothing sums to zero.                                                   *)
LEMMA SumEmpty == ASSUME NEW w PROVE SumFunctionOnSet(w, {}) = 0
<1>1. Rec(w, {})[{}] = 0
  BY RecExists, FS_EmptySet
<1> QED
  BY <1>1, SumUnfold

(* A sum is any one of its values and the sum of the others, whichever     *)
(* CHOOSE picks first.                                                     *)
LEMMA SumOneOut ==
    ASSUME NEW S, IsFiniteSet(S), NEW w, \A y \in S : w[y] \in Int, NEW x \in S
    PROVE  /\ SumFunctionOnSet(w, S) \in Int
           /\ SumFunctionOnSet(w, S) = w[x] + SumFunctionOnSet(w, S \ {x})
<1> DEFINE Total(T) == SumFunctionOnSet(w, T)
<1>1. \A T \in SUBSET S : IsFiniteSet(T)
  BY FS_Subset
<1>2. ASSUME NEW T \in SUBSET S
      PROVE  \A U \in SUBSET T : Rec(w, T)[U] = IF U = {} THEN 0 ELSE w[Picked(U)] + Rec(w, T)[U \ {Picked(U)}]
  BY <1>1, <1>2, RecExists
<1>3. ASSUME NEW T \in SUBSET S
      PROVE  \A U \in SUBSET T : Rec(w, T)[U] = Rec(w, U)[U]
  <2> DEFINE B == {U \in SUBSET T : \E V \in SUBSET T : U \subseteq V /\ Rec(w, V)[U] # Rec(w, U)[U]}
  <2>1. SUFFICES ASSUME B # {} PROVE FALSE
    OBVIOUS
  <2>2. PICK U \in B : \A V \in B : V \subseteq U => V = U
    <3>1. B \in SUBSET SUBSET T
      OBVIOUS
    <3> HIDE DEF B
    <3> QED
      BY <1>1, <1>3, <2>1, <3>1, SmallestSet
  <2>3. PICK V \in SUBSET T : U \subseteq V /\ Rec(w, V)[U] # Rec(w, U)[U]
    BY <2>2
  <2>4. U # {}
    BY <1>2, <2>3
  <2>5. Picked(U) \in U /\ U \ {Picked(U)} \in SUBSET T /\ U \ {Picked(U)} # U /\ U \ {Picked(U)} \subseteq U
    BY <2>4 DEF Picked
  <2>6. U \ {Picked(U)} \notin B
    BY <2>2, <2>5
  <2> DEFINE R == U \ {Picked(U)}
  <2>7. Rec(w, V)[R] = Rec(w, R)[R] /\ Rec(w, U)[R] = Rec(w, R)[R]
    BY <2>2, <2>3, <2>5, <2>6
  <2>8. Rec(w, V)[U] = w[Picked(U)] + Rec(w, V)[R] /\ Rec(w, U)[U] = w[Picked(U)] + Rec(w, U)[R]
    BY <1>2, <1>3, <2>2, <2>3, <2>4
  <2> QED
    BY <2>3, <2>7, <2>8
<1>4. \A T \in SUBSET S : T # {} => Picked(T) \in T /\ Total(T) = w[Picked(T)] + Total(T \ {Picked(T)})
  <2> TAKE T \in SUBSET S
  <2> HAVE T # {}
  <2>1. Picked(T) \in T
    BY DEF Picked
  <2>2. Rec(w, T)[T] = w[Picked(T)] + Rec(w, T)[T \ {Picked(T)}]
    BY <1>2
  <2>3. Rec(w, T)[T \ {Picked(T)}] = Rec(w, T \ {Picked(T)})[T \ {Picked(T)}]
    BY <1>3
  <2> QED
    BY <2>1, <2>2, <2>3, SumUnfold
<1>5. Total({}) = 0
  BY SumEmpty
<1> HIDE DEF Total
<1>6. \A T \in SUBSET S : Total(T) \in Int
  <2> DEFINE B == {T \in SUBSET S : Total(T) \notin Int}
  <2> SUFFICES ASSUME B # {} PROVE FALSE
    OBVIOUS
  <2>1. PICK T \in B : \A U \in B : U \subseteq T => U = T
    <3>1. B \in SUBSET SUBSET S
      OBVIOUS
    <3> HIDE DEF B
    <3> QED
      BY <3>1, SmallestSet
  <2>4. Total(T) \notin Int
    BY <2>1
  <2>2. T # {}
    BY <1>5, <2>4
  <2>3. T \ {Picked(T)} \notin B /\ Picked(T) \in T
    BY <1>4, <2>1, <2>2
  <2> QED
    BY <1>4, <2>1, <2>2, <2>3
<1>7. \A T \in SUBSET S : \A y \in T : Total(T) = w[y] + Total(T \ {y})
  <2> DEFINE B == {T \in SUBSET S : \E y \in T : Total(T) # w[y] + Total(T \ {y})}
  <2> SUFFICES ASSUME B # {} PROVE FALSE
    OBVIOUS
  <2>1. PICK T \in B : \A U \in B : U \subseteq T => U = T
    <3>1. B \in SUBSET SUBSET S
      OBVIOUS
    <3> HIDE DEF B
    <3> QED
      BY <3>1, SmallestSet
  <2>2. PICK y \in T : Total(T) # w[y] + Total(T \ {y})
    BY <2>1
  <2> DEFINE c == Picked(T)
  <2>3. c \in T /\ Total(T) = w[c] + Total(T \ {c})
    BY <1>4, <2>1, <2>2
  <2> HIDE DEF c
  <2>4. c # y
    BY <2>2, <2>3
  <2>5. T \ {c} \notin B /\ T \ {y} \notin B
    BY <2>1, <2>2, <2>3
  <2>6. Total(T \ {c}) = w[y] + Total((T \ {c}) \ {y}) /\ Total(T \ {y}) = w[c] + Total((T \ {y}) \ {c})
    BY <2>1, <2>2, <2>3, <2>4, <2>5
  <2>7. (T \ {c}) \ {y} = (T \ {y}) \ {c}
    OBVIOUS
  <2>8. w[y] \in Int /\ w[c] \in Int /\ Total((T \ {c}) \ {y}) \in Int
    BY <1>6, <2>1, <2>2, <2>3
  <2> DEFINE r == Total((T \ {c}) \ {y})
  <2>9. /\ Total(T) = w[c] + (w[y] + r) /\ Total(T \ {y}) = w[c] + r
        /\ w[y] \in Int /\ w[c] \in Int /\ r \in Int
    BY <2>3, <2>6, <2>7, <2>8
  <2> HIDE DEF r
  <2> QED
    BY <2>2, <2>9
<1> QED
  BY <1>6, <1>7 DEF Total

(* A sum of integers is an integer.                                        *)
LEMMA SumIsInt ==
    ASSUME NEW S, IsFiniteSet(S), NEW w, \A y \in S : w[y] \in Int
    PROVE  SumFunctionOnSet(w, S) \in Int
<1>1. CASE S = {}
  BY <1>1, SumEmpty
<1>2. CASE \E x \in S : TRUE
  BY <1>2, SumOneOut
<1> QED
  BY <1>1, <1>2

(* A new element adds its value.                                          *)
LEMMA SumOneIn ==
    ASSUME NEW S, IsFiniteSet(S), NEW x, x \notin S, NEW w, \A y \in S \cup {x} : w[y] \in Int
    PROVE  SumFunctionOnSet(w, S \cup {x}) = w[x] + SumFunctionOnSet(w, S)
<1>1. IsFiniteSet(S \cup {x}) /\ x \in S \cup {x} /\ (S \cup {x}) \ {x} = S
  BY FS_AddElement
<1> QED
  BY <1>1, SumOneOut

(* What holds of the empty sum and of a sum with one more element holds of *)
(* every sum: the values over a set are those of another function.         *)
LEMMA SumSame ==
    ASSUME NEW S, IsFiniteSet(S), NEW w, NEW v, \A y \in S : w[y] \in Int /\ v[y] = w[y]
    PROVE  SumFunctionOnSet(v, S) = SumFunctionOnSet(w, S)
<1> DEFINE G == {T \in SUBSET S : SumFunctionOnSet(v, T) = SumFunctionOnSet(w, T)}
<1>1. {} \in G
  BY SumEmpty
<1>2. ASSUME NEW T \in G, NEW x \in S \ T PROVE T \cup {x} \in G
  <2>1. IsFiniteSet(T) /\ x \notin T /\ \A y \in T \cup {x} : w[y] \in Int /\ v[y] \in Int
    BY FS_Subset
  <2>2. /\ SumFunctionOnSet(v, T \cup {x}) = v[x] + SumFunctionOnSet(v, T)
        /\ SumFunctionOnSet(w, T \cup {x}) = w[x] + SumFunctionOnSet(w, T)
    BY <2>1, SumOneIn
  <2> QED
    BY <2>2
<1>3. G \in SUBSET SUBSET S
  OBVIOUS
<1> HIDE DEF G
<1>4. S \in G
  BY <1>1, <1>2, <1>3, SubsetInduction
<1> QED
  BY <1>4 DEF G

(* The sums of disjoint sets add up.                                       *)
LEMMA SumUnion ==
    ASSUME NEW S, IsFiniteSet(S), NEW T, IsFiniteSet(T), S \cap T = {},
           NEW w, \A y \in S \cup T : w[y] \in Int
    PROVE  SumFunctionOnSet(w, S \cup T) = SumFunctionOnSet(w, S) + SumFunctionOnSet(w, T)
<1> DEFINE Total(U) == SumFunctionOnSet(w, U)
           G == {U \in SUBSET T : Total(S \cup U) = Total(S) + Total(U)}
<1>1. {} \in G
  <2>1. Total({}) = 0 /\ S \cup {} = S /\ Total(S) \in Int
    BY SumEmpty, SumIsInt
  <2> HIDE DEF Total
  <2> QED
    BY <2>1
<1>2. ASSUME NEW U \in G, NEW x \in T \ U PROVE U \cup {x} \in G
  <2>1. /\ IsFiniteSet(U) /\ IsFiniteSet(S \cup U) /\ x \notin U /\ x \notin S \cup U
        /\ (S \cup U) \cup {x} = S \cup (U \cup {x})
    BY FS_Subset, FS_Union
  <2>6. \A y \in (S \cup U) \cup {x} : w[y] \in Int
    OBVIOUS
  <2>7. Total((S \cup U) \cup {x}) = w[x] + Total(S \cup U)
    BY <2>1, <2>6, SumOneIn
  <2>2. Total((S \cup U) \cup {x}) = w[x] + Total(S \cup U) /\ Total(U \cup {x}) = w[x] + Total(U)
    BY <2>1, <2>6, <2>7, SumOneIn
  <2>3. Total(S) \in Int /\ Total(U) \in Int /\ w[x] \in Int
    BY <2>1, SumIsInt
  <2>4. Total(S \cup U) = Total(S) + Total(U)
    OBVIOUS
  <2> DEFINE a == Total(S)
             b == Total(U)
             c == w[x]
             d == Total(S \cup (U \cup {x}))
  <2>8. a \in Int /\ b \in Int /\ c \in Int /\ d = c + (a + b) /\ Total(U \cup {x}) = c + b
    BY <2>1, <2>2, <2>3, <2>4
  <2> HIDE DEF a, b, c, d
  <2>5. d = a + (c + b)
    BY <2>8
  <2> QED
    BY <2>5, <2>8 DEF a, d
<1>3. G \in SUBSET SUBSET T
  OBVIOUS
<1> HIDE DEF G
<1>4. T \in G
  BY <1>1, <1>2, <1>3, SubsetInduction
<1> QED
  BY <1>4 DEF G

(* A sum of natural numbers is one.                                        *)
LEMMA SumIsNatural ==
    ASSUME NEW S, IsFiniteSet(S), NEW w, \A y \in S : w[y] \in Nat
    PROVE  SumFunctionOnSet(w, S) \in Nat
<1> DEFINE G == {T \in SUBSET S : SumFunctionOnSet(w, T) \in Nat}
<1>1. {} \in G
  BY SumEmpty
<1>2. ASSUME NEW T \in G, NEW x \in S \ T PROVE T \cup {x} \in G
  <2>1. IsFiniteSet(T) /\ x \notin T /\ \A y \in T \cup {x} : w[y] \in Int
    BY FS_Subset
  <2>2. SumFunctionOnSet(w, T \cup {x}) = w[x] + SumFunctionOnSet(w, T)
    BY <2>1, SumOneIn
  <2> QED
    BY <2>2
<1>3. G \in SUBSET SUBSET S
  OBVIOUS
<1> HIDE DEF G
<1>4. S \in G
  BY <1>1, <1>2, <1>3, SubsetInduction
<1> QED
  BY <1>4 DEF G

(* Zeros sum to zero.                                                      *)
LEMMA SumZero ==
    ASSUME NEW S, IsFiniteSet(S), NEW w, \A y \in S : w[y] = 0
    PROVE  SumFunctionOnSet(w, S) = 0
<1> DEFINE G == {T \in SUBSET S : SumFunctionOnSet(w, T) = 0}
<1>1. {} \in G
  BY SumEmpty
<1>2. ASSUME NEW T \in G, NEW x \in S \ T PROVE T \cup {x} \in G
  <2>1. IsFiniteSet(T) /\ x \notin T /\ \A y \in T \cup {x} : w[y] \in Int
    BY FS_Subset
  <2>2. SumFunctionOnSet(w, T \cup {x}) = w[x] + SumFunctionOnSet(w, T)
    BY <2>1, SumOneIn
  <2> QED
    BY <2>2
<1>3. G \in SUBSET SUBSET S
  OBVIOUS
<1> HIDE DEF G
<1>4. S \in G
  BY <1>1, <1>2, <1>3, SubsetInduction
<1> QED
  BY <1>4 DEF G

(* A part of a sum, of values that are not negative, is no more than it,   *)
(* and is all of it if the rest is zero.                                   *)
LEMMA SumOfPart ==
    ASSUME NEW S, IsFiniteSet(S), NEW T \in SUBSET S, NEW w, \A y \in S : w[y] \in Nat
    PROVE  /\ SumFunctionOnSet(w, T) <= SumFunctionOnSet(w, S)
           /\ (\A y \in S \ T : w[y] = 0) => SumFunctionOnSet(w, T) = SumFunctionOnSet(w, S)
<1>1. /\ IsFiniteSet(T) /\ IsFiniteSet(S \ T) /\ T \cap (S \ T) = {} /\ T \cup (S \ T) = S
      /\ \A y \in T \cup (S \ T) : w[y] \in Int
  BY FS_Subset
<1> DEFINE whole == SumFunctionOnSet(w, S)
           part == SumFunctionOnSet(w, T)
           rest == SumFunctionOnSet(w, S \ T)
<1>2. whole = part + rest
  BY <1>1, SumUnion
<1>3. part \in Nat /\ rest \in Nat
  BY <1>1, SumIsNatural
<1>4. (\A y \in S \ T : w[y] = 0) => rest = 0
  BY <1>1, SumZero
<1> HIDE DEF whole, part, rest
<1>5. part <= whole /\ (rest = 0 => part = whole)
  BY <1>2, <1>3
<1> QED
  BY <1>4, <1>5 DEF whole, part

(* One value that changes moves the sum by as much.                        *)
LEMMA SumOneChange ==
    ASSUME NEW S, IsFiniteSet(S), NEW x, NEW w, NEW v,
           \A y \in S : w[y] \in Int /\ v[y] \in Int,
           \A y \in S : y # x => v[y] = w[y]
    PROVE  SumFunctionOnSet(v, S) =
               IF x \in S THEN SumFunctionOnSet(w, S) + v[x] - w[x] ELSE SumFunctionOnSet(w, S)
<1>1. CASE x \notin S
  BY <1>1, SumSame
<1>2. CASE x \in S
  <2>1. IsFiniteSet(S \ {x}) /\ \A y \in S \ {x} : w[y] \in Int /\ v[y] = w[y]
    BY FS_Subset
  <2> DEFINE a == SumFunctionOnSet(v, S)
             b == SumFunctionOnSet(w, S)
             c == SumFunctionOnSet(v, S \ {x})
             d == SumFunctionOnSet(w, S \ {x})
             vx == v[x]
             wx == w[x]
  <2>2. a = vx + c /\ b = wx + d
    BY <1>2, SumOneOut
  <2>3. c = d
    BY <2>1, SumSame
  <2>4. d \in Int /\ vx \in Int /\ wx \in Int
    BY <1>2, <2>1, SumIsInt
  <2> HIDE DEF a, b, c, d, vx, wx
  <2>5. a = b + vx - wx
    BY <2>2, <2>3, <2>4
  <2> QED
    BY <1>2, <2>5 DEF a, b, vx, wx
<1> QED
  BY <1>1, <1>2

(* A sum over the images of a set that an injective function gives.        *)
LEMMA SumOfImage ==
    ASSUME NEW S, IsFiniteSet(S), NEW f, \A x, y \in S : f[x] = f[y] => x = y,
           NEW w, NEW v, \A x \in S : v[x] \in Int /\ w[f[x]] = v[x]
    PROVE  SumFunctionOnSet(w, {f[x] : x \in S}) = SumFunctionOnSet(v, S)
<1> DEFINE Image(T) == {f[x] : x \in T}
           G == {T \in SUBSET S : SumFunctionOnSet(w, Image(T)) = SumFunctionOnSet(v, T)}
<1>1. {} \in G
  <2>1. Image({}) = {}
    OBVIOUS
  <2> QED
    BY <2>1, SumEmpty
<1>2. ASSUME NEW T \in G, NEW x \in S \ T PROVE T \cup {x} \in G
  <2>1. IsFiniteSet(T)
    BY FS_Subset
  <2>2. /\ IsFiniteSet(Image(T)) /\ f[x] \notin Image(T) /\ Image(T \cup {x}) = Image(T) \cup {f[x]}
        /\ \A z \in Image(T) \cup {f[x]} : w[z] \in Int
    BY <2>1, ImageIsFinite
  <2> HIDE DEF Image
  <2>3. SumFunctionOnSet(w, Image(T \cup {x})) = w[f[x]] + SumFunctionOnSet(w, Image(T))
    BY <2>2, SumOneIn
  <2>4. SumFunctionOnSet(v, T \cup {x}) = v[x] + SumFunctionOnSet(v, T)
    BY <2>1, SumOneIn
  <2> QED
    BY <2>3, <2>4
<1>3. G \in SUBSET SUBSET S
  OBVIOUS
<1> HIDE DEF G
<1>4. S \in G
  BY <1>1, <1>2, <1>3, SubsetInduction
<1> QED
  BY <1>4 DEF G

(* A sum by parts: each value is the sum over a part, and the parts make   *)
(* up the whole.                                                           *)
LEMMA SumOfParts ==
    ASSUME NEW S, IsFiniteSet(S), NEW T, IsFiniteSet(T),
           NEW part, \A m \in T : part[m] \in SUBSET S,
           \A m, n \in T : m # n => part[m] \cap part[n] = {},
           \A y \in S : \E m \in T : y \in part[m],
           NEW w, \A y \in S : w[y] \in Int,
           NEW v, \A m \in T : v[m] = SumFunctionOnSet(w, part[m])
    PROVE  SumFunctionOnSet(v, T) = SumFunctionOnSet(w, S)
<1> DEFINE Members(U) == {y \in S : \E m \in U : y \in part[m]}
           G == {U \in SUBSET T : SumFunctionOnSet(v, U) = SumFunctionOnSet(w, Members(U))}
<1>1. \A U : IsFiniteSet(Members(U)) /\ \A y \in Members(U) : w[y] \in Int
  BY FS_Subset
<1>2. \A m \in T : IsFiniteSet(part[m]) /\ \A y \in part[m] : w[y] \in Int
  BY FS_Subset
<1>3. \A m \in T : v[m] \in Int
  BY <1>2, SumIsInt
<1>4. {} \in G
  <2>1. Members({}) = {}
    OBVIOUS
  <2> QED
    BY <2>1, SumEmpty
<1>5. ASSUME NEW U \in G, NEW m \in T \ U PROVE U \cup {m} \in G
  <2> DEFINE A == part[m]
             B == Members(U)
             C == Members(U \cup {m})
  <2>1. IsFiniteSet(A) /\ IsFiniteSet(B) /\ \A y \in A \cup B : w[y] \in Int
    BY <1>1, <1>2
  <2>2. C = A \cup B /\ A \cap B = {}
    OBVIOUS
  <2>3. SumFunctionOnSet(v, U \cup {m}) = v[m] + SumFunctionOnSet(v, U)
    <3>1. IsFiniteSet(U) /\ m \notin U /\ \A n \in U \cup {m} : v[n] \in Int
      BY <1>3, FS_Subset
    <3> QED
      BY <3>1, SumOneIn
  <2>4. v[m] = SumFunctionOnSet(w, A) /\ SumFunctionOnSet(v, U) = SumFunctionOnSet(w, B)
    OBVIOUS
  <2> HIDE DEF A, B, C
  <2>5. SumFunctionOnSet(w, C) = SumFunctionOnSet(w, A) + SumFunctionOnSet(w, B)
    BY <2>1, <2>2, SumUnion
  <2>6. SumFunctionOnSet(v, U \cup {m}) = SumFunctionOnSet(w, C)
    BY <2>3, <2>4, <2>5
  <2> QED
    BY <2>6 DEF C
<1>6. G \in SUBSET SUBSET T
  OBVIOUS
<1>7. Members(T) = S
  OBVIOUS
<1> HIDE DEF G
<1>8. T \in G
  BY <1>4, <1>5, <1>6, SubsetInduction
<1> QED
  BY <1>7, <1>8 DEF G

(* A common factor can be taken out of a sum.                              *)
LEMMA SumTimes ==
    ASSUME NEW S, IsFiniteSet(S), NEW k \in Int, NEW w, NEW v,
           \A y \in S : w[y] \in Int /\ v[y] = w[y] * k
    PROVE  SumFunctionOnSet(v, S) = SumFunctionOnSet(w, S) * k
<1> DEFINE G == {T \in SUBSET S : SumFunctionOnSet(v, T) = SumFunctionOnSet(w, T) * k}
<1>1. {} \in G
  <2>1. 0 * k = 0
    OBVIOUS
  <2> QED
    BY <2>1, SumEmpty
<1>2. ASSUME NEW T \in G, NEW x \in S \ T PROVE T \cup {x} \in G
  <2>1. /\ IsFiniteSet(T) /\ x \notin T
        /\ \A y \in T \cup {x} : w[y] \in Int /\ v[y] \in Int
    <3>1. \A a, b \in Int : a * b \in Int
      OBVIOUS
    <3> QED
      BY <3>1, FS_Subset
  <2>2. /\ SumFunctionOnSet(v, T \cup {x}) = v[x] + SumFunctionOnSet(v, T)
        /\ SumFunctionOnSet(w, T \cup {x}) = w[x] + SumFunctionOnSet(w, T)
        /\ SumFunctionOnSet(w, T) \in Int
    BY <2>1, SumOneIn, SumIsInt
  <2>3. \A a, b \in Int : (a + b) * k = a * k + b * k
    OBVIOUS
  <2>4. (w[x] + SumFunctionOnSet(w, T)) * k = w[x] * k + SumFunctionOnSet(w, T) * k
    BY <2>1, <2>2, <2>3
  <2> QED
    BY <2>2, <2>4
<1>3. G \in SUBSET SUBSET S
  OBVIOUS
<1> HIDE DEF G
<1>4. S \in G
  BY <1>1, <1>2, <1>3, SubsetInduction
<1> QED
  BY <1>4 DEF G

-----------------------------------------------------------------------------
(* Folding.                                                                *)

(* A step from each value of a set to another folds over 1 .. n: there is  *)
(* what FoldLeft chooses.                                                  *)
FoldsFrom(iter, base, g, n, A) ==
    /\ iter \in [SUBSET (1 .. n) -> A]
    /\ \A s \in SUBSET (1 .. n) :
        iter[s] = IF s = {} THEN base ELSE g[<<Max(s), iter[s \ {Max(s)}]>>]

(* There is a fold, built up from the prefix of each length.               *)
LEMMA FoldExists ==
    ASSUME NEW n \in Nat, NEW A, NEW base \in A, NEW g \in [(1 .. n) \X A -> A]
    PROVE  \E iter : FoldsFrom(iter, base, g, n, A)
<1> DEFINE S == 1 .. n
           Value(f, s) == IF s = {} THEN base ELSE g[<<Max(s), f[s \ {Max(s)}]>>]
           Small(m) == {s \in SUBSET S : Cardinality(s) <= m}
           Agrees(f, m) == f \in [SUBSET S -> A] /\ \A s \in Small(m) : f[s] = Value(f, s)
           Q == {m \in Nat : \E f : Agrees(f, m)}
<1>1. IsFiniteSet(S) /\ \A s \in SUBSET S :
          IsFiniteSet(s) /\ Cardinality(s) \in Nat /\ Cardinality(s) <= Cardinality(S)
  <2>1. IsFiniteSet(S)
    BY FS_Interval
  <2> HIDE DEF S
  <2> QED
    BY <2>1, FS_Subset, FS_CardinalityType
<1>2. ASSUME NEW s \in SUBSET S, s # {}
      PROVE  /\ Max(s) \in s /\ s \ {Max(s)} \in SUBSET S
             /\ Cardinality(s \ {Max(s)}) = Cardinality(s) - 1
  <2>1. s \in SUBSET Int /\ IsFiniteSet(s)
    BY <1>1
  <2>2. \E x \in s : \A y \in s : y <= x
    BY <1>2, <2>1, FiniteMaximum
  <2>3. \E x \in s : \A y \in s : x >= y
    BY <2>1, <2>2
  <2>4. Max(s) \in s
    BY <2>3 DEF Max
  <2> QED
    BY <2>1, <2>4, FS_RemoveElement
<1>3. ASSUME NEW f \in [SUBSET S -> A], NEW s \in SUBSET S PROVE Value(f, s) \in A
  <2>1. CASE s = {}
    BY <2>1
  <2>2. CASE s # {}
    <3>1. Max(s) \in 1 .. n /\ f[s \ {Max(s)}] \in A
      BY <1>2, <2>2
    <3> QED
      BY <2>2, <3>1
  <2> QED
    BY <2>1, <2>2
<1>4. 0 \in Q
  <2> DEFINE f == [s \in SUBSET S |-> base]
  <2>1. \A s \in Small(0) : s = {}
    BY <1>1, FS_EmptySet
  <2>2. Agrees(f, 0)
    BY <2>1
  <2> QED
    BY <2>2
<1>5. ASSUME NEW m \in Q PROVE m + 1 \in Q
  <2>1. PICK f : Agrees(f, m)
    BY <1>5
  <2> DEFINE h == [s \in SUBSET S |-> Value(f, s)]
  <2>2. h \in [SUBSET S -> A]
    <3> HIDE DEF Value
    <3> QED
      BY <1>3, <2>1
  <2>3. \A s \in SUBSET S : h[s] = Value(f, s)
    OBVIOUS
  <2> HIDE DEF h
  <2>4. \A s \in Small(m) : h[s] = f[s]
    BY <2>1, <2>3
  <2>5. ASSUME NEW s \in Small(m + 1), s # {} PROVE s \ {Max(s)} \in Small(m)
    <3>1. s \in SUBSET S /\ Cardinality(s) <= m + 1 /\ Cardinality(s) \in Nat /\ m \in Nat
      BY <1>1
    <3>2. s \ {Max(s)} \in SUBSET S /\ Cardinality(s \ {Max(s)}) = Cardinality(s) - 1
      BY <1>2, <2>5, <3>1
    <3> QED
      BY <3>1, <3>2
  <2>6. \A s \in Small(m + 1) : h[s] = Value(h, s)
    BY <2>3, <2>4, <2>5
  <2>7. Agrees(h, m + 1)
    BY <2>2, <2>6
  <2>8. \E e : Agrees(e, m + 1)
    BY <2>7
  <2> HIDE DEF Agrees
  <2> QED
    BY <2>8
<1>6. Cardinality(S) \in Q
  <2>1. Q \in SUBSET Nat
    OBVIOUS
  <2> HIDE DEF Q
  <2>2. Q = Nat
    BY <2>1, <1>4, <1>5, NatAscent
  <2> QED
    BY <1>1, <2>2
<1>7. PICK f : Agrees(f, Cardinality(S))
  BY <1>6
<1>8. \A s \in SUBSET S : s \in Small(Cardinality(S))
  BY <1>1
<1>9. FoldsFrom(f, base, g, n, A)
  BY <1>7, <1>8 DEF FoldsFrom
<1> QED
  BY <1>9

(* The fold of a prefix takes its last place first.                        *)
LEMMA PrefixMaximum ==
    ASSUME NEW n \in Nat, NEW k \in 1 .. n
    PROVE  /\ Max(1 .. k) = k /\ (1 .. k) \ {Max(1 .. k)} = 1 .. (k - 1)
           /\ 1 .. k \in SUBSET (1 .. n) /\ 1 .. k # {} /\ 1 .. (k - 1) \in SUBSET (1 .. n)
<1>1. k \in 1 .. k /\ \A y \in 1 .. k : k >= y
  OBVIOUS
<1>2. Max(1 .. k) \in 1 .. k /\ \A y \in 1 .. k : Max(1 .. k) >= y
  BY <1>1 DEF Max
<1>3. Max(1 .. k) = k
  BY <1>1, <1>2
<1> QED
  BY <1>3

(* The greatest place of a part is one of it.                              *)
LEMMA MaximumOfPart ==
    ASSUME NEW n \in Nat, NEW p \in SUBSET (1 .. n), p # {}
    PROVE  Max(p) \in p /\ Max(p) \in 1 .. n /\ p \ {Max(p)} \in SUBSET (1 .. n)
<1>1. p \in SUBSET Int /\ IsFiniteSet(p)
  <2>1. IsFiniteSet(1 .. n)
    BY FS_Interval
  <2>2. p \in SUBSET Int
    OBVIOUS
  <2> QED
    BY <2>1, <2>2, FS_Subset
<1>2. \E x \in p : \A y \in p : y <= x
  BY <1>1, FiniteMaximum
<1>3. \E x \in p : \A y \in p : x >= y
  BY <1>1, <1>2
<1>4. Max(p) \in p
  BY <1>3 DEF Max
<1> QED
  BY <1>4
====
