------------------------------ MODULE DataFacts -----------------------------
(***************************************************************************)
(* Lemmas about data of any size, for the proofs of this project:          *)
(* induction over the natural numbers, as a fact about sets, what the      *)
(* folds of the community modules compute, and how many handles are        *)
(* observers.  The library states induction and folds with an operator as  *)
(* a parameter; here Op is a constant of the module, which a proof         *)
(* instantiates once for each operator it folds.                           *)
(***************************************************************************)
EXTENDS Integers, Sequences, FiniteSets, Folds, WellFoundedInduction,
        FiniteSetTheorems, TLAPS

CONSTANT Op(_, _)

Highest(S) == CHOOSE x \in S : \A y \in S : x >= y

\* FoldLeft(Op, base, seq) of SequencesExt, and FoldSet(Op, base, S) of
\* FiniteSetsExt, by their definitions: an instance of this module then brings
\* no copy of those two.
Fold(base, seq) ==
  MapThenFoldSet(LAMBDA x, y : Op(y, x), base, LAMBDA i : seq[i], LAMBDA S : Highest(S),
                 DOMAIN seq)

SetFold(base, S) ==
  MapThenFoldSet(Op, base, LAMBDA x : x, LAMBDA s : CHOOSE x \in s : TRUE, S)

-----------------------------------------------------------------------------
(* Induction *)

\* A set of natural numbers has a least element.
LEMMA NatLeast ==
  ASSUME NEW T, T \subseteq Nat, T # {}
  PROVE  \E x \in T : \A y \in T : x <= y
<1> DEFINE R == OpToRel(<, Nat)
<1>1. IsWellFoundedOn(R, Nat)
  BY NatLessThanWellFounded
<1>2. PICK x \in T : \A y \in T : ~(<<y, x>> \in R)
  <2> HIDE DEF R
  <2> QED BY <1>1, WFMin
<1>3. \A y \in T : ~(y < x)
  BY <1>2 DEF OpToRel
<1> QED BY <1>3

\* A set that has 0, and n + 1 with every n, has all natural numbers.
LEMMA NatSetInduction ==
  ASSUME NEW S, 0 \in S, \A n \in Nat : n \in S => n + 1 \in S
  PROVE  Nat \subseteq S
<1> SUFFICES ASSUME Nat \ S # {} PROVE FALSE
  OBVIOUS
<1>1. PICK x \in Nat \ S : \A y \in Nat \ S : x <= y
  BY NatLeast
<1>2. x - 1 \in Nat /\ x - 1 \in S
  BY <1>1
<1> QED BY <1>2

\* The same up to n.
LEMMA RangeInduction ==
  ASSUME NEW S, NEW n \in Nat, 0 \in S, \A k \in 1 .. n : k - 1 \in S => k \in S
  PROVE  0 .. n \subseteq S
<1> DEFINE R == {k \in Nat : k <= n => k \in S}
<1>1. Nat \subseteq R
  <2>1. \A k \in Nat : k \in R => k + 1 \in R
    OBVIOUS
  <2>2. 0 \in R
    OBVIOUS
  <2> HIDE DEF R
  <2> QED BY <2>1, <2>2, NatSetInduction
<1> QED BY <1>1

-----------------------------------------------------------------------------
(* FoldLeft *)

\* The greatest number of a set of some of 1 .. n.
LEMMA MaxOfSome ==
  ASSUME NEW n \in Nat, NEW s \in SUBSET (1 .. n), s # {}
  PROVE  Highest(s) \in s /\ \A x \in s : x <= Highest(s)
<1> DEFINE T == {n - x : x \in s}
<1>1. PICK y \in T : \A z \in T : y <= z
  <2>1. T \subseteq Nat
    <3>1. \A x \in s : x \in 1 .. n
      OBVIOUS
    <3>2. \A x \in 1 .. n : n - x \in Nat
      OBVIOUS
    <3> QED BY <3>1, <3>2
  <2>2. T # {}
    OBVIOUS
  <2> HIDE DEF T
  <2> QED BY <2>1, <2>2, NatLeast
<1>2. PICK x \in s : y = n - x
  OBVIOUS
<1>3. ASSUME NEW z \in s PROVE x >= z
  <2>1. n - x <= n - z
    BY <1>1, <1>2
  <2> QED BY <2>1
<1> QED BY <1>3 DEF Highest

\* The recursion FoldLeft is defined by, on the sets of some of D.
Solves(iter, base, seq, D) ==
  iter = [s \in SUBSET D |->
            IF s = {} THEN base ELSE Op(iter[s \ {Highest(s)}], seq[Highest(s)])]

\* What a solution is for each set.
LEMMA SolvesEach ==
  ASSUME NEW base, NEW seq, NEW D, NEW iter, Solves(iter, base, seq, D)
  PROVE  \A s \in SUBSET D :
           iter[s] = IF s = {} THEN base ELSE Op(iter[s \ {Highest(s)}], seq[Highest(s)])
<1> DEFINE F(s) == IF s = {} THEN base ELSE Op(iter[s \ {Highest(s)}], seq[Highest(s)])
<1>1. iter = [s \in SUBSET D |-> F(s)]
  BY DEF Solves
<1> HIDE DEF F
<1>2. \A s \in SUBSET D : iter[s] = F(s)
  BY <1>1
<1> QED BY <1>2 DEF F

\* A solution for 1 .. m gives one for 1 .. m + 1.
LEMMA IterExtends ==
  ASSUME NEW base, NEW seq, NEW m \in Nat, NEW iter, Solves(iter, base, seq, 1 .. m)
  PROVE  \E next : Solves(next, base, seq, 1 .. m + 1)
<1>1. \A s \in SUBSET (1 .. m) :
        iter[s] = IF s = {} THEN base ELSE Op(iter[s \ {Highest(s)}], seq[Highest(s)])
  <2> DEFINE F(s) == IF s = {} THEN base ELSE Op(iter[s \ {Highest(s)}], seq[Highest(s)])
  <2>1. iter = [s \in SUBSET (1 .. m) |-> F(s)]
    BY DEF Solves
  <2> HIDE DEF F
  <2>2. \A s \in SUBSET (1 .. m) : iter[s] = F(s)
    BY <2>1
  <2> QED BY <2>2 DEF F
<1> DEFINE next == [s \in SUBSET (1 .. m + 1) |->
             IF m + 1 \in s THEN Op(iter[s \ {m + 1}], seq[m + 1]) ELSE iter[s]]
<1>2. /\ \A s \in SUBSET (1 .. m + 1) :
           next[s] = IF m + 1 \in s THEN Op(iter[s \ {m + 1}], seq[m + 1]) ELSE iter[s]
      /\ next = [s \in SUBSET (1 .. m + 1) |-> next[s]]
  OBVIOUS
<1> HIDE DEF next
<1>3. ASSUME NEW s \in SUBSET (1 .. m + 1)
      PROVE  next[s] = IF s = {} THEN base ELSE Op(next[s \ {Highest(s)}], seq[Highest(s)])
  <2>1. m + 1 \in Nat /\ \A x \in s : x \in 1 .. m + 1
    OBVIOUS
  <2>2. s # {} => Highest(s) \in s /\ \A x \in s : x <= Highest(s)
    BY <2>1, MaxOfSome
  <2>3. CASE m + 1 \in s
    <3>1. Highest(s) = m + 1
      <4>1. Highest(s) \in 1 .. m + 1
        BY <2>1, <2>2, <2>3
      <4>2. m + 1 <= Highest(s)
        BY <2>2, <2>3
      <4> QED BY <4>1, <4>2
    <3>2. s \ {m + 1} \in SUBSET (1 .. m + 1) /\ m + 1 \notin s \ {m + 1}
      OBVIOUS
    <3>3. next[s \ {m + 1}] = iter[s \ {m + 1}]
      BY <3>2, <1>2
    <3>4. next[s] = Op(iter[s \ {m + 1}], seq[m + 1])
      BY <2>3, <1>2
    <3> QED BY <3>1, <3>3, <3>4, <2>3
  <2>4. CASE m + 1 \notin s
    <3>1. ASSUME NEW x \in s PROVE x \in 1 .. m
      <4>1. x # m + 1
        BY <2>4
      <4>2. x \in 1 .. m + 1
        BY <2>1
      <4> QED BY <4>1, <4>2
    <3>2. /\ s \in SUBSET (1 .. m) /\ s \ {Highest(s)} \in SUBSET (1 .. m)
          /\ s \ {Highest(s)} \in SUBSET (1 .. m + 1) /\ m + 1 \notin s \ {Highest(s)}
      BY <3>1, <2>4
    <3>3. next[s] = iter[s] /\ next[s \ {Highest(s)}] = iter[s \ {Highest(s)}]
      BY <3>2, <2>4, <1>2
    <3> QED BY <3>2, <3>3, <1>1
  <2> QED BY <2>3, <2>4
<1>4. Solves(next, base, seq, 1 .. m + 1)
  <2> DEFINE F(s) == IF s = {} THEN base ELSE Op(next[s \ {Highest(s)}], seq[Highest(s)])
  <2>1. \A s \in SUBSET (1 .. m + 1) : next[s] = F(s)
    BY <1>3
  <2> HIDE DEF F
  <2>2. next = [s \in SUBSET (1 .. m + 1) |-> F(s)]
    BY <1>2, <2>1
  <2> QED BY <2>2 DEF F, Solves
<1> QED BY <1>4

\* It has one.
LEMMA IterExists ==
  ASSUME NEW base, NEW seq, NEW n \in Nat, NEW D, D = 1 .. n
  PROVE  \E iter : Solves(iter, base, seq, D)
<1> DEFINE S == {m \in Nat : \E iter : Solves(iter, base, seq, 1 .. m)}
<1>1. 0 \in S
  <2> DEFINE iter == [s \in SUBSET (1 .. 0) |-> base]
  <2>1. SUBSET (1 .. 0) = {{}}
    OBVIOUS
  <2>2. Solves(iter, base, seq, 1 .. 0)
    BY <2>1 DEF Solves
  <2> HIDE DEF iter
  <2> QED BY <2>2
<1>2. ASSUME NEW m \in Nat, m \in S PROVE m + 1 \in S
  <2>1. PICK iter : Solves(iter, base, seq, 1 .. m)
    BY <1>2
  <2> QED BY <2>1, IterExtends
<1>3. n \in S
  <2> HIDE DEF S
  <2> QED BY <1>1, <1>2, NatSetInduction
<1> QED BY <1>3

\* g[k] is what folding the first k elements of seq, of n, gives.
Folding(g, base, seq, n) ==
  /\ g[0] = base
  /\ \A k \in 1 .. n : g[k] = Op(g[k - 1], seq[k])
  /\ Fold(base, seq) = g[n]

HasLength(seq, n) == n \in Nat /\ DOMAIN seq = 1 .. n

\* FoldLeft applies Op to the elements of a sequence in order.
LEMMA FoldSteps ==
  ASSUME NEW base, NEW seq, NEW n, HasLength(seq, n)
  PROVE  \E g : Folding(g, base, seq, n)
<1> n \in Nat /\ DOMAIN seq = 1 .. n
  BY DEF HasLength
<1>1. PICK D : D = DOMAIN seq
  OBVIOUS
<1>2. \E iter : Solves(iter, base, seq, D)
  BY <1>1, IterExists
<1>3. PICK iter : Solves(iter, base, seq, D) /\ Fold(base, seq) = iter[D]
  <2>1. Fold(base, seq) = MapThenFoldSet(LAMBDA x, y : Op(y, x), base,
                            LAMBDA i : seq[i], LAMBDA S : Highest(S), DOMAIN seq)
    BY Zenon DEF Fold
  <2>2. Fold(base, seq) = MapThenFoldSet(LAMBDA x, y : Op(y, x), base,
                            LAMBDA i : seq[i], LAMBDA S : Highest(S), D)
    BY Zenon, <2>1, <1>1
  <2> QED BY <1>2, <2>2 DEF MapThenFoldSet, Solves
<1>4. \A s \in SUBSET D :
        iter[s] = IF s = {} THEN base ELSE Op(iter[s \ {Highest(s)}], seq[Highest(s)])
  BY <1>3, SolvesEach
<1> DEFINE g == [k \in 0 .. n |-> iter[1 .. k]]
<1>5. \A k \in 0 .. n : g[k] = iter[1 .. k]
  OBVIOUS
<1> HIDE DEF g
<1>6. g[0] = base
  <2>1. 1 .. 0 = {} /\ {} \in SUBSET D
    BY <1>1
  <2>2. g[0] = iter[{}]
    BY <1>5, <2>1
  <2> QED BY <1>4, <2>1, <2>2
<1>7. ASSUME NEW k \in 1 .. n PROVE g[k] = Op(g[k - 1], seq[k])
  <2>1. 1 .. k # {} /\ 1 .. k \in SUBSET D /\ k \in Nat
    BY <1>1
  <2>2. Highest(1 .. k) = k
    <3>1. Highest(1 .. k) \in 1 .. k /\ \A x \in 1 .. k : x <= Highest(1 .. k)
      BY <2>1, MaxOfSome
    <3> QED BY <3>1
  <2>3. (1 .. k) \ {k} = 1 .. k - 1
    OBVIOUS
  <2>4. g[k] = iter[1 .. k] /\ g[k - 1] = iter[1 .. k - 1]
    BY <1>5
  <2> QED BY <1>4, <2>1, <2>2, <2>3, <2>4
<1>8. Fold(base, seq) = g[n]
  <2>1. g[n] = iter[1 .. n]
    BY <1>5
  <2> QED BY <1>1, <1>3, <2>1
<1> QED BY <1>6, <1>7, <1>8 DEF Folding
-----------------------------------------------------------------------------
(* FoldSet *)

\* The element FoldSet takes of a set that is not empty.
Taken(s) == CHOOSE x \in s : TRUE

\* The step of its recursion, on a solution g for smaller sets.
SetStep(g, base, s) == IF s = {} THEN base ELSE Op(Taken(s), g[s \ {Taken(s)}])

\* g solves the recursion on the subsets of S that have k elements or fewer.
SolvesTo(g, base, S, k) ==
  \A s \in SUBSET S : Cardinality(s) <= k => g[s] = SetStep(g, base, s)

\* A set that is not empty has one element more than what is left when one has
\* been taken.
LEMMA TakenLeaves ==
  ASSUME NEW s, IsFiniteSet(s), s # {}
  PROVE  /\ Taken(s) \in s /\ IsFiniteSet(s \ {Taken(s)})
         /\ Cardinality(s \ {Taken(s)}) \in Nat
         /\ Cardinality(s) = Cardinality(s \ {Taken(s)}) + 1
<1>1. Taken(s) \in s
  BY DEF Taken
<1>2. Cardinality(s \ {Taken(s)}) = Cardinality(s) - 1 /\ IsFiniteSet(s \ {Taken(s)})
  BY <1>1, FS_RemoveElement
<1>3. Cardinality(s) \in Nat /\ Cardinality(s \ {Taken(s)}) \in Nat
  BY <1>2, FS_CardinalityType
<1>4. \A m, n \in Nat : n = m - 1 => m = n + 1
  OBVIOUS
<1> QED BY <1>1, <1>2, <1>3, <1>4

\* A solution for sets of k elements gives one for k + 1.
LEMMA SetIterExtends ==
  ASSUME NEW base, NEW S, IsFiniteSet(S), NEW k \in Nat, NEW g, SolvesTo(g, base, S, k)
  PROVE  \E next : SolvesTo(next, base, S, k + 1)
<1> DEFINE next == [s \in SUBSET S |->
             IF Cardinality(s) = k + 1 THEN SetStep(g, base, s) ELSE g[s]]
<1>1. \A s \in SUBSET S :
        next[s] = IF Cardinality(s) = k + 1 THEN SetStep(g, base, s) ELSE g[s]
  OBVIOUS
<1> HIDE DEF next
<1>2. ASSUME NEW s \in SUBSET S, Cardinality(s) <= k + 1
      PROVE  next[s] = SetStep(next, base, s)
  <2>1. IsFiniteSet(s) /\ Cardinality(s) \in Nat
    BY FS_Subset, FS_CardinalityType
  <2>2. next[s] = SetStep(g, base, s)
    <3>1. CASE Cardinality(s) = k + 1
      BY <1>1, <3>1
    <3>2. CASE Cardinality(s) # k + 1
      <4>1. Cardinality(s) <= k
        BY <1>2, <2>1, <3>2
      <4>2. next[s] = g[s]
        BY <1>1, <3>2
      <4> QED BY <4>1, <4>2 DEF SolvesTo
    <3> QED BY <3>1, <3>2
  <2>3. CASE s = {}
    BY <2>2, <2>3 DEF SetStep
  <2>4. CASE s # {}
    <3> DEFINE rest == s \ {Taken(s)}
    <3>1. rest \in SUBSET S /\ Cardinality(rest) \in Nat
          /\ Cardinality(s) = Cardinality(rest) + 1
      BY <2>1, <2>4, TakenLeaves
    <3> HIDE DEF rest
    <3>2. Cardinality(rest) # k + 1
      BY <3>1, <2>1, <1>2
    <3>3. next[rest] = g[rest]
      BY <1>1, <3>1, <3>2
    <3> QED BY <2>2, <2>4, <3>3 DEF SetStep, rest
  <2> QED BY <2>3, <2>4
<1>3. SolvesTo(next, base, S, k + 1)
  BY <1>2 DEF SolvesTo
<1> QED BY <1>3

\* The recursion FoldSet is defined by.
SetSolves(g, base, S) ==
  g = [s \in SUBSET S |-> IF s = {} THEN base ELSE Op(Taken(s), g[s \ {Taken(s)}])]

\* The recursion has a solution on all subsets of a finite set.
LEMMA SetIterExists ==
  ASSUME NEW base, NEW S, IsFiniteSet(S)
  PROVE  \E g : SetSolves(g, base, S)
<1> DEFINE K == {k \in Nat : \E g : SolvesTo(g, base, S, k)}
<1>1. 0 \in K
  <2> DEFINE g == [s \in SUBSET S |-> base]
  <2>1. ASSUME NEW s \in SUBSET S, Cardinality(s) <= 0 PROVE g[s] = SetStep(g, base, s)
    <3>1. IsFiniteSet(s) /\ Cardinality(s) \in Nat
      BY FS_Subset, FS_CardinalityType
    <3>2. s = {}
      BY <2>1, <3>1, FS_EmptySet
    <3> QED BY <3>2 DEF SetStep
  <2>2. SolvesTo(g, base, S, 0)
    <3> HIDE DEF g
    <3> QED BY <2>1 DEF SolvesTo
  <2> HIDE DEF g
  <2> QED BY <2>2
<1>2. ASSUME NEW k \in Nat, k \in K PROVE k + 1 \in K
  BY <1>2, SetIterExtends
<1>3. Cardinality(S) \in Nat
  BY FS_CardinalityType
<1>4. Cardinality(S) \in K
  <2> HIDE DEF K
  <2> QED BY <1>1, <1>2, <1>3, NatSetInduction
<1>5. PICK h : SolvesTo(h, base, S, Cardinality(S))
  BY <1>4
<1>6. \A s \in SUBSET S : Cardinality(s) <= Cardinality(S)
  BY FS_Subset
<1>7. \A s \in SUBSET S : h[s] = SetStep(h, base, s)
  BY <1>5, <1>6 DEF SolvesTo
<1>8. PICK g : g = [s \in SUBSET S |-> h[s]]
  OBVIOUS
<1>9. ASSUME NEW s \in SUBSET S PROVE h[s] = SetStep(g, base, s)
  <2>1. \A t \in SUBSET S : g[t] = h[t]
    BY <1>8
  <2>2. s \ {Taken(s)} \in SUBSET S
    OBVIOUS
  <2> QED BY <1>7, <2>1, <2>2 DEF SetStep
<1>10. SetSolves(g, base, S)
  BY <1>8, <1>9 DEF SetSolves, SetStep
<1> QED BY <1>10

\* g[s] is what folding the subset s of S gives.
SetFolding(g, base, S) ==
  /\ g[{}] = base
  /\ \A s \in SUBSET S : s # {} => \E x \in s : g[s] = Op(x, g[s \ {x}])
  /\ SetFold(base, S) = g[S]

\* FoldSet applies Op to the elements of a finite set, one after the other.
LEMMA FoldSetSteps ==
  ASSUME NEW base, NEW S, IsFiniteSet(S)
  PROVE  \E g : SetFolding(g, base, S)
<1>1. PICK g : SetSolves(g, base, S) /\ SetFold(base, S) = g[S]
  <2>1. SetFold(base, S) = MapThenFoldSet(Op, base, LAMBDA x : x, LAMBDA s : Taken(s), S)
    BY Zenon DEF SetFold, Taken
  <2>2. \E g : SetSolves(g, base, S)
    BY SetIterExists
  <2> QED BY <2>1, <2>2 DEF MapThenFoldSet, SetSolves
<1>2. \A s \in SUBSET S : g[s] = SetStep(g, base, s)
  <2> DEFINE F(s) == SetStep(g, base, s)
  <2>1. g = [s \in SUBSET S |-> F(s)]
    BY <1>1 DEF SetSolves, SetStep
  <2> HIDE DEF F
  <2>2. \A s \in SUBSET S : g[s] = F(s)
    BY <2>1
  <2> QED BY <2>2 DEF F
<1>3. g[{}] = base
  BY <1>2 DEF SetStep
<1>4. ASSUME NEW s \in SUBSET S, s # {} PROVE \E x \in s : g[s] = Op(x, g[s \ {x}])
  <2>1. Taken(s) \in s
    BY <1>4 DEF Taken
  <2>2. g[s] = Op(Taken(s), g[s \ {Taken(s)}])
    BY <1>2, <1>4 DEF SetStep
  <2> QED BY <2>1, <2>2
<1> QED BY <1>1, <1>3, <1>4 DEF SetFolding

-----------------------------------------------------------------------------
(* Finite sets and permutations *)

Greatest(S, f) == \E x \in S : \A y \in S : f[x] >= f[y]

\* Of finitely many things one is greatest.
LEMMA GreatestOfFinite ==
  ASSUME NEW S, IsFiniteSet(S), S # {}, NEW f \in [S -> Nat]
  PROVE  Greatest(S, f)
<1> DEFINE K == {k \in Nat : \A s \in SUBSET S :
                   s # {} /\ Cardinality(s) = k => Greatest(s, f)}
<1>1. 0 \in K
  <2>1. \A s \in SUBSET S : Cardinality(s) = 0 => s = {}
    BY FS_Subset, FS_EmptySet
  <2> QED BY <2>1
<1>2. ASSUME NEW k \in Nat, k \in K PROVE k + 1 \in K
  <2>1. ASSUME NEW s \in SUBSET S, s # {}, Cardinality(s) = k + 1 PROVE Greatest(s, f)
    <3>1. IsFiniteSet(s)
      BY FS_Subset
    <3>2. PICK x \in s : TRUE
      BY <2>1
    <3>3. Cardinality(s \ {x}) = k /\ s \ {x} \in SUBSET S
      <4>1. Cardinality(s \ {x}) = Cardinality(s) - 1
        BY <3>1, FS_RemoveElement
      <4> QED BY <2>1, <4>1
    <3>4. \A y \in s : f[y] \in Nat
      OBVIOUS
    <3>5. CASE s \ {x} = {}
      BY <3>4, <3>5 DEF Greatest
    <3>6. CASE s \ {x} # {}
      <4>1. PICK z \in s \ {x} : \A y \in s \ {x} : f[z] >= f[y]
        BY <1>2, <3>3, <3>6 DEF Greatest
      <4>2. CASE f[x] >= f[z]
        BY <3>4, <4>1, <4>2 DEF Greatest
      <4>3. CASE ~(f[x] >= f[z])
        BY <3>4, <4>1, <4>3 DEF Greatest
      <4> QED BY <4>2, <4>3
    <3> QED BY <3>5, <3>6
  <2> QED BY <2>1
<1>3. Cardinality(S) \in Nat
  BY FS_CardinalityType
<1>4. Cardinality(S) \in K
  <2> HIDE DEF K
  <2> QED BY <1>1, <1>2, <1>3, NatSetInduction
<1> QED BY <1>4

\* A list of the numbers 1 .. n, each at most once, has each of them.
LEMMA RangePermuted ==
  ASSUME NEW n \in Nat, NEW order \in [1 .. n -> 1 .. n],
         \A i, j \in 1 .. n : order[i] = order[j] => i = j, NEW m \in 1 .. n
  PROVE  \E i \in 1 .. n : order[i] = m
<1> SUFFICES ASSUME \A i \in 1 .. n : order[i] # m PROVE FALSE
  OBVIOUS
<1> DEFINE T == (1 .. n) \ {m}
<1>1. IsFiniteSet(1 .. n) /\ Cardinality(1 .. n) = n
  <2>1. n >= 1 /\ n - 1 + 1 = n
    OBVIOUS
  <2>2. IsFiniteSet(1 .. n) /\ Cardinality(1 .. n) = IF 1 > n THEN 0 ELSE n - 1 + 1
    BY FS_Interval
  <2> QED BY <2>1, <2>2
<1>2. IsFiniteSet(T) /\ Cardinality(T) = n - 1
  BY <1>1, FS_RemoveElement
<1>3. order \in [1 .. n -> T]
  OBVIOUS
<1>4. n - 1 < n
  OBVIOUS
<1>5. \E x, y \in 1 .. n : x # y /\ order[x] = order[y]
  <2> HIDE DEF T
  <2> QED BY <1>1, <1>2, <1>3, <1>4, FS_PigeonHole
<1> QED BY <1>5

-----------------------------------------------------------------------------
(* Counting: how many handles of a finite set are observers, and what       *)
(* assigning, clearing and moving one does to their number.                *)

Kind == {"null", "owner", "observer"}

Held(S, f, k) == {h \in S : f[h] = k}

Observers(S, f) == Cardinality(Held(S, f, "observer"))

\* Observers are finitely many, and none exactly if their number is 0.
LEMMA ObserversFinite ==
  ASSUME NEW S, IsFiniteSet(S), NEW f \in [S -> Kind]
  PROVE  /\ IsFiniteSet(Held(S, f, "observer"))
         /\ Observers(S, f) \in Nat
         /\ Observers(S, f) = 0 <=> Held(S, f, "observer") = {}
<1>1. IsFiniteSet(Held(S, f, "observer"))
  BY FS_Subset DEF Held
<1>2. QED BY <1>1, FS_CardinalityType, FS_EmptySet DEF Observers

\* Setting a handle that is not one to an observer adds one.
LEMMA SetObserver ==
  ASSUME NEW S, IsFiniteSet(S), NEW f \in [S -> Kind], NEW d \in S, f[d] # "observer"
  PROVE  Observers(S, [f EXCEPT ![d] = "observer"]) = Observers(S, f) + 1
<1>1. /\ Held(S, [f EXCEPT ![d] = "observer"], "observer") = Held(S, f, "observer") \cup {d}
      /\ d \notin Held(S, f, "observer")
  BY DEF Held
<1>2. QED BY <1>1, ObserversFinite, FS_AddElement DEF Observers

\* Clearing an observer takes one away.
LEMMA ClearObserver ==
  ASSUME NEW S, IsFiniteSet(S), NEW f \in [S -> Kind], NEW h \in S, f[h] = "observer"
  PROVE  /\ Observers(S, [f EXCEPT ![h] = "null"]) = Observers(S, f) - 1
         /\ Observers(S, f) # 0
<1>1. /\ Held(S, [f EXCEPT ![h] = "null"], "observer") = Held(S, f, "observer") \ {h}
      /\ h \in Held(S, f, "observer")
  BY DEF Held
<1>2. IsFiniteSet(Held(S, f, "observer"))
  BY ObserversFinite
<1>3. Cardinality(Held(S, f, "observer") \ {h}) = Cardinality(Held(S, f, "observer")) - 1
  BY <1>1, <1>2, FS_RemoveElement
<1>4. Cardinality(Held(S, f, "observer")) # 0
  BY <1>1, <1>2, FS_EmptySet
<1>5. QED BY <1>1, <1>3, <1>4 DEF Observers

\* Assignments among the other kinds keep the number.
LEMMA SameObservers ==
  ASSUME NEW S, NEW f \in [S -> Kind], NEW d \in S, f[d] # "observer",
         NEW k \in {"null", "owner"}
  PROVE  Observers(S, [f EXCEPT ![d] = k]) = Observers(S, f)
<1>1. Held(S, [f EXCEPT ![d] = k], "observer") = Held(S, f, "observer")
  BY DEF Held
<1>2. QED BY <1>1 DEF Observers

\* A handle moved to a null handle keeps the number.
LEMMA MovedObservers ==
  ASSUME NEW S, IsFiniteSet(S), NEW f \in [S -> Kind], NEW g \in [S -> Kind],
         NEW h \in S, NEW d \in S, f[d] = "null", f[h] # "null",
         g[d] = f[h], g[h] = "null", \A e \in S \ {h, d} : g[e] = f[e]
  PROVE  Observers(S, g) = Observers(S, f)
<1> DEFINE rest == Held(S, f, "observer") \ {h}
<1>1. IsFiniteSet(Held(S, f, "observer")) /\ IsFiniteSet(rest)
  BY ObserversFinite, FS_Subset
<1>2. CASE f[h] = "observer"
  <2>1. /\ Held(S, g, "observer") = rest \cup {d} /\ d \notin rest
        /\ Held(S, f, "observer") = rest \cup {h} /\ h \notin rest
    BY <1>2 DEF Held
  <2>2. /\ Cardinality(rest \cup {d}) = Cardinality(rest) + 1
        /\ Cardinality(rest \cup {h}) = Cardinality(rest) + 1
    <3> HIDE DEF rest
    <3>1. QED BY <1>1, <2>1, FS_AddElement
  <2>3. QED BY <2>1, <2>2 DEF Observers
<1>3. CASE f[h] # "observer"
  <2>1. Held(S, g, "observer") = Held(S, f, "observer")
    BY <1>3 DEF Held
  <2>2. QED BY <2>1 DEF Observers
<1>4. QED BY <1>2, <1>3
=============================================================================
