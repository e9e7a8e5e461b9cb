------------------------------ MODULE SumTheorems -------------------------------
(***************************************************************************)
(* Sums over finite sets, for the modules that account for sizes, and      *)
(* folds over sequences.                                                   *)
(*                                                                         *)
(* SumFunctionOnSet(F, S) is a recursive fold, and no induction theorem of *)
(* the library can be used on it.  It is proved to be the number of        *)
(* elements of Pile(F, S), in which every x of S occurs F[x] times: the    *)
(* number of elements satisfies the recursion, which is therefore          *)
(* satisfied by some function, and a smallest set on which a function that *)
(* satisfies it differs from that number does not exist.                   *)
(*                                                                         *)
(* FlattenSeq and FoldLeft are recursive functions, too, the values of     *)
(* CHOOSE expressions, of which nothing is known before it is known that   *)
(* the recursion has a solution.  That is shown for any recursion given by *)
(* a function F, again without induction: there is no smallest number and  *)
(* no smallest set up to which it has none.                                *)
(***************************************************************************)
EXTENDS Integers, FiniteSets, Sequences, Functions, SequencesExt, FiniteSetTheorems, WellFoundedInduction, TLAPS

Weights(F, S) == \A x \in S : F[x] \in Nat

Pile(F, S) == {p \in S \X Nat : 1 <= p[2] /\ p[2] <= F[p[1]]}

Summing(F, S, h) ==
    h = [s \in SUBSET S |-> IF s = {} THEN 0
                            ELSE F[CHOOSE x \in s : TRUE] + h[s \ {CHOOSE x \in s : TRUE}]]

(* The fold of the community modules is a function that satisfies the recursion. *)
LEMMA SumIsFold ==
    ASSUME NEW F, NEW S
    PROVE  SumFunctionOnSet(F, S) = (CHOOSE h : Summing(F, S, h))[S]
BY DEF SumFunctionOnSet, FoldFunctionOnSet, MapThenFoldSet, Summing

(* One more element adds its weight to the pile. *)
LEMMA PileAdd ==
    ASSUME NEW F, NEW S, NEW x \in S, F[x] \in Nat, IsFiniteSet(Pile(F, S \ {x}))
    PROVE  /\ IsFiniteSet(Pile(F, S))
           /\ Cardinality(Pile(F, S)) = F[x] + Cardinality(Pile(F, S \ {x}))
<1> DEFINE own == {x} \X (1 .. F[x])
           rest == Pile(F, S \ {x})
<1>1. IsFiniteSet(1 .. F[x]) /\ Cardinality(1 .. F[x]) = F[x]
  <2>1. 1 \in Int /\ F[x] \in Int
    OBVIOUS
  <2>2. IsFiniteSet(1 .. F[x]) /\ Cardinality(1 .. F[x]) = IF 1 > F[x] THEN 0 ELSE F[x] - 1 + 1
    BY <2>1, FS_Interval, Zenon
  <2> QED
    BY <2>2
<1>2. IsFiniteSet({x}) /\ Cardinality({x}) = 1
  BY FS_Singleton
<1>3. IsFiniteSet(own) /\ Cardinality(own) = F[x]
  <2>1. IsFiniteSet(own) /\ Cardinality(own) = Cardinality({x}) * Cardinality(1 .. F[x])
    BY <1>1, <1>2, FS_Product
  <2> QED
    BY <2>1, <1>1, <1>2
<1>4. Pile(F, S) = rest \cup own
  BY DEF Pile
<1>5. rest \cap own = {}
  BY DEF Pile
<1>6. /\ IsFiniteSet(rest \cup own)
      /\ Cardinality(rest \cup own) = Cardinality(rest) + Cardinality(own) - Cardinality(rest \cap own)
  <2> HIDE DEF own, rest
  <2>1. IsFiniteSet(rest)
    BY DEF rest
  <2> QED
    BY <2>1, <1>3, FS_Union
<1>7. Cardinality(rest) \in Nat
  BY FS_CardinalityType
<1> HIDE DEF own, rest
<1>8. Cardinality(rest \cap own) = 0
  BY <1>5, FS_EmptySet
<1> QED
  BY <1>3, <1>4, <1>6, <1>7, <1>8 DEF rest

LEMMA PileEmpty ==
    ASSUME NEW F
    PROVE  IsFiniteSet(Pile(F, {})) /\ Cardinality(Pile(F, {})) = 0
<1>1. Pile(F, {}) = {}
  BY DEF Pile
<1> QED
  BY <1>1, FS_EmptySet

(* Of a set of subsets of a finite set, one has none of the others below it. *)
LEMMA NoneBelow ==
    ASSUME NEW U, IsFiniteSet(U), NEW T \in SUBSET (SUBSET U), T # {}
    PROVE  \E s \in T : \A r \in T : ~ (r \subseteq s /\ r # s)
<1>1. IsWellFoundedOn(StrictSubsetOrdering(U), SUBSET U)
  BY FS_StrictSubsetOrderingWellFounded, FS_FiniteSubsetsOfFinite
<1>2. PICK s \in T : \A r \in T : ~ (<<r, s>> \in StrictSubsetOrdering(U))
  BY <1>1, WFMin
<1>3. ASSUME NEW r \in T, r \subseteq s, r # s
      PROVE  FALSE
  <2>1. <<r, s>> \in StrictSubsetOrdering(U)
    BY <1>3 DEF StrictSubsetOrdering
  <2> QED
    BY <1>2, <1>3, <2>1
<1> QED
  BY <1>3

(* A set of subsets of a finite set has a smallest one. *)
LEMMA Smallest ==
    ASSUME NEW S, IsFiniteSet(S), NEW T \in SUBSET (SUBSET S), T # {}
    PROVE  \E s \in T : \A x \in s : s \ {x} \notin T
<1>1. PICK s \in T : \A r \in T : ~ (r \subseteq s /\ r # s)
  BY NoneBelow
<1> QED
  BY <1>1

LEMMA PileFinite ==
    ASSUME NEW F, NEW S, IsFiniteSet(S), Weights(F, S)
    PROVE  \A s \in SUBSET S : IsFiniteSet(Pile(F, s))
<1> DEFINE T == {s \in SUBSET S : ~IsFiniteSet(Pile(F, s))}
<1> SUFFICES ASSUME T # {}
             PROVE  FALSE
  OBVIOUS
<1>1. PICK s \in T : \A x \in s : s \ {x} \notin T
  <2>1. T \in SUBSET (SUBSET S)
    OBVIOUS
  <2> HIDE DEF T
  <2> QED
    BY <2>1, Smallest, Zenon
<1>2. s # {}
  BY PileEmpty
<1>3. PICK x \in s : TRUE
  BY <1>2
<1>4. IsFiniteSet(Pile(F, s \ {x})) /\ F[x] \in Nat
  BY <1>1, <1>3 DEF Weights
<1> QED
  BY <1>3, <1>4, PileAdd

(* The number of elements satisfies the recursion, *)
LEMMA PileSums ==
    ASSUME NEW F, NEW S, IsFiniteSet(S), Weights(F, S)
    PROVE  Summing(F, S, [s \in SUBSET S |-> Cardinality(Pile(F, s))])
<1> DEFINE h == [s \in SUBSET S |-> Cardinality(Pile(F, s))]
           g == [s \in SUBSET S |-> IF s = {} THEN 0
                                   ELSE F[CHOOSE x \in s : TRUE] + h[s \ {CHOOSE x \in s : TRUE}]]
<1>1. ASSUME NEW s \in SUBSET S
      PROVE  h[s] = g[s]
  <2>1. CASE s = {}
    BY <2>1, PileEmpty
  <2>2. CASE s # {}
    <3> DEFINE y == CHOOSE x \in s : TRUE
    <3>1. y \in s
      BY <2>2
    <3> HIDE DEF y
    <3>2. F[y] \in Nat /\ s \ {y} \in SUBSET S
      BY <3>1 DEF Weights
    <3>3. IsFiniteSet(Pile(F, s \ {y}))
      BY <3>2, PileFinite
    <3>4. Cardinality(Pile(F, s)) = F[y] + Cardinality(Pile(F, s \ {y}))
      BY <3>1, <3>2, <3>3, PileAdd
    <3> QED
      BY <2>2, <3>2, <3>4 DEF y
  <2> QED
    BY <2>1, <2>2
<1>2. h = g
  <2> HIDE DEF h, g
  <2>1. h = [s \in SUBSET S |-> h[s]] /\ g = [s \in SUBSET S |-> g[s]]
    BY DEF h, g
  <2> QED
    BY <1>1, <2>1, Zenon
<1> QED
  BY <1>2 DEF Summing

(* and nothing else does. *)
LEMMA SummingIsUnique ==
    ASSUME NEW F, NEW S, IsFiniteSet(S), Weights(F, S), NEW h, Summing(F, S, h)
    PROVE  \A s \in SUBSET S : h[s] = Cardinality(Pile(F, s))
<1> DEFINE T == {s \in SUBSET S : h[s] # Cardinality(Pile(F, s))}
<1> SUFFICES ASSUME T # {}
             PROVE  FALSE
  OBVIOUS
<1>1. PICK s \in T : \A x \in s : s \ {x} \notin T
  <2>1. T \in SUBSET (SUBSET S)
    OBVIOUS
  <2> HIDE DEF T
  <2> QED
    BY <2>1, Smallest, Zenon
<1>2. h[s] = IF s = {} THEN 0
             ELSE F[CHOOSE x \in s : TRUE] + h[s \ {CHOOSE x \in s : TRUE}]
  <2> DEFINE g == [r \in SUBSET S |-> IF r = {} THEN 0
                                     ELSE F[CHOOSE x \in r : TRUE] + h[r \ {CHOOSE x \in r : TRUE}]]
  <2>1. h = g
    BY DEF Summing
  <2>2. g[s] = IF s = {} THEN 0
               ELSE F[CHOOSE x \in s : TRUE] + h[s \ {CHOOSE x \in s : TRUE}]
    BY <1>1
  <2> QED
    BY <2>1, <2>2, Zenon
<1>3. s # {}
  BY <1>2, PileEmpty
<1> DEFINE y == CHOOSE x \in s : TRUE
<1>4. y \in s
  BY <1>3
<1>5. h[s] = F[y] + h[s \ {y}]
  BY <1>2, <1>3, Zenon
<1> HIDE DEF y
<1>6. F[y] \in Nat /\ s \ {y} \in SUBSET S
  BY <1>4 DEF Weights
<1>7. h[s \ {y}] = Cardinality(Pile(F, s \ {y}))
  BY <1>1, <1>4, <1>6
<1>8. IsFiniteSet(Pile(F, s \ {y}))
  BY <1>6, PileFinite
<1>9. Cardinality(Pile(F, s)) = F[y] + Cardinality(Pile(F, s \ {y}))
  BY <1>4, <1>6, <1>8, PileAdd
<1> QED
  BY <1>5, <1>7, <1>9

(* The sum is the number of elements of the pile. *)
LEMMA SumIsPile ==
    ASSUME NEW F, NEW S, IsFiniteSet(S), Weights(F, S)
    PROVE  SumFunctionOnSet(F, S) = Cardinality(Pile(F, S))
<1> DEFINE h == CHOOSE g : Summing(F, S, g)
<1>1. Summing(F, S, h)
  <2>1. \E g : Summing(F, S, g)
    BY PileSums
  <2> QED
    BY <2>1, Zenon
<1>2. SumFunctionOnSet(F, S) = h[S]
  BY SumIsFold, Zenon
<1> HIDE DEF h
<1>3. h[S] = Cardinality(Pile(F, S))
  <2>1. S \in SUBSET S
    OBVIOUS
  <2> QED
    BY <1>1, <2>1, SummingIsUnique
<1> QED
  BY <1>2, <1>3

--------------------------------------------------------------------------------
(* What the proofs use *)

LEMMA SumNat ==
    ASSUME NEW F, NEW S, IsFiniteSet(S), Weights(F, S)
    PROVE  SumFunctionOnSet(F, S) \in Nat
<1>1. IsFiniteSet(Pile(F, S))
  BY PileFinite
<1> QED
  BY <1>1, SumIsPile, FS_CardinalityType

LEMMA SumEmpty ==
    ASSUME NEW F
    PROVE  SumFunctionOnSet(F, {}) = 0
<1>1. IsFiniteSet({}) /\ Weights(F, {})
  BY FS_EmptySet DEF Weights
<1> QED
  BY <1>1, SumIsPile, PileEmpty

(* An element adds its weight, *)
LEMMA SumRemove ==
    ASSUME NEW F, NEW S, IsFiniteSet(S), Weights(F, S), NEW x \in S
    PROVE  SumFunctionOnSet(F, S) = F[x] + SumFunctionOnSet(F, S \ {x})
<1>1. IsFiniteSet(S \ {x})
  BY FS_RemoveElement
<1>2. Weights(F, S \ {x}) /\ F[x] \in Nat
  BY DEF Weights
<1>3. IsFiniteSet(Pile(F, S \ {x}))
  BY <1>1, <1>2, PileFinite
<1>4. Cardinality(Pile(F, S)) = F[x] + Cardinality(Pile(F, S \ {x}))
  BY <1>2, <1>3, PileAdd
<1>5. SumFunctionOnSet(F, S) = Cardinality(Pile(F, S))
  BY SumIsPile
<1>6. SumFunctionOnSet(F, S \ {x}) = Cardinality(Pile(F, S \ {x}))
  BY <1>1, <1>2, SumIsPile
<1> QED
  BY <1>4, <1>5, <1>6

LEMMA SumAdd ==
    ASSUME NEW F, NEW S, IsFiniteSet(S), Weights(F, S), NEW x, x \notin S, F[x] \in Nat
    PROVE  SumFunctionOnSet(F, S \cup {x}) = F[x] + SumFunctionOnSet(F, S)
<1>1. IsFiniteSet(S \cup {x})
  BY FS_AddElement
<1>2. Weights(F, S \cup {x})
  BY DEF Weights
<1>3. (S \cup {x}) \ {x} = S /\ x \in S \cup {x}
  OBVIOUS
<1>4. SumFunctionOnSet(F, S \cup {x}) = F[x] + SumFunctionOnSet(F, (S \cup {x}) \ {x})
  BY <1>1, <1>2, <1>3, SumRemove
<1> QED
  BY <1>3, <1>4

(* and only the weights in the set count. *)
LEMMA SumSame ==
    ASSUME NEW F, NEW G, NEW S, IsFiniteSet(S), Weights(F, S), \A x \in S : F[x] = G[x]
    PROVE  SumFunctionOnSet(F, S) = SumFunctionOnSet(G, S)
<1>1. Weights(G, S)
  BY DEF Weights
<1>2. Pile(F, S) = Pile(G, S)
  BY DEF Pile
<1> QED
  BY <1>1, <1>2, SumIsPile

(* A weight that changes changes the sum by as much. *)
LEMMA SumChange ==
    ASSUME NEW F, NEW G, NEW S, IsFiniteSet(S), Weights(F, S), NEW x \in S, G[x] \in Nat,
           \A y \in S \ {x} : F[y] = G[y]
    PROVE  SumFunctionOnSet(G, S) = SumFunctionOnSet(F, S) - F[x] + G[x]
<1>1. IsFiniteSet(S \ {x})
  BY FS_RemoveElement
<1>2. Weights(F, S \ {x}) /\ Weights(G, S) /\ F[x] \in Nat
  BY DEF Weights
<1>3. SumFunctionOnSet(F, S \ {x}) = SumFunctionOnSet(G, S \ {x})
  BY <1>1, <1>2, SumSame
<1>4. SumFunctionOnSet(F, S) = F[x] + SumFunctionOnSet(F, S \ {x})
  BY <1>2, SumRemove
<1>5. SumFunctionOnSet(G, S) = G[x] + SumFunctionOnSet(G, S \ {x})
  BY <1>2, SumRemove
<1>6. SumFunctionOnSet(F, S \ {x}) \in Nat
  BY <1>1, <1>2, SumNat
<1> QED
  BY <1>2, <1>3, <1>4, <1>5, <1>6

LEMMA NumbersToN ==
    ASSUME NEW n \in Nat
    PROVE  IsFiniteSet(1 .. n)
<1>1. 1 \in Int /\ n \in Int
  OBVIOUS
<1>2. IsFiniteSet(1 .. n) /\ Cardinality(1 .. n) = IF 1 > n THEN 0 ELSE n - 1 + 1
  BY <1>1, FS_Interval, Zenon
<1> QED
  BY <1>2

(* A nonempty set of numbers up to n has a least one, *)
LEMMA LeastNumber ==
    ASSUME NEW n \in Nat, NEW S \in SUBSET (1 .. n), S # {}
    PROVE  \E m \in S : \A j \in S : m <= j
<1> DEFINE T == {1 .. k : k \in S}
<1>1. IsFiniteSet(1 .. n)
  BY NumbersToN
<1>2. T \in SUBSET (SUBSET (1 .. n))
  <2>1. \A k \in S : \A i \in 1 .. k : i \in 1 .. n
    OBVIOUS
  <2> QED
    BY <2>1
<1>3. T # {}
  OBVIOUS
<1>4. PICK s \in T : \A r \in T : ~ (r \subseteq s /\ r # s)
  <2> DEFINE U == 1 .. n
  <2>1. IsFiniteSet(U) /\ T \in SUBSET (SUBSET U) /\ T # {}
    BY <1>1, <1>2, <1>3
  <2> HIDE DEF T, U
  <2> QED
    BY <2>1, NoneBelow
<1>5. PICK k \in S : s = 1 .. k
  OBVIOUS
<1>6. ASSUME NEW j \in S, j < k
      PROVE  FALSE
  <2>1. 1 .. j \subseteq 1 .. k
    BY <1>6
  <2>2. k \in 1 .. k /\ k \notin 1 .. j
    BY <1>6
  <2> QED
    BY <1>4, <1>5, <2>1, <2>2
<1>7. \A j \in S : k <= j
  BY <1>6
<1> QED
  BY <1>7

(* and a greatest one. *)
LEMMA GreatestNumber ==
    ASSUME NEW n \in Nat, NEW S \in SUBSET (1 .. n), S # {}
    PROVE  Max(S) \in S /\ \A j \in S : j <= Max(S)
<1> DEFINE T == {n + 1 - k : k \in S}
<1>1. T \in SUBSET (1 .. n) /\ T # {}
  <2>1. \A k \in S : k \in 1 .. n /\ n + 1 - k \in 1 .. n
    OBVIOUS
  <2>2. \A x \in T : x \in 1 .. n
    BY <2>1
  <2>3. PICK k \in S : TRUE
    OBVIOUS
  <2>4. n + 1 - k \in T
    OBVIOUS
  <2> HIDE DEF T
  <2> QED
    BY <2>2, <2>4
<1>2. PICK m \in T : \A j \in T : m <= j
  <2> HIDE DEF T
  <2> QED
    BY <1>1, LeastNumber
<1>3. PICK k \in S : m = n + 1 - k
  OBVIOUS
<1>4. \A j \in S : k >= j
  <2> TAKE j \in S
  <2>1. n + 1 - j \in T
    OBVIOUS
  <2>2. m <= n + 1 - j
    BY <1>2, <2>1
  <2> QED
    BY <1>3, <2>2
<1>5. Max(S) \in S /\ \A j \in S : Max(S) >= j
  BY <1>4 DEF Max
<1> QED
  BY <1>5

(* The positions up to k without the last. *)
LEMMA LastNumber ==
    ASSUME NEW n \in Nat, NEW k \in 1 .. n
    PROVE  /\ 1 .. k \in SUBSET (1 .. n) /\ 1 .. k # {}
           /\ Max(1 .. k) = k /\ (1 .. k) \ {k} = 1 .. (k - 1)
<1>1. 1 .. k \in SUBSET (1 .. n) /\ 1 .. k # {} /\ k \in 1 .. k
  OBVIOUS
<1>2. Max(1 .. k) \in 1 .. k /\ \A j \in 1 .. k : j <= Max(1 .. k)
  <2> DEFINE S == 1 .. k
  <2>1. S \in SUBSET (1 .. n) /\ S # {}
    BY <1>1
  <2> HIDE DEF S
  <2>2. Max(S) \in S /\ \A j \in S : j <= Max(S)
    BY <2>1, GreatestNumber
  <2> QED
    BY <2>2 DEF S
<1>3. Max(1 .. k) = k
  BY <1>1, <1>2
<1>4. (1 .. k) \ {k} = 1 .. (k - 1)
  OBVIOUS
<1> QED
  BY <1>1, <1>3, <1>4

--------------------------------------------------------------------------------
(* Recursion over numbers and sequences.  The operator that is iterated is a
   function F here; a caller shows that it is the same on what the fold goes
   through. *)

Iterates(f, A, n, base, F) ==
    f \in [0 .. n -> A] /\ f[0] = base /\ \A k \in 1 .. n : f[k] = F[k][f[k - 1]]

(* Of any number of steps, a recursion that stays in A has a solution. *)
LEMMA RecursionOnNumbers ==
    ASSUME NEW A, NEW n \in Nat, NEW base \in A, NEW F \in [1 .. n -> [A -> A]]
    PROVE  \E f : Iterates(f, A, n, base, F)
<1> DEFINE Solves(f, m) == Iterates(f, A, m, base, F)
           T == {m \in 1 .. n : ~ \E f : Solves(f, m)}
<1>1. \E f : Solves(f, 0)
  <2>1. Solves([k \in 0 .. 0 |-> base], 0)
    BY DEF Iterates
  <2> HIDE DEF Solves
  <2> QED
    BY <2>1
<1>2. T = {}
  <2> SUFFICES ASSUME T # {}
               PROVE  FALSE
    OBVIOUS
  <2>1. PICK m \in T : \A j \in T : m <= j
    <3>1. T \in SUBSET (1 .. n)
      OBVIOUS
    <3> HIDE DEF T
    <3> QED
      BY <3>1, LeastNumber
  <2>2. m \in 1 .. n /\ ~ \E f : Solves(f, m)
    OBVIOUS
  <2>3. m - 1 \notin T
    <3> HIDE DEF T
    <3> QED
      BY <2>1, <2>2
  <2>4. PICK f : Solves(f, m - 1)
    <3>1. CASE m = 1
      <4>1. m - 1 = 0
        BY <3>1
      <4> HIDE DEF Solves
      <4> QED
        BY <1>1, <4>1
    <3>2. CASE m # 1
      BY <2>2, <2>3, <3>2
    <3> QED
      BY <3>1, <3>2
  <2> DEFINE g == [k \in 0 .. m |-> IF k = m THEN F[m][f[m - 1]] ELSE f[k]]
  <2>5. f[m - 1] \in A /\ F[m][f[m - 1]] \in A
    BY <2>2, <2>4 DEF Iterates
  <2>6. g \in [0 .. m -> A] /\ g[0] = base
    BY <2>2, <2>4, <2>5 DEF Iterates
  <2>7. \A k \in 1 .. m : g[k] = F[k][g[k - 1]]
    BY <2>2, <2>4 DEF Iterates
  <2> QED
    BY <2>2, <2>6, <2>7 DEF Iterates
<1>3. \E f : Solves(f, n)
  <2>1. CASE n = 0
    <3> HIDE DEF Solves
    <3> QED
      BY <1>1, <2>1
  <2>2. CASE n # 0
    <3>1. n \in 1 .. n
      BY <2>2
    <3> HIDE DEF Solves
    <3> QED
      BY <1>2, <3>1
  <2> QED
    BY <2>1, <2>2
<1> QED
  BY <1>3

(* FlattenSeq appends the sequences one by one. *)
LEMMA FlattenSteps ==
    ASSUME NEW T, NEW seqs \in Seq(Seq(T)), seqs # <<>>
    PROVE  \E f \in [1 .. Len(seqs) -> Seq(T)] :
              /\ f[1] = seqs[1]
              /\ \A i \in 2 .. Len(seqs) : f[i] = f[i - 1] \o seqs[i]
              /\ FlattenSeq(seqs) = f[Len(seqs)]
<1> DEFINE n == Len(seqs)
           Flattens(h) == h = [i \in 1 .. n |-> IF i = 1 THEN seqs[i] ELSE h[i - 1] \o seqs[i]]
           h == CHOOSE f : Flattens(f)
           F == [i \in 1 .. n |-> [s \in Seq(T) |-> IF i = 1 THEN seqs[i] ELSE s \o seqs[i]]]
<1>1. n \in Nat /\ n # 0 /\ \A i \in 1 .. n : seqs[i] \in Seq(T)
  OBVIOUS
<1>2. FlattenSeq(seqs) = h[n]
  BY <1>1 DEF FlattenSeq
<1> HIDE DEF n
<1>3. \E f : Flattens(f)
  <2>1. \A i \in 1 .. n, s \in Seq(T) : s \o seqs[i] \in Seq(T)
    BY <1>1
  <2>2. F \in [1 .. n -> [Seq(T) -> Seq(T)]]
    BY <1>1, <2>1
  <2>3. <<>> \in Seq(T)
    OBVIOUS
  <2> HIDE DEF F
  <2> DEFINE A == Seq(T)
             e == <<>>
  <2>4. PICK f : Iterates(f, A, n, e, F)
    <3>1. F \in [1 .. n -> [A -> A]] /\ e \in A /\ n \in Nat
      BY <1>1, <2>2, <2>3
    <3> HIDE DEF A, e
    <3> QED
      BY <3>1, RecursionOnNumbers, Zenon
  <2> DEFINE g == [i \in 1 .. n |-> f[i]]
  <2>5. ASSUME NEW i \in 1 .. n
        PROVE  f[i] = IF i = 1 THEN seqs[i] ELSE g[i - 1] \o seqs[i]
    <3>1. f[i] = F[i][f[i - 1]] /\ f[i - 1] \in Seq(T)
      <4>1. i - 1 \in 0 .. n
        BY <1>1
      <4> QED
        BY <2>4, <4>1 DEF Iterates
    <3>2. f[i] = IF i = 1 THEN seqs[i] ELSE f[i - 1] \o seqs[i]
      BY <3>1 DEF F
    <3>3. i # 1 => g[i - 1] = f[i - 1]
      BY <1>1
    <3> QED
      BY <3>2, <3>3
  <2>6. Flattens(g)
    BY <2>5
  <2> QED
    BY <2>6
<1>4. Flattens(h)
  <2> HIDE DEF Flattens
  <2> QED
    BY <1>3, Zenon
<1> HIDE DEF h
<1>5. \A i \in 1 .. n : h[i] = IF i = 1 THEN seqs[i] ELSE h[i - 1] \o seqs[i]
  BY <1>4
<1> DEFINE B == {i \in 1 .. n : h[i] \notin Seq(T)}
<1>6. B = {}
  <2> SUFFICES ASSUME B # {}
               PROVE  FALSE
    OBVIOUS
  <2>1. PICK m \in B : \A j \in B : m <= j
    <3>1. B \in SUBSET (1 .. n)
      OBVIOUS
    <3> HIDE DEF B
    <3> QED
      BY <1>1, <3>1, LeastNumber
  <2>2. m # 1
    BY <1>1, <1>5, <2>1
  <2>3. m - 1 \in 1 .. n /\ h[m - 1] \in Seq(T) /\ seqs[m] \in Seq(T)
    BY <1>1, <2>1, <2>2
  <2>4. h[m] = h[m - 1] \o seqs[m]
    BY <1>5, <2>1, <2>2
  <2>5. h[m] \in Seq(T)
    BY <2>3, <2>4
  <2> QED
    BY <2>1, <2>5
<1>7. h \in [1 .. n -> Seq(T)]
  BY <1>4, <1>6
<1>8. h[1] = seqs[1] /\ \A i \in 2 .. n : h[i] = h[i - 1] \o seqs[i]
  <2>1. 1 \in 1 .. n /\ \A i \in 2 .. n : i \in 1 .. n /\ i # 1
    BY <1>1
  <2> QED
    BY <1>5, <2>1
<1> QED
  BY <1>2, <1>7, <1>8 DEF n

(* A fold from the left takes its elements off the right end: its function is one on
   the sets of positions. *)
FoldsBy(h, A, S, base, F) ==
    /\ h \in [SUBSET S -> A]
    /\ \A s \in SUBSET S : h[s] = IF s = {} THEN base ELSE F[Max(s)][h[s \ {Max(s)}]]

LEMMA RecursionOnSubsets ==
    ASSUME NEW A, NEW n \in Nat, NEW base \in A, NEW F \in [1 .. n -> [A -> A]]
    PROVE  \E h : FoldsBy(h, A, 1 .. n, base, F)
<1> DEFINE U == 1 .. n
           Solves(h, r) == FoldsBy(h, A, r, base, F)
           T == {r \in SUBSET U : ~ \E h : Solves(h, r)}
<1> SUFFICES ASSUME T # {}
             PROVE  FALSE
  OBVIOUS
<1>1. PICK r \in T : \A x \in r : r \ {x} \notin T
  <2>1. T \in SUBSET (SUBSET U) /\ IsFiniteSet(U)
    BY NumbersToN
  <2> HIDE DEF T, U
  <2> QED
    BY <2>1, Smallest, Zenon
<1>2. r \in SUBSET U /\ ~ \E h : Solves(h, r)
  OBVIOUS
<1>3. r # {}
  <2>1. Solves([s \in SUBSET {} |-> base], {})
    BY DEF FoldsBy
  <2> HIDE DEF Solves
  <2> QED
    BY <1>2, <2>1
<1> DEFINE m == Max(r)
<1>4. m \in r /\ \A j \in r : j <= m
  BY <1>2, <1>3, GreatestNumber
<1>5. \A s \in SUBSET r : m \in s => Max(s) = m
  <2> TAKE s \in SUBSET r
  <2> HAVE m \in s
  <2>1. Max(s) \in s /\ \A j \in s : j <= Max(s)
    BY <1>2, GreatestNumber
  <2>2. Max(s) <= m /\ m <= Max(s)
    <3> HIDE DEF m
    <3> QED
      BY <1>4, <2>1
  <2>3. Max(s) \in Int /\ m \in Int
    <3>1. \A j \in r : j \in Int
      BY <1>2
    <3>2. Max(s) \in r /\ m \in r
      <4> HIDE DEF m
      <4> QED
        BY <1>4, <2>1
    <3> HIDE DEF m
    <3> QED
      BY <3>1, <3>2
  <2> HIDE DEF m
  <2> QED
    BY <2>2, <2>3
<1>6. \A s \in SUBSET r : s # {} => Max(s) \in s
  BY <1>2, GreatestNumber
<1>7. PICK h : Solves(h, r \ {m})
  <2>1. r \ {m} \in SUBSET U /\ r \ {m} \notin T
    <3> HIDE DEF T, m
    <3> QED
      BY <1>1, <1>2, <1>4
  <2> HIDE DEF Solves, m
  <2> QED
    BY <2>1
<1> HIDE DEF m
<1> DEFINE g == [s \in SUBSET r |-> IF m \in s THEN F[m][h[s \ {m}]] ELSE h[s]]
<1>8. ASSUME NEW s \in SUBSET r
      PROVE  g[s] \in A /\ g[s] = IF s = {} THEN base ELSE F[Max(s)][g[s \ {Max(s)}]]
  <2>1. CASE m \in s
    <3>1. s \ {m} \in SUBSET (r \ {m}) /\ s \ {m} \in SUBSET r /\ m \notin s \ {m}
      OBVIOUS
    <3>2. h[s \ {m}] \in A /\ g[s \ {m}] = h[s \ {m}]
      BY <1>7, <3>1 DEF FoldsBy
    <3>3. F[m] \in [A -> A]
      BY <1>2, <1>4
    <3>4. g[s] = F[m][h[s \ {m}]]
      BY <2>1
    <3>5. Max(s) = m
      BY <1>5, <2>1
    <3> HIDE DEF g
    <3> QED
      BY <2>1, <3>2, <3>3, <3>4, <3>5
  <2>2. CASE m \notin s
    <3>1. s \in SUBSET (r \ {m}) /\ g[s] = h[s]
      BY <2>2
    <3>2. h[s] \in A /\ h[s] = IF s = {} THEN base ELSE F[Max(s)][h[s \ {Max(s)}]]
      BY <1>7, <3>1 DEF FoldsBy
    <3>3. g[s \ {Max(s)}] = h[s \ {Max(s)}]
      BY <2>2
    <3> HIDE DEF g
    <3> QED
      BY <3>1, <3>2, <3>3
  <2> QED
    BY <2>1, <2>2
<1>9. Solves(g, r)
  <2>1. g = [s \in SUBSET r |-> g[s]]
    OBVIOUS
  <2> HIDE DEF g
  <2> QED
    BY <1>8, <2>1 DEF FoldsBy
<1> HIDE DEF Solves, g
<1> QED
  BY <1>2, <1>9

(* What holds of zero, and of a number when it holds of the one before, holds up to n. *)
LEMMA UpTo ==
    ASSUME NEW n \in Nat, NEW B, 0 \in B, \A k \in 1 .. n : k - 1 \in B => k \in B
    PROVE  \A k \in 0 .. n : k \in B
<1> DEFINE T == {k \in 1 .. n : k \notin B}
<1>1. T = {}
  <2> SUFFICES ASSUME T # {}
               PROVE  FALSE
    OBVIOUS
  <2>1. PICK m \in T : \A j \in T : m <= j
    <3>1. T \in SUBSET (1 .. n)
      OBVIOUS
    <3> HIDE DEF T
    <3> QED
      BY <3>1, LeastNumber
  <2>2. m \in 1 .. n /\ m \notin B
    OBVIOUS
  <2>3. m - 1 \in B
    <3>1. CASE m = 1
      BY <3>1
    <3>2. CASE m # 1
      <4>1. m - 1 \in 1 .. n /\ ~ (m <= m - 1)
        BY <2>2, <3>2
      <4> QED
        BY <2>1, <4>1
    <3> QED
      BY <3>1, <3>2
  <2> QED
    BY <2>2, <2>3
<1>2. \A k \in 0 .. n : k = 0 \/ k \in 1 .. n
  OBVIOUS
<1> QED
  BY <1>1, <1>2

(* A fold whose values are in A as far as those before them are *)
Folding(h, A, S, base, F) ==
    /\ h[{}] = base
    /\ \A s \in SUBSET S :
          s # {} /\ h[s \ {Max(s)}] \in A => h[s] = F[Max(s)][h[s \ {Max(s)}]]

(* goes from one number to the next. *)
RowOf(r, A, n, base, F, last) ==
    /\ r \in [0 .. n -> A]
    /\ r[0] = base /\ \A k \in 1 .. n : r[k] = F[k][r[k - 1]]
    /\ r[n] = last

LEMMA FoldSteps ==
    ASSUME NEW A, NEW n \in Nat, NEW base \in A, NEW F \in [1 .. n -> [A -> A]],
           NEW h, Folding(h, A, 1 .. n, base, F)
    PROVE  \E r : RowOf(r, A, n, base, F, h[1 .. n])
<1> DEFINE r == [k \in 0 .. n |-> h[1 .. k]]
           B == {k \in 0 .. n : r[k] \in A}
<1>1. 1 .. 0 = {} /\ 0 \in 0 .. n /\ n \in 0 .. n
  OBVIOUS
<1>2. r[0] = base /\ r[n] = h[1 .. n]
  BY <1>1 DEF Folding
<1>3. ASSUME NEW k \in 1 .. n, k - 1 \in B
      PROVE  r[k] = F[k][r[k - 1]] /\ k \in B
  <2>1. /\ 1 .. k \in SUBSET (1 .. n) /\ 1 .. k # {}
        /\ Max(1 .. k) = k /\ (1 .. k) \ {k} = 1 .. (k - 1)
    BY LastNumber
  <2>2. k \in 0 .. n /\ k - 1 \in 0 .. n
    OBVIOUS
  <2>3. r[k] = h[1 .. k] /\ r[k - 1] = h[1 .. (k - 1)] /\ r[k - 1] \in A
    BY <1>3, <2>2
  <2>4. h[1 .. k] = F[k][h[1 .. (k - 1)]]
    BY <2>1, <2>3 DEF Folding
  <2>5. F[k][r[k - 1]] \in A
    BY <2>3
  <2> QED
    BY <2>2, <2>3, <2>4, <2>5
<1>4. \A k \in 0 .. n : k \in B
  <2>1. 0 \in B
    BY <1>1, <1>2
  <2>2. \A k \in 1 .. n : k - 1 \in B => k \in B
    BY <1>3
  <2> HIDE DEF B
  <2> QED
    BY <2>1, <2>2, UpTo
<1>5. r \in [0 .. n -> A]
  BY <1>4
<1>6. \A k \in 1 .. n : k - 1 \in 0 .. n
  OBVIOUS
<1>7. RowOf(r, A, n, base, F, h[1 .. n])
  <2>1. \A k \in 1 .. n : r[k] = F[k][r[k - 1]]
    BY <1>3, <1>4, <1>6
  <2> HIDE DEF r
  <2> QED
    BY <1>2, <1>5, <2>1 DEF RowOf
<1> QED
  BY <1>7

(* SetToSeq lists a finite set. *)
LEMMA SetIsListed ==
    ASSUME NEW S, IsFiniteSet(S)
    PROVE  \E n \in Nat : SetToSeq(S) \in [1 .. n -> S] /\ \A x \in S : \E i \in 1 .. n : SetToSeq(S)[i] = x
<1> DEFINE n == Cardinality(S)
           q == SetToSeq(S)
<1>1. n \in Nat /\ ExistsBijection(1 .. n, S)
  BY FS_CardinalityType
<1>2. q \in [1 .. n -> S] /\ IsInjective(q)
  <2>1. \E f \in [1 .. n -> S] : IsInjective(f)
    BY <1>1 DEF ExistsBijection, Bijection, Injection
  <2>2. q = CHOOSE f \in [1 .. n -> S] : IsInjective(f)
    BY DEF SetToSeq
  <2> HIDE DEF q, n
  <2> QED
    BY <2>1, <2>2
<1> HIDE DEF q
<1> DEFINE R == {q[i] : i \in 1 .. n}
<1>3. IsFiniteSet(1 .. n) /\ Cardinality(1 .. n) = n
  <2> HIDE DEF n
  <2>1. 1 \in Int /\ n \in Int
    BY <1>1
  <2>2. IsFiniteSet(1 .. n) /\ Cardinality(1 .. n) = IF 1 > n THEN 0 ELSE n - 1 + 1
    BY <2>1, FS_Interval, Zenon
  <2> QED
    BY <1>1, <2>2
<1>4. q \in Bijection(1 .. n, R)
  <2> HIDE DEF n
  <2>1. R \in SUBSET S
    BY <1>2
  <2> QED
    BY <1>2 DEF Bijection, Injection, Surjection, IsInjective
<1>5. IsFiniteSet(R) /\ Cardinality(R) = n
  BY <1>3, <1>4, FS_Bijection DEF ExistsBijection
<1>6. R \subseteq S
  BY <1>2
<1>7. R = S
  BY <1>5, <1>6, FS_Subset, FS_CardinalityType
<1> QED
  BY <1>1, <1>2, <1>7 DEF q
================================================================================
