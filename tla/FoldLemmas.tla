----------------------------- MODULE FoldLemmas -----------------------------
(* Facts about numbers, finite sets and folds that the proofs about the
   components share.  They are induction without an operator as a parameter:
   what is to hold of all numbers, or of all subsets of a set, is a set.  A
   proof about a fold defines the function the fold is defined by, takes its
   existence from FoldExists and goes through the subsets with
   PickedInduction. *)
EXTENDS SequencesExt, FiniteSetTheorems, WellFoundedInduction, TLAPS

(* A set of numbers that is not empty has a least element. *)
LEMMA LeastElement ==
  ASSUME NEW T \in SUBSET Nat, T # {}
  PROVE  \E x \in T : \A y \in T : x <= y
<1> DEFINE R == {ss \in Nat \X Nat : ss[1] < ss[2]}
<1>1. IsWellFoundedOn(R, Nat)
  BY NatLessThanWellFounded DEF OpToRel
<1>2. \E x \in T : \A y \in T : <<y, x>> \notin R
  <2> HIDE DEF R
  <2> QED BY <1>1, WFMin
<1>3. ASSUME NEW x \in Nat, NEW y \in Nat, <<y, x>> \notin R PROVE x <= y
  BY <1>3
<1> QED BY <1>2, <1>3

(* Induction over the numbers, for a set instead of a predicate. *)
LEMMA AllNumbers ==
  ASSUME NEW T \in SUBSET Nat, 0 \in T, \A n \in T : n + 1 \in T
  PROVE  T = Nat
<1> DEFINE Rest == Nat \ T
<1>1. SUFFICES ASSUME Rest # {} PROVE FALSE
  OBVIOUS
<1>2. Rest \in SUBSET Nat
  OBVIOUS
<1>3. PICK x \in Rest : \A y \in Rest : x <= y
  <2> HIDE DEF Rest
  <2> QED BY <1>1, <1>2, LeastElement
<1>4. x \in Nat /\ x # 0
  OBVIOUS
<1>5. x - 1 \in Nat /\ ~(x <= x - 1) /\ (x - 1) + 1 = x
  BY <1>4
<1>6. x - 1 \in T
  BY <1>3, <1>5
<1> QED BY <1>5, <1>6

(* The sizes of the subsets of a finite set, and of one with an element less. *)
LEMMA Sizes ==
  ASSUME NEW S, IsFiniteSet(S), NEW s \in SUBSET S
  PROVE  /\ Cardinality(s) \in Nat /\ Cardinality(s) <= Cardinality(S)
         /\ Cardinality(s) <= 0 => s = {}
         /\ \A e \in s : Cardinality(s \ {e}) = Cardinality(s) - 1
<1>1. IsFiniteSet(s)
  BY FS_Subset
<1>2. Cardinality(s) \in Nat /\ Cardinality(s) <= Cardinality(S) /\ (Cardinality(s) = 0 <=> s = {})
  BY <1>1, FS_CardinalityType, FS_Subset, FS_EmptySet
<1>3. \A e \in s : Cardinality(s \ {e}) = Cardinality(s) - 1
  BY <1>1, FS_RemoveElement
<1>4. Cardinality(s) <= 0 => s = {}
  BY <1>2
<1> QED BY <1>2, <1>3, <1>4

\* pick chooses an element of every subset of S that is not empty
Picks(pick, S) == \A s \in SUBSET S : s # {} => pick[s] \in s

\* g solves the equation of a fold over S
Solves(g, S, pick, base, step) ==
  \A s \in SUBSET S : g[s] = IF s = {} THEN base ELSE step[s][g[s \ {pick[s]}]]

(* What holds of the empty set, and of a set when it holds of the set without
   the element a fold picks, holds of the whole set. *)
LEMMA PickedInduction ==
  ASSUME NEW S, IsFiniteSet(S), NEW pick, Picks(pick, S),
         NEW Good \in SUBSET SUBSET S, {} \in Good,
         \A s \in SUBSET S : s # {} /\ s \ {pick[s]} \in Good => s \in Good
  PROVE  Good = SUBSET S
<1> USE DEF Picks
<1> DEFINE T == {n \in Nat : \A s \in SUBSET S : Cardinality(s) <= n => s \in Good}
<1>1. 0 \in T
  <2>1. ASSUME NEW s \in SUBSET S, Cardinality(s) <= 0 PROVE s \in Good
    BY <2>1, Sizes
  <2> QED BY <2>1
<1>2. ASSUME NEW n \in T PROVE n + 1 \in T
  <2>1. ASSUME NEW s \in SUBSET S, Cardinality(s) <= n + 1 PROVE s \in Good
    <3>1. CASE s = {}
      BY <3>1
    <3>2. CASE s # {}
      <4>1. pick[s] \in s
        BY <3>2
      <4>2. Cardinality(s) \in Nat /\ Cardinality(s \ {pick[s]}) = Cardinality(s) - 1
        BY <4>1, Sizes
      <4>3. Cardinality(s \ {pick[s]}) <= n
        BY <2>1, <4>2
      <4>4. s \ {pick[s]} \in Good
        BY <4>3
      <4> QED BY <4>4, <3>2
    <3> QED BY <3>1, <3>2
  <2> QED BY <2>1
<1>3. T = Nat
  <2>1. T \in SUBSET Nat
    OBVIOUS
  <2> HIDE DEF T
  <2> QED BY <1>1, <1>2, <2>1, AllNumbers
<1>4. Cardinality(S) \in Nat
  BY Sizes
<1>5. \A s \in SUBSET S : s \in Good
  BY <1>3, <1>4, Sizes
<1> QED BY <1>5

(* The function by which MapThenFoldSet is defined exists: the equation has a
   solution whose values stay in any set the folded operator stays in. *)
LEMMA FoldExists ==
  ASSUME NEW S, IsFiniteSet(S), NEW pick, Picks(pick, S),
         NEW A, NEW base \in A, NEW step \in [SUBSET S -> [A -> A]]
  PROVE  \E g \in [SUBSET S -> A] : Solves(g, S, pick, base, step)
<1> USE DEF Picks
<1> DEFINE Body(f, s) == IF s = {} THEN base ELSE step[s][f[s \ {pick[s]}]]
           UpTo(f, n) == \A s \in SUBSET S : Cardinality(s) <= n => f[s] = Body(f, s)
           T == {n \in Nat : \E g \in [SUBSET S -> A] : UpTo(g, n)}
<1>1. 0 \in T
  <2> DEFINE g == [s \in SUBSET S |-> base]
  <2>1. g \in [SUBSET S -> A]
    OBVIOUS
  <2>2. ASSUME NEW s \in SUBSET S, Cardinality(s) <= 0 PROVE g[s] = Body(g, s)
    BY <2>2, Sizes
  <2> QED BY <2>1, <2>2
<1>2. ASSUME NEW n \in T PROVE n + 1 \in T
  <2>1. PICK g \in [SUBSET S -> A] : UpTo(g, n)
    OBVIOUS
  <2> DEFINE h == [s \in SUBSET S |-> Body(g, s)]
  <2>2. h \in [SUBSET S -> A]
    <3> SUFFICES ASSUME NEW s \in SUBSET S PROVE Body(g, s) \in A
      OBVIOUS
    <3>1. CASE s = {}
      BY <3>1
    <3>2. CASE s # {}
      <4>1. g[s \ {pick[s]}] \in A
        OBVIOUS
      <4> QED BY <4>1, <3>2
    <3> QED BY <3>1, <3>2
  <2>3. ASSUME NEW s \in SUBSET S, Cardinality(s) <= n + 1 PROVE h[s] = Body(h, s)
    <3>1. CASE s = {}
      BY <3>1
    <3>2. CASE s # {}
      <4> DEFINE t == s \ {pick[s]}
      <4>1. pick[s] \in s
        BY <3>2
      <4>2. Cardinality(s) \in Nat /\ Cardinality(t) = Cardinality(s) - 1
        BY <4>1, Sizes
      <4>3. Cardinality(t) <= n
        BY <2>3, <4>2
      <4>4. h[t] = g[t]
        BY <4>3, <2>1
      <4> QED BY <4>4, <3>2
    <3> QED BY <3>1, <3>2
  <2>4. UpTo(h, n + 1)
    BY <2>3
  <2>5. \E f \in [SUBSET S -> A] : UpTo(f, n + 1)
    <3> HIDE DEF UpTo, h
    <3> QED BY <2>2, <2>4
  <2>6. n + 1 \in Nat
    OBVIOUS
  <2> HIDE DEF UpTo
  <2> QED BY <2>5, <2>6
<1>3. T = Nat
  <2>1. T \in SUBSET Nat
    OBVIOUS
  <2> HIDE DEF T
  <2> QED BY <1>1, <1>2, <2>1, AllNumbers
<1>4. Cardinality(S) \in Nat
  BY Sizes
<1>5. PICK g \in [SUBSET S -> A] : UpTo(g, Cardinality(S))
  BY <1>3, <1>4
<1>6. \A s \in SUBSET S : g[s] = Body(g, s)
  BY <1>5, Sizes
<1> QED BY <1>6 DEF Solves

(* The values of a function at finitely many arguments are finitely many. *)
LEMMA FiniteImage ==
  ASSUME NEW S, IsFiniteSet(S), NEW f
  PROVE  IsFiniteSet({f[x] : x \in S})
<1> DEFINE T == {f[x] : x \in S}
           g == [x \in S |-> f[x]]
<1>1. g \in Surjection(S, T)
  BY DEF Surjection
<1> QED BY <1>1, FS_Surjection

(* The least element of a set of numbers. *)
LEMMA FirstOfSome ==
  ASSUME NEW T \in SUBSET Nat, T # {}
  PROVE  Min(T) \in T /\ \A y \in T : Min(T) <= y
<1>1. \E x \in T : \A y \in T : x <= y
  BY LeastElement
<1> QED BY <1>1 DEF Min

(* The greatest element of a set of positions. *)
LEMMA LastOfSome ==
  ASSUME NEW n \in Nat, NEW s \in SUBSET (1..n), s # {}
  PROVE  Max(s) \in s /\ \A e \in s : Max(s) >= e
<1> DEFINE T == {n - e : e \in s}
<1>1. T \in SUBSET Nat
  OBVIOUS
<1>0. T # {}
  <2>1. PICK e : e \in s
    OBVIOUS
  <2>2. n - e \in T
    BY <2>1
  <2> QED BY <2>2
<1>2. PICK x \in T : \A y \in T : x <= y
  <2> HIDE DEF T
  <2> QED BY <1>0, <1>1, LeastElement
<1>3. PICK m \in s : x = n - m
  OBVIOUS
<1>4. \A e \in s : m >= e
  <2>1. ASSUME NEW e \in s PROVE m >= e
    <3>1. x <= n - e
      BY <1>2
    <3>2. e \in Nat /\ m \in Nat
      OBVIOUS
    <3> QED BY <3>1, <3>2, <1>3
  <2> QED BY <2>1
<1>5. \E k \in s : \A e \in s : k >= e
  BY <1>4
<1> QED BY <1>5 DEF Max

Chosen(s) == CHOOSE x \in s : TRUE
SumOf(c, S) == FoldFunctionOnSet(+, 0, c, S)
\* sum[s] is what the numbers c of the members of s add up to
Adds(sum, c, S) == \A s \in SUBSET S : sum[s] = IF s = {} THEN 0 ELSE c[Chosen(s)] + sum[s \ {Chosen(s)}]

(* The function by which a sum is defined, on the subsets of what is added up. *)
LEMMA AddingUp ==
  ASSUME NEW D, IsFiniteSet(D), NEW c \in [D -> Nat], NEW S \in SUBSET D
  PROVE  \E sum \in [SUBSET S -> Nat] : sum[S] = SumOf(c, S) /\ Adds(sum, c, S)
<1> DEFINE pick == [s \in SUBSET S |-> Chosen(s)]
           Body(f, s) == IF s = {} THEN 0 ELSE c[Chosen(s)] + f[s \ {Chosen(s)}]
           Equation(f) == f = [s \in SUBSET S |-> Body(f, s)]
           iter == CHOOSE f : Equation(f)
           step == [s \in SUBSET S |-> [acc \in Nat |-> IF s = {} THEN acc ELSE c[Chosen(s)] + acc]]
<1>1. IsFiniteSet(S)
  BY FS_Subset
<1>2. \A s \in SUBSET S : s # {} => Chosen(s) \in s
  BY DEF Chosen
<1>3. Picks(pick, S)
  BY <1>2 DEF Picks
<1>4. \E f : Equation(f)
  <2>1. step \in [SUBSET S -> [Nat -> Nat]] /\ 0 \in Nat
    BY <1>2
  <2>2. PICK g \in [SUBSET S -> Nat] : Solves(g, S, pick, 0, step)
    <3> DEFINE A == Nat
               base == 0
    <3>1. base \in A /\ step \in [SUBSET S -> [A -> A]]
      BY <2>1
    <3> HIDE DEF step, pick, A, base
    <3>2. \E g \in [SUBSET S -> A] : Solves(g, S, pick, base, step)
      BY <1>1, <1>3, <3>1, FoldExists
    <3> QED BY <3>2 DEF A, base
  <2>3. \A s \in SUBSET S : g[s] = Body(g, s)
    BY <2>2 DEF Solves
  <2>4. Equation(g)
    <3> HIDE DEF Body
    <3> QED BY <2>3
  <2> QED BY <2>4
<1>5. Equation(iter)
  <2> HIDE DEF Equation
  <2> QED BY <1>4
<1>6. \A s \in SUBSET S : iter[s] = Body(iter, s)
  <2> HIDE DEF iter, Body
  <2> QED BY <1>5
<1>10. SumOf(c, S) = iter[S]
  BY Zenon DEF SumOf, FoldFunctionOnSet, MapThenFoldSet, iter, Chosen
<1> HIDE DEF iter
<1> DEFINE Good == {s \in SUBSET S : iter[s] \in Nat}
<1>7. {} \in Good
  <2>1. iter[{}] = 0
    BY <1>6
  <2> QED BY <2>1
<1>8. ASSUME NEW s \in SUBSET S, s # {}, s \ {pick[s]} \in Good PROVE s \in Good
  <2>1. iter[s] = c[pick[s]] + iter[s \ {pick[s]}] /\ pick[s] \in D
    BY <1>2, <1>6, <1>8
  <2> QED BY <2>1, <1>8
<1>9. Good = SUBSET S
  <2>1. Good \in SUBSET SUBSET S
    OBVIOUS
  <2> HIDE DEF Good, pick
  <2> QED BY <1>1, <1>3, <1>7, <1>8, <2>1, PickedInduction
<1>11. iter \in [SUBSET S -> Nat]
  <2>1. iter = [s \in SUBSET S |-> Body(iter, s)]
    BY <1>5
  <2>2. \A s \in SUBSET S : iter[s] \in Nat
    BY <1>9
  <2> HIDE DEF Body
  <2> QED BY <2>1, <2>2
<1>12. Adds(iter, c, S)
  BY <1>6 DEF Adds
<1> QED BY <1>10, <1>11, <1>12

(* Numbers add up to a number. *)
LEMMA Summing ==
  ASSUME NEW D, IsFiniteSet(D), NEW c \in [D -> Nat], NEW S \in SUBSET D
  PROVE  SumOf(c, S) \in Nat
<1>1. PICK sum \in [SUBSET S -> Nat] : sum[S] = SumOf(c, S) /\ Adds(sum, c, S)
  BY AddingUp
<1>2. sum[S] \in Nat
  OBVIOUS
<1> QED BY <1>1, <1>2

\* how many of the events at the positions s are in T
Hits(calls, s, T) == Cardinality({i \in s : calls[i] \in T})

(* One position more. *)
LEMMA OneMore ==
  ASSUME NEW s, IsFiniteSet(s), NEW m \in s, NEW calls, NEW T
  PROVE  /\ Hits(calls, s, T) \in Nat /\ Hits(calls, s \ {m}, T) \in Nat
         /\ Hits(calls, s, T) = Hits(calls, s \ {m}, T) + IF calls[m] \in T THEN 1 ELSE 0
<1> DEFINE In(x) == {i \in x : calls[i] \in T}
<1>1. IsFiniteSet(In(s)) /\ Cardinality(In(s)) \in Nat
  <2>1. IsFiniteSet(In(s))
    BY FS_Subset
  <2> QED BY <2>1, FS_CardinalityType
<1>2. In(s \ {m}) = In(s) \ {m}
  OBVIOUS
<1>3. Cardinality(In(s \ {m})) = IF m \in In(s) THEN Cardinality(In(s)) - 1 ELSE Cardinality(In(s))
  BY <1>1, <1>2, FS_RemoveElement
<1>4. Cardinality(In(s \ {m})) \in Nat
  <2>1. IsFiniteSet(In(s) \ {m})
    BY <1>1, FS_RemoveElement
  <2> QED BY <1>2, <2>1, FS_CardinalityType
<1>5. m \in In(s) <=> calls[m] \in T
  OBVIOUS
<1>6. Cardinality(In(s)) = Cardinality(In(s \ {m})) + IF m \in In(s) THEN 1 ELSE 0
  <2> HIDE DEF In
  <2> QED BY <1>1, <1>3, <1>4
<1> QED BY <1>1, <1>4, <1>5, <1>6 DEF Hits

(* When every number grows at most by how often its index occurs among some
   events, their sum grows at most by how many of the events concern them. *)
LEMMA SumGrows ==
  ASSUME NEW D, IsFiniteSet(D), NEW S \in SUBSET D,
         NEW f \in [D -> Nat], NEW g \in [D -> Nat],
         NEW I, IsFiniteSet(I), NEW h,
         \A x \in S : g[x] <= f[x] + Hits(h, I, {x})
  PROVE  SumOf(g, S) <= SumOf(f, S) + Hits(h, I, S)
<1> DEFINE pick == [s \in SUBSET S |-> Chosen(s)]
           In(s) == {i \in I : h[i] \in s}
<1>1. PICK fs \in [SUBSET S -> Nat] : fs[S] = SumOf(f, S) /\ Adds(fs, f, S)
  BY AddingUp
<1>2. PICK gs \in [SUBSET S -> Nat] : gs[S] = SumOf(g, S) /\ Adds(gs, g, S)
  BY AddingUp
<1>3. IsFiniteSet(S) /\ Picks(pick, S)
  BY FS_Subset DEF Picks, Chosen
<1>4. \A s : IsFiniteSet(In(s)) /\ Cardinality(In(s)) \in Nat
  BY FS_Subset, FS_CardinalityType
<1>5. ASSUME NEW s \in SUBSET S, NEW x \in s
      PROVE  Cardinality(In(s)) = Cardinality(In(s \ {x})) + Cardinality({i \in I : h[i] = x})
  <2>1. In(s) = In(s \ {x}) \cup In({x}) /\ In(s \ {x}) \cap In({x}) = {} /\ In({x}) = {i \in I : h[i] = x}
    OBVIOUS
  <2>2. IsFiniteSet(In(s \ {x})) /\ IsFiniteSet(In({x}))
    BY <1>4
  <2>3. /\ Cardinality(In(s \ {x})) \in Nat /\ Cardinality(In({x})) \in Nat
    BY <1>4
  <2> HIDE DEF In
  <2>4. Cardinality(In(s)) = Cardinality(In(s \ {x})) + Cardinality(In({x})) - Cardinality({})
    BY <2>1, <2>2, FS_Union
  <2>5. Cardinality({}) = 0 /\ Cardinality(In({x})) = Cardinality({i \in I : h[i] = x})
    BY <2>1, FS_EmptySet
  <2> QED BY <2>1, <2>3, <2>4, <2>5
<1> DEFINE Good == {s \in SUBSET S : gs[s] <= fs[s] + Cardinality(In(s))}
<1>6. {} \in Good
  <2>1. In({}) = {}
    OBVIOUS
  <2>2. gs[{}] = 0 /\ fs[{}] = 0 /\ Cardinality(In({})) = 0
    BY <1>1, <1>2, <2>1, FS_EmptySet DEF Adds
  <2> QED BY <2>2
<1>7. ASSUME NEW s \in SUBSET S, s # {}, s \ {pick[s]} \in Good PROVE s \in Good
  <2> DEFINE x == pick[s]
             n == Cardinality({i \in I : h[i] = x})
  <2>1. x \in s /\ x \in S /\ x \in D
    BY <1>3, <1>7 DEF Picks
  <2>2. gs[s] = g[x] + gs[s \ {x}] /\ fs[s] = f[x] + fs[s \ {x}]
    BY <1>1, <1>2, <1>7 DEF Adds
  <2>3. Cardinality(In(s)) = Cardinality(In(s \ {x})) + n
    BY <1>5, <2>1
  <2>4. gs[s \ {x}] <= fs[s \ {x}] + Cardinality(In(s \ {x}))
    BY <1>7
  <2>5. g[x] <= f[x] + n
    <3>1. {i \in I : h[i] = x} = {i \in I : h[i] \in {x}}
      OBVIOUS
    <3>2. n = Hits(h, I, {x})
      BY <3>1, Zenon DEF Hits
    <3> QED BY <2>1, <3>2
  <2>6. /\ g[x] \in Nat /\ f[x] \in Nat /\ gs[s \ {x}] \in Nat /\ fs[s \ {x}] \in Nat
        /\ Cardinality(In(s \ {x})) \in Nat /\ n \in Nat
    <3>1. IsFiniteSet({i \in I : h[i] = x})
      BY FS_Subset
    <3> QED BY <1>4, <2>1, <3>1, FS_CardinalityType
  <2> HIDE DEF In, n, x
  <2>7. gs[s] <= fs[s] + Cardinality(In(s))
    BY <2>2, <2>3, <2>4, <2>5, <2>6
  <2> QED BY <2>7
<1>8. Good = SUBSET S
  <2>1. Good \in SUBSET SUBSET S
    OBVIOUS
  <2> HIDE DEF Good, pick, In
  <2>2. \A s \in SUBSET S : s # {} /\ s \ {pick[s]} \in Good => s \in Good
    BY <1>7
  <2>3. IsFiniteSet(S) /\ Picks(pick, S)
    BY <1>3
  <2> QED BY <1>6, <2>1, <2>2, <2>3, PickedInduction
<1>9. gs[S] <= fs[S] + Cardinality(In(S))
  BY <1>8
<1> QED BY <1>1, <1>2, <1>9 DEF Hits

(* Noughts add up to nought. *)
LEMMA SumOfZeros ==
  ASSUME NEW D, IsFiniteSet(D), NEW c \in [D -> Nat], NEW S \in SUBSET D, \A x \in S : c[x] = 0
  PROVE  SumOf(c, S) = 0
<1> DEFINE pick == [s \in SUBSET S |-> Chosen(s)]
<1>1. PICK sum \in [SUBSET S -> Nat] : sum[S] = SumOf(c, S) /\ Adds(sum, c, S)
  BY AddingUp
<1>2. IsFiniteSet(S)
  BY FS_Subset
<1>3. Picks(pick, S)
  BY DEF Picks, Chosen
<1> DEFINE Good == {s \in SUBSET S : sum[s] = 0}
<1>4. {} \in Good
  BY <1>1 DEF Adds
<1>5. ASSUME NEW s \in SUBSET S, s # {}, s \ {pick[s]} \in Good PROVE s \in Good
  <2>1. pick[s] \in s /\ pick[s] = Chosen(s)
    BY <1>3, <1>5 DEF Picks
  <2>2. sum[s] = c[Chosen(s)] + sum[s \ {Chosen(s)}]
    BY <1>1, <1>5 DEF Adds
  <2>3. c[Chosen(s)] = 0 /\ sum[s \ {Chosen(s)}] = 0
    BY <1>5, <2>1
  <2> QED BY <2>2, <2>3
<1>6. Good = SUBSET S
  <2>1. Good \in SUBSET SUBSET S
    OBVIOUS
  <2> HIDE DEF Good, pick
  <2>2. \A s \in SUBSET S : s # {} /\ s \ {pick[s]} \in Good => s \in Good
    BY <1>5
  <2> QED BY <1>2, <1>3, <1>4, <2>1, <2>2, PickedInduction
<1>7. sum[S] = 0
  BY <1>6
<1> QED BY <1>1, <1>7

\* the elements of a sequence that are in T, in their order
Sifted(q, T) == FoldLeft(LAMBDA acc, e : IF e \in T THEN Append(acc, e) ELSE acc, <<>>, q)

(* Sifting keeps elements of the sequence that are in the set, each once if
   the sequence has each once. *)
LEMMA Sifting ==
  ASSUME NEW X, NEW q \in Seq(X), NEW T
  PROVE  /\ Sifted(q, T) \in Seq(X)
         /\ \A i \in DOMAIN Sifted(q, T) : Sifted(q, T)[i] \in T
         /\ (\A i, j \in DOMAIN q : q[i] = q[j] => i = j) =>
              \A i, j \in DOMAIN Sifted(q, T) : Sifted(q, T)[i] = Sifted(q, T)[j] => i = j
<1> DEFINE S == 1..Len(q)
           pick == [s \in SUBSET S |-> Max(s)]
           Grown(acc, e) == IF e \in T THEN Append(acc, e) ELSE acc
           Body(f, s) == IF s = {} THEN <<>> ELSE Grown(f[s \ {Max(s)}], q[Max(s)])
           Equation(f) == f = [s \in SUBSET S |-> Body(f, s)]
           iter == CHOOSE f : Equation(f)
           step == [s \in SUBSET S |-> [acc \in Seq(X) |-> IF s = {} THEN acc ELSE Grown(acc, q[Max(s)])]]
<1>1. Len(q) \in Nat /\ DOMAIN q = S /\ IsFiniteSet(S)
  BY FS_Interval
<1>2. \A s \in SUBSET S : s # {} => Max(s) \in s
  BY <1>1, LastOfSome
<1>0. Picks(pick, S)
  BY <1>2 DEF Picks
<1>3. \E f : Equation(f)
  <2>1. step \in [SUBSET S -> [Seq(X) -> Seq(X)]]
    <3>1. ASSUME NEW s \in SUBSET S, NEW acc \in Seq(X), s # {} PROVE Grown(acc, q[Max(s)]) \in Seq(X)
      <4>1. Max(s) \in DOMAIN q
        BY <1>1, <1>2, <3>1
      <4>2. q[Max(s)] \in X
        BY <4>1
      <4> HIDE DEF S
      <4> QED BY <4>2
    <3> HIDE DEF Grown
    <3> QED BY <3>1
  <2>2. <<>> \in Seq(X)
    OBVIOUS
  <2>4. PICK g \in [SUBSET S -> Seq(X)] : Solves(g, S, pick, <<>>, step)
    <3> DEFINE A == Seq(X)
               base == <<>>
    <3>1. base \in A /\ step \in [SUBSET S -> [A -> A]]
      BY <2>1, <2>2
    <3> HIDE DEF S, step, pick, A, base
    <3>2. \E g \in [SUBSET S -> A] : Solves(g, S, pick, base, step)
      BY <1>0, <1>1, <3>1, FoldExists
    <3> QED BY <3>2 DEF A, base
  <2>5. \A s \in SUBSET S : g[s] = Body(g, s)
    <3> HIDE DEF Grown, S
    <3> QED BY <2>4 DEF Solves
  <2>6. Equation(g)
    <3> HIDE DEF Body, S
    <3> QED BY <2>5
  <2> QED BY <2>6
<1>4. Equation(iter)
  <2> HIDE DEF Equation
  <2> QED BY <1>3
<1>5. \A s \in SUBSET S : iter[s] = Body(iter, s)
  <2> HIDE DEF iter, Body, S
  <2> QED BY <1>4
<1> HIDE DEF iter
<1> DEFINE Once == \A i, j \in DOMAIN q : q[i] = q[j] => i = j
           Fine(s) == /\ iter[s] \in Seq(X)
                      /\ \A i \in DOMAIN iter[s] : iter[s][i] \in T /\ \E k \in s : iter[s][i] = q[k]
                      /\ Once => \A i, j \in DOMAIN iter[s] : iter[s][i] = iter[s][j] => i = j
           Good == {s \in SUBSET S : Fine(s)}
<1>6. Fine({})
  <2>1. iter[{}] = <<>>
    BY <1>5
  <2> QED BY <2>1
<1>7. ASSUME NEW s \in SUBSET S, s # {}, Fine(s \ {Max(s)}) PROVE Fine(s)
  <2> DEFINE t == s \ {Max(s)}
             old == iter[t]
             e == q[Max(s)]
  <2>1. iter[s] = Grown(old, e) /\ Max(s) \in s /\ t \in SUBSET S
    BY <1>2, <1>5, <1>7
  <2>2. CASE e \notin T
    BY <1>7, <2>1, <2>2
  <2>3. CASE e \in T
    <3>1. iter[s] = Append(old, e)
      BY <2>1, <2>3
    <3>2. old \in Seq(X) /\ e \in X
      <4>1. old \in Seq(X)
        BY <1>7
      <4>2. Max(s) \in DOMAIN q
        BY <1>1, <2>1
      <4> HIDE DEF S, old
      <4> QED BY <4>1, <4>2
    <3>3. iter[s] \in Seq(X) /\ DOMAIN old = 1..Len(old) /\ Len(old) \in Nat
      BY <3>1, <3>2
    <3>4. DOMAIN iter[s] = 1..(Len(old) + 1)
      BY <3>1, <3>2
    <3>5. \A i \in DOMAIN iter[s] : iter[s][i] = IF i = Len(old) + 1 THEN e ELSE old[i]
      BY <3>1, <3>2, <3>4
    <3>6. \A i \in DOMAIN iter[s] : i # Len(old) + 1 => i \in DOMAIN old
      BY <3>3, <3>4
    <3>7. \A i \in DOMAIN iter[s] : iter[s][i] \in T /\ \E k \in s : iter[s][i] = q[k]
      <4> HIDE DEF old, e
      <4> QED BY <1>7, <2>1, <2>3, <3>5, <3>6 DEF old, e
    <3>8. ASSUME Once, NEW i \in DOMAIN old PROVE old[i] # e
      <4>1. PICK k \in t : old[i] = q[k]
        BY <1>7
      <4>2. k \in DOMAIN q /\ Max(s) \in DOMAIN q /\ k # Max(s)
        BY <1>1, <2>1
      <4> QED BY <3>8, <4>1, <4>2
    <3>9. Once => \A i, j \in DOMAIN iter[s] : iter[s][i] = iter[s][j] => i = j
      <4> HIDE DEF Once, e
      <4> QED BY <1>7, <3>5, <3>6, <3>8
    <3> QED BY <3>3, <3>7, <3>9
  <2> QED BY <2>2, <2>3
<1>8. Good = SUBSET S
  <2>1. Good \in SUBSET SUBSET S /\ {} \in Good
    BY <1>6
  <2>2. \A s \in SUBSET S : s # {} /\ s \ {pick[s]} \in Good => s \in Good
    <3> HIDE DEF Fine
    <3> QED BY <1>7
  <2> HIDE DEF Good, S, pick
  <2> QED BY <1>0, <1>1, <2>1, <2>2, PickedInduction
<1>9. Fine(S)
  <2>1. S \in Good
    BY <1>8
  <2> QED BY <2>1
<1>10. Sifted(q, T) = iter[S]
  BY <1>1 DEF Sifted, FoldLeft, MapThenFoldSet, iter
<1> QED BY <1>1, <1>9, <1>10

(* A finite set of numbers has a largest one. *)
LEMMA Largest ==
  ASSUME NEW S, IsFiniteSet(S), S # {}, \A x \in S : x \in Nat
  PROVE  Max(S) \in S
<1> DEFINE pick == [s \in SUBSET S |-> Chosen(s)]
           Good == {s \in SUBSET S : s = {} \/ \E x \in s : \A y \in s : x >= y}
<1>1. \A s \in SUBSET S : s # {} => Chosen(s) \in s
  BY DEF Chosen
<1>2. Picks(pick, S)
  BY <1>1 DEF Picks
<1>3. ASSUME NEW s \in SUBSET S, s # {}, s \ {pick[s]} \in Good PROVE s \in Good
  <2> DEFINE e == pick[s]
  <2>1. e \in s /\ e \in Nat
    BY <1>1, <1>3
  <2> HIDE DEF e
  <2>2. CASE s \ {e} = {}
    BY <2>1, <2>2
  <2>3. CASE s \ {e} # {}
    <3>1. PICK x \in s \ {e} : \A y \in s \ {e} : x >= y
      BY <1>3, <2>3 DEF e
    <3>2. CASE x >= e
      <4>1. \A y \in s : x >= y
        BY <3>1, <3>2
      <4> QED BY <4>1, <3>1
    <3>3. CASE ~(x >= e)
      <4>1. \A y \in s : e >= y
        BY <2>1, <3>1, <3>3
      <4> QED BY <4>1, <2>1
    <3> QED BY <3>2, <3>3
  <2> QED BY <2>2, <2>3
<1>4. Good = SUBSET S
  <2>1. Good \in SUBSET SUBSET S
    OBVIOUS
  <2>2. {} \in Good
    OBVIOUS
  <2> HIDE DEF Good, pick
  <2>3. \A s \in SUBSET S : s # {} /\ s \ {pick[s]} \in Good => s \in Good
    BY <1>3
  <2>4. IsFiniteSet(S)
    OBVIOUS
  <2> QED BY <1>2, <2>1, <2>2, <2>3, <2>4, PickedInduction
<1>5. \E x \in S : \A y \in S : x >= y
  BY <1>4
<1> QED BY <1>5 DEF Max
=============================================================================
