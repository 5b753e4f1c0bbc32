----------------------------- MODULE FiniteFolds ----------------------------
(***************************************************************************)
(* What the models need to know about the sums and folds of FiniteSetsExt  *)
(* and SequencesExt, proved by looking at a smallest set, or a smallest    *)
(* number, that would be an exception: an induction whose hypothesis is a  *)
(* set and not an operator.                                                *)
(***************************************************************************)
EXTENDS Integers, FiniteSets, FiniteSetsExt, FiniteSetTheorems, NaturalsInduction, TLAPS

(* The sum of the values of f on S.                                        *)
SumOf(f, S) == MapThenSumSet(LAMBDA n : f[n], S)

(* The element that MapThenSumSet takes next, and the function that it     *)
(* defines by recursion on the subsets of S.                               *)
First(s) == CHOOSE x \in s : TRUE

IsSum(g, f, S) ==
    g = [s \in SUBSET S |-> IF s = {} THEN 0 ELSE f[First(s)] + g[s \ {First(s)}]]

Summation(f, S) == CHOOSE g : IsSum(g, f, S)

(* A set of subsets of a finite set has a smallest member.                 *)
LEMMA SmallestSet ==
    ASSUME NEW S, IsFiniteSet(S), NEW B, B \subseteq SUBSET S, B # {}
    PROVE  \E T \in B : \A U \in B : U \subseteq T => U = T
<1>1. SUBSET S = FiniteSubsetsOf(S)
  BY FS_Subset DEF FiniteSubsetsOf
<1>2. \E x \in B : \A y \in B : ~(<<y, x>> \in StrictSubsetOrdering(S))
  BY <1>1, FS_StrictSubsetOrderingWellFounded, WFMin
<1> QED
  BY <1>2 DEF StrictSubsetOrdering

(* The sum is what the recursion computes.                                 *)
LEMMA SumIsSummation ==
    ASSUME NEW f, NEW S
    PROVE  SumOf(f, S) = Summation(f, S)[S]
  BY DEF SumOf, MapThenSumSet, MapThenFoldSet, Summation, IsSum, First

(* One step of the recursion.                                              *)
LEMMA SumUnfold ==
    ASSUME NEW f, NEW S, NEW g, IsSum(g, f, S), NEW T \in SUBSET S
    PROVE  /\ T = {} => g[T] = 0
           /\ T # {} => /\ First(T) \in T /\ T \ {First(T)} \in SUBSET S
                        /\ T \ {First(T)} # T
                        /\ g[T] = f[First(T)] + g[T \ {First(T)}]
<1>1. g = [s \in SUBSET S |-> IF s = {} THEN 0 ELSE f[First(s)] + g[s \ {First(s)}]]
  BY DEF IsSum
<1>2. g[T] = IF T = {} THEN 0 ELSE f[First(T)] + g[T \ {First(T)}]
  BY <1>1, Zenon
<1>3. T # {} => First(T) \in T
  BY DEF First
<1> QED
  BY <1>2, <1>3

(* ... and where it ends.                                                  *)
LEMMA SumAtEmpty ==
    ASSUME NEW f, NEW S, NEW g, IsSum(g, f, S)
    PROVE  g[{}] = 0
<1>1. PICK T \in SUBSET S : T = {}
  OBVIOUS
<1>2. g[T] = 0
  BY <1>1, SumUnfold
<1> QED
  BY <1>1, <1>2, Zenon

(* Two such functions agree where both are defined.                        *)
LEMMA SumUnique ==
    ASSUME NEW f, NEW S, IsFiniteSet(S), NEW U \in SUBSET S,
           NEW g, IsSum(g, f, S), NEW h, IsSum(h, f, U)
    PROVE  \A T \in SUBSET U : g[T] = h[T]
<1> DEFINE B == {T \in SUBSET U : g[T] # h[T]}
<1> SUFFICES ASSUME B # {} PROVE FALSE
  OBVIOUS
<1>1. IsFiniteSet(U)
  BY FS_Subset
<1>2. PICK T \in B : \A V \in B : V \subseteq T => V = T
  <2>1. B \subseteq SUBSET U
    OBVIOUS
  <2> HIDE DEF B
  <2> QED
    BY <1>1, <2>1, SmallestSet
<1>3. T \in SUBSET U /\ T \in SUBSET S /\ g[T] # h[T]
  OBVIOUS
<1>4. T # {}
  <2>1. g[{}] = 0 /\ h[{}] = 0
    BY SumAtEmpty
  <2> HIDE DEF B
  <2> QED
    BY <1>3, <2>1
<1>5. T \ {First(T)} \notin B /\ T \ {First(T)} \in SUBSET U
  BY <1>2, <1>3, <1>4, SumUnfold
<1>6. g[T \ {First(T)}] = h[T \ {First(T)}]
  BY <1>5
<1> QED
  BY <1>3, <1>4, <1>6, SumUnfold

(* On a finite set the recursion defines a function.                       *)
LEMMA SumExists ==
    ASSUME NEW f, NEW S, IsFiniteSet(S)
    PROVE  IsSum(Summation(f, S), f, S)
<1> DEFINE B == {T \in SUBSET S : ~IsSum(Summation(f, T), f, T)}
<1> SUFFICES ASSUME B # {} PROVE FALSE
  OBVIOUS
<1>1. PICK T \in B : \A V \in B : V \subseteq T => V = T
  <2>1. B \subseteq SUBSET S
    OBVIOUS
  <2> HIDE DEF B
  <2> QED
    BY <2>1, SmallestSet
<1>2. T \in SUBSET S /\ IsFiniteSet(T)
  BY FS_Subset
<1>3. \A U \in SUBSET T : U # T => IsSum(Summation(f, U), f, U) /\ IsFiniteSet(U)
  BY <1>1, <1>2, FS_Subset
<1> DEFINE W(u) == Summation(f, u)[u]
           h == [s \in SUBSET T |-> IF s = {} THEN 0 ELSE f[First(s)] + W(s \ {First(s)})]
<1>4. ASSUME NEW u \in SUBSET T, u # T
      PROVE  h[u] = W(u)
  <2>1. IsSum(Summation(f, u), f, u) /\ IsFiniteSet(u) /\ u \in SUBSET u
    BY <1>3, <1>4
  <2>2. CASE u = {}
    BY <2>1, <2>2, SumUnfold
  <2>3. CASE u # {}
    <3> DEFINE v == u \ {First(u)}
    <3>1. /\ v \in SUBSET u /\ v # u /\ v \in SUBSET T /\ v # T /\ v \in SUBSET v
          /\ W(u) = f[First(u)] + Summation(f, u)[v]
      BY <2>1, <2>3, SumUnfold
    <3>2. IsSum(Summation(f, v), f, v)
      BY <1>3, <3>1
    <3>3. Summation(f, u)[v] = W(v)
      BY <2>1, <3>1, <3>2, SumUnique
    <3>4. h[u] = f[First(u)] + W(v)
      BY <2>3
    <3> QED
      BY <3>1, <3>3, <3>4
  <2> QED
    BY <2>2, <2>3
<1>5. ASSUME NEW s \in SUBSET T
      PROVE  (IF s = {} THEN 0 ELSE f[First(s)] + W(s \ {First(s)})) =
             (IF s = {} THEN 0 ELSE f[First(s)] + h[s \ {First(s)}])
  <2>1. CASE s = {}
    BY <2>1
  <2>2. CASE s # {}
    <3>1. First(s) \in s
      BY <2>2 DEF First
    <3>2. s \ {First(s)} \in SUBSET T /\ s \ {First(s)} # T
      BY <3>1
    <3>3. h[s \ {First(s)}] = W(s \ {First(s)})
      BY <1>4, <3>2
    <3> QED
      BY <2>2, <3>3
  <2> QED
    BY <2>1, <2>2
<1>6. h = [s \in SUBSET T |-> IF s = {} THEN 0 ELSE f[First(s)] + h[s \ {First(s)}]]
  BY <1>5, Zenon
<1>7. \E g : IsSum(g, f, T)
  <2> HIDE DEF h
  <2> QED
    BY <1>6 DEF IsSum
<1>8. IsSum(Summation(f, T), f, T)
  BY <1>7 DEF Summation
<1> QED
  BY <1>8

(* The sum over the empty set.                                             *)
LEMMA SumEmpty ==
    ASSUME NEW f
    PROVE  SumOf(f, {}) = 0
<1>1. IsSum(Summation(f, {}), f, {})
  BY SumExists, FS_EmptySet
<1>2. Summation(f, {})[{}] = 0
  BY <1>1, SumAtEmpty, Zenon
<1> QED
  BY <1>2, SumIsSummation, Zenon

(* The sum, split at the element that is taken first.                      *)
LEMMA SumFirst ==
    ASSUME NEW f, NEW S, IsFiniteSet(S), S # {}
    PROVE  /\ First(S) \in S
           /\ SumOf(f, S) = f[First(S)] + SumOf(f, S \ {First(S)})
<1> DEFINE R == S \ {First(S)}
<1>1. IsSum(Summation(f, S), f, S) /\ S \in SUBSET S
  BY SumExists
<1>2. /\ First(S) \in S /\ R \in SUBSET S
      /\ Summation(f, S)[S] = f[First(S)] + Summation(f, S)[R]
  BY <1>1, SumUnfold
<1>3. IsFiniteSet(R)
  BY <1>2, FS_Subset
<1>4. IsSum(Summation(f, R), f, R) /\ R \in SUBSET R
  BY <1>3, SumExists
<1>5. Summation(f, S)[R] = Summation(f, R)[R]
  <2> HIDE DEF R
  <2> QED
    BY <1>1, <1>2, <1>4, SumUnique
<1>6. SumOf(f, S) = Summation(f, S)[S] /\ SumOf(f, R) = Summation(f, R)[R]
  BY SumIsSummation
<1> QED
  BY <1>2, <1>5, <1>6

(* A sum of natural numbers is a natural number.                           *)
LEMMA SumNat ==
    ASSUME NEW f, NEW S, IsFiniteSet(S), \A x \in S : f[x] \in Nat
    PROVE  SumOf(f, S) \in Nat
<1> DEFINE B == {T \in SUBSET S : SumOf(f, T) \notin Nat}
<1> SUFFICES ASSUME B # {} PROVE FALSE
  OBVIOUS
<1>1. PICK T \in B : \A V \in B : V \subseteq T => V = T
  <2>1. B \subseteq SUBSET S
    OBVIOUS
  <2> HIDE DEF B
  <2> QED
    BY <2>1, SmallestSet
<1>2. T \in SUBSET S /\ IsFiniteSet(T) /\ SumOf(f, T) \notin Nat
  BY FS_Subset
<1>3. T # {}
  BY <1>2, SumEmpty
<1>4. First(T) \in T /\ SumOf(f, T) = f[First(T)] + SumOf(f, T \ {First(T)})
  BY <1>2, <1>3, SumFirst
<1>5. SumOf(f, T \ {First(T)}) \in Nat
  BY <1>1, <1>2, <1>4
<1>6. f[First(T)] \in Nat
  BY <1>2, <1>4
<1> QED
  BY <1>2, <1>4, <1>5, <1>6

(* Any element may be taken first.                                         *)
LEMMA SumRemove ==
    ASSUME NEW f, NEW S, IsFiniteSet(S), \A x \in S : f[x] \in Nat, NEW a \in S
    PROVE  SumOf(f, S) = f[a] + SumOf(f, S \ {a})
<1> DEFINE B == {T \in SUBSET S : \E x \in T : SumOf(f, T) # f[x] + SumOf(f, T \ {x})}
<1> SUFFICES ASSUME B # {} PROVE FALSE
  <2>1. S \in SUBSET S /\ S \notin B
    OBVIOUS
  <2> QED
    BY <2>1
<1>1. PICK T \in B : \A V \in B : V \subseteq T => V = T
  <2>1. B \subseteq SUBSET S
    OBVIOUS
  <2> HIDE DEF B
  <2> QED
    BY <2>1, SmallestSet
<1>2. T \in SUBSET S /\ IsFiniteSet(T)
  BY FS_Subset
<1>3. PICK x \in T : SumOf(f, T) # f[x] + SumOf(f, T \ {x})
  OBVIOUS
<1> DEFINE c == First(T)
<1>4. c \in T /\ SumOf(f, T) = f[c] + SumOf(f, T \ {c})
  BY <1>2, <1>3, SumFirst
<1> HIDE DEF c
<1>5. x # c /\ x \in T \ {c} /\ c \in T \ {x}
  BY <1>3, <1>4
<1>6. /\ SumOf(f, T \ {c}) = f[x] + SumOf(f, (T \ {c}) \ {x})
      /\ SumOf(f, T \ {x}) = f[c] + SumOf(f, (T \ {x}) \ {c})
  <2>1. /\ T \ {c} \in SUBSET S /\ T \ {c} \subseteq T /\ T \ {c} # T
        /\ T \ {x} \in SUBSET S /\ T \ {x} \subseteq T /\ T \ {x} # T
    BY <1>2, <1>3, <1>4
  <2>2. T \ {c} \notin B /\ T \ {x} \notin B
    BY <1>1, <2>1, Zenon
  <2> QED
    BY <1>5, <2>1, <2>2
<1>7. (T \ {c}) \ {x} = (T \ {x}) \ {c}
  OBVIOUS
<1>8. f[x] \in Nat /\ f[c] \in Nat
  BY <1>2, <1>3, <1>4
<1>9. SumOf(f, (T \ {x}) \ {c}) \in Nat
  <2>1. (T \ {x}) \ {c} \in SUBSET S /\ IsFiniteSet((T \ {x}) \ {c})
    BY <1>2, FS_Subset
  <2> QED
    BY <2>1, SumNat
<1> DEFINE rest == SumOf(f, (T \ {x}) \ {c})
<1>10. SumOf(f, T \ {c}) = f[x] + rest /\ SumOf(f, T \ {x}) = f[c] + rest /\ rest \in Nat
  BY <1>6, <1>7, <1>9, Zenon
<1> HIDE DEF B, rest
<1> QED
  BY <1>3, <1>4, <1>8, <1>10

(* A sum depends on the values on its set only.                            *)
LEMMA SumSame ==
    ASSUME NEW f, NEW g, NEW S, IsFiniteSet(S), \A x \in S : f[x] = g[x]
    PROVE  SumOf(f, S) = SumOf(g, S)
<1> DEFINE B == {T \in SUBSET S : SumOf(f, T) # SumOf(g, T)}
<1> SUFFICES ASSUME B # {} PROVE FALSE
  OBVIOUS
<1>1. PICK T \in B : \A V \in B : V \subseteq T => V = T
  <2>1. B \subseteq SUBSET S
    OBVIOUS
  <2> HIDE DEF B
  <2> QED
    BY <2>1, SmallestSet
<1>2. T \in SUBSET S /\ IsFiniteSet(T) /\ SumOf(f, T) # SumOf(g, T)
  BY FS_Subset
<1>3. T # {}
  BY <1>2, SumEmpty
<1>4. /\ First(T) \in T
      /\ SumOf(f, T) = f[First(T)] + SumOf(f, T \ {First(T)})
      /\ SumOf(g, T) = g[First(T)] + SumOf(g, T \ {First(T)})
  BY <1>2, <1>3, SumFirst
<1>5. SumOf(f, T \ {First(T)}) = SumOf(g, T \ {First(T)})
  BY <1>1, <1>2, <1>4
<1>6. f[First(T)] = g[First(T)]
  BY <1>2, <1>4
<1> HIDE DEF B
<1> QED
  BY <1>2, <1>4, <1>5, <1>6

(* The sum over a part is at most the sum over the whole.                  *)
LEMMA SumMonotone ==
    ASSUME NEW f, NEW S, IsFiniteSet(S), \A x \in S : f[x] \in Nat, NEW U \in SUBSET S
    PROVE  SumOf(f, U) =< SumOf(f, S)
<1> DEFINE B == {T \in SUBSET S : U \subseteq T /\ ~(SumOf(f, U) =< SumOf(f, T))}
<1> SUFFICES ASSUME B # {} PROVE FALSE
  OBVIOUS
<1>1. PICK T \in B : \A V \in B : V \subseteq T => V = T
  <2>1. B \subseteq SUBSET S
    OBVIOUS
  <2> HIDE DEF B
  <2> QED
    BY <2>1, SmallestSet
<1>2. T \in SUBSET S /\ U \subseteq T /\ IsFiniteSet(T) /\ ~(SumOf(f, U) =< SumOf(f, T))
  BY FS_Subset
<1>3. IsFiniteSet(U) /\ SumOf(f, U) \in Nat
  <2>1. IsFiniteSet(U)
    BY FS_Subset
  <2> QED
    BY <2>1, SumNat
<1>4. PICK x \in T : x \notin U
  BY <1>2, <1>3
<1>5. SumOf(f, T) = f[x] + SumOf(f, T \ {x})
  BY <1>2, SumRemove
<1>6. T \ {x} \notin B /\ T \ {x} \in SUBSET S /\ U \subseteq T \ {x}
  BY <1>1, <1>2, <1>4
<1>7. SumOf(f, U) =< SumOf(f, T \ {x})
  BY <1>6
<1>8. IsFiniteSet(T \ {x}) /\ f[x] \in Nat
  BY <1>2, <1>6, FS_Subset
<1>9. SumOf(f, T \ {x}) \in Nat
  BY <1>6, <1>8, SumNat
<1> HIDE DEF B
<1> QED
  BY <1>2, <1>3, <1>5, <1>7, <1>8, <1>9


(* Smaller values have a smaller sum.                                      *)
LEMMA SumPointwise ==
    ASSUME NEW f, NEW g, NEW S, IsFiniteSet(S),
           \A x \in S : f[x] \in Nat /\ g[x] \in Nat /\ f[x] =< g[x]
    PROVE  SumOf(f, S) =< SumOf(g, S)
<1> DEFINE B == {T \in SUBSET S : ~(SumOf(f, T) =< SumOf(g, T))}
<1> SUFFICES ASSUME B # {} PROVE FALSE
  OBVIOUS
<1>1. PICK T \in B : \A V \in B : V \subseteq T => V = T
  <2>1. B \subseteq SUBSET S
    OBVIOUS
  <2> HIDE DEF B
  <2> QED
    BY <2>1, SmallestSet
<1>2. T \in SUBSET S /\ IsFiniteSet(T) /\ ~(SumOf(f, T) =< SumOf(g, T))
  BY FS_Subset
<1>3. T # {}
  BY <1>2, SumEmpty
<1> DEFINE c == First(T)
           R == T \ {c}
<1>4. /\ c \in T
      /\ SumOf(f, T) = f[c] + SumOf(f, R)
      /\ SumOf(g, T) = g[c] + SumOf(g, R)
  BY <1>2, <1>3, SumFirst
<1>5. SumOf(f, R) =< SumOf(g, R) /\ R \in SUBSET S
  BY <1>1, <1>2, <1>4
<1>6. f[c] \in Nat /\ g[c] \in Nat /\ f[c] =< g[c]
  BY <1>2, <1>4
<1>7. IsFiniteSet(R)
  BY <1>5, FS_Subset
<1>8. SumOf(f, R) \in Nat /\ SumOf(g, R) \in Nat
  <2> HIDE DEF R
  <2> QED
    BY <1>5, <1>7, SumNat
<1> HIDE DEF B, c, R
<1> QED
  BY <1>2, <1>4, <1>5, <1>6, <1>8

(* ... strictly so when one value is strictly smaller.                     *)
LEMMA SumStrict ==
    ASSUME NEW f, NEW g, NEW S, IsFiniteSet(S),
           \A x \in S : f[x] \in Nat /\ g[x] \in Nat /\ f[x] =< g[x],
           NEW a \in S, f[a] < g[a]
    PROVE  SumOf(f, S) < SumOf(g, S)
<1> DEFINE R == S \ {a}
<1>1. IsFiniteSet(R) /\ R \in SUBSET S
  BY FS_Subset
<1>2. SumOf(f, S) = f[a] + SumOf(f, R) /\ SumOf(g, S) = g[a] + SumOf(g, R)
  BY SumRemove
<1> HIDE DEF R
<1>3. SumOf(f, R) =< SumOf(g, R)
  BY <1>1, SumPointwise
<1>4. SumOf(f, R) \in Nat /\ SumOf(g, R) \in Nat
  BY <1>1, SumNat
<1> QED
  BY <1>2, <1>3, <1>4

(* The sum of nothing but zeros.                                           *)
LEMMA SumZero ==
    ASSUME NEW f, NEW S, IsFiniteSet(S), \A x \in S : f[x] = 0
    PROVE  SumOf(f, S) = 0
<1> DEFINE B == {T \in SUBSET S : SumOf(f, T) # 0}
<1> SUFFICES ASSUME B # {} PROVE FALSE
  OBVIOUS
<1>1. PICK T \in B : \A V \in B : V \subseteq T => V = T
  <2>1. B \subseteq SUBSET S
    OBVIOUS
  <2> HIDE DEF B
  <2> QED
    BY <2>1, SmallestSet
<1>2. T \in SUBSET S /\ IsFiniteSet(T) /\ SumOf(f, T) # 0
  BY FS_Subset
<1>3. T # {}
  BY <1>2, SumEmpty, Zenon
<1>4. First(T) \in T /\ SumOf(f, T) = f[First(T)] + SumOf(f, T \ {First(T)})
  BY <1>2, <1>3, SumFirst
<1>5. SumOf(f, T \ {First(T)}) = 0 /\ f[First(T)] = 0
  BY <1>1, <1>2, <1>4
<1> QED
  BY <1>2, <1>4, <1>5

(* One value grows by one: so does the sum over a set with its element.    *)
LEMMA SumBump ==
    ASSUME NEW f, NEW g, NEW S, IsFiniteSet(S), \A x \in S : f[x] \in Nat,
           NEW a, \A x \in S : g[x] = IF x = a THEN f[x] + 1 ELSE f[x]
    PROVE  SumOf(g, S) = IF a \in S THEN SumOf(f, S) + 1 ELSE SumOf(f, S)
<1>1. CASE a \notin S
  BY <1>1, SumSame
<1>2. CASE a \in S
  <2> DEFINE R == S \ {a}
  <2>1. IsFiniteSet(R) /\ R \in SUBSET S
    BY FS_Subset
  <2>2. SumOf(f, S) = f[a] + SumOf(f, R)
    BY <1>2, SumRemove
  <2>3. SumOf(g, S) = g[a] + SumOf(g, R)
    <3>1. \A x \in S : g[x] \in Nat
      OBVIOUS
    <3> QED
      BY <1>2, <3>1, SumRemove
  <2>4. \A x \in R : f[x] = g[x] /\ f[x] \in Nat
    OBVIOUS
  <2> HIDE DEF R
  <2>5. SumOf(f, R) = SumOf(g, R) /\ SumOf(f, R) \in Nat
    BY <2>1, <2>4, SumSame, SumNat
  <2> QED
    BY <1>2, <2>2, <2>3, <2>5
<1> QED
  BY <1>1, <1>2

-----------------------------------------------------------------------------
(* Folds over a finite set whose step is a function, st[<<x, y>>] for the  *)
(* element x and the result y for the others, and whose next element is    *)
(* pick[s].                                                                *)
FoldOn(g, st, b, pick, S) ==
    \A s \in SUBSET S :
        g[s] = IF s = {} THEN b ELSE st[<<pick[s], g[s \ {pick[s]}]>>]

(* Two folds agree where both are defined.                                 *)
LEMMA FoldUnique ==
    ASSUME NEW S, IsFiniteSet(S), NEW b, NEW st, NEW pick,
           \A s \in SUBSET S : s # {} => pick[s] \in s,
           NEW g, NEW h, FoldOn(g, st, b, pick, S), FoldOn(h, st, b, pick, S)
    PROVE  \A T \in SUBSET S : g[T] = h[T]
<1> DEFINE B == {T \in SUBSET S : g[T] # h[T]}
<1> SUFFICES ASSUME B # {} PROVE FALSE
  OBVIOUS
<1>1. PICK T \in B : \A V \in B : V \subseteq T => V = T
  <2>1. B \subseteq SUBSET S
    OBVIOUS
  <2> HIDE DEF B
  <2> QED
    BY <2>1, SmallestSet
<1>2. T \in SUBSET S /\ g[T] # h[T]
  OBVIOUS
<1>3. /\ g[T] = IF T = {} THEN b ELSE st[<<pick[T], g[T \ {pick[T]}]>>]
      /\ h[T] = IF T = {} THEN b ELSE st[<<pick[T], h[T \ {pick[T]}]>>]
  BY <1>2, Zenon DEF FoldOn
<1>4. T # {} /\ pick[T] \in T
  BY <1>2, <1>3
<1>5. T \ {pick[T]} \notin B /\ T \ {pick[T]} \in SUBSET S
  BY <1>1, <1>2, <1>4
<1>6. g[T \ {pick[T]}] = h[T \ {pick[T]}]
  BY <1>5
<1> HIDE DEF B
<1> QED
  BY <1>2, <1>3, <1>4, <1>6

(* A step that stays in A folds to a function into A.                      *)
LEMMA FoldExists ==
    ASSUME NEW S, IsFiniteSet(S), NEW A, NEW b \in A, NEW st \in [S \X A -> A],
           NEW pick, \A s \in SUBSET S : s # {} => pick[s] \in s
    PROVE  \E g \in [SUBSET S -> A] : FoldOn(g, st, b, pick, S)
<1> DEFINE Candidates(T) == {g \in [SUBSET T -> A] : FoldOn(g, st, b, pick, T)}
           B == {T \in SUBSET S : Candidates(T) = {}}
<1> SUFFICES ASSUME B # {} PROVE FALSE
  <2>1. S \in SUBSET S /\ S \notin B
    OBVIOUS
  <2> QED
    BY <2>1
<1>1. PICK T \in B : \A V \in B : V \subseteq T => V = T
  <2>1. B \subseteq SUBSET S
    OBVIOUS
  <2> HIDE DEF B
  <2> QED
    BY <2>1, SmallestSet
<1>2. T \in SUBSET S /\ IsFiniteSet(T) /\ Candidates(T) = {}
  BY FS_Subset
<1> DEFINE G(u) == CHOOSE g : g \in Candidates(u)
           W(u) == G(u)[u]
           h == [s \in SUBSET T |->
                   IF s = {} THEN b ELSE st[<<pick[s], W(s \ {pick[s]})>>]]
<1>3. ASSUME NEW u \in SUBSET T, u # T
      PROVE  /\ G(u) \in [SUBSET u -> A] /\ FoldOn(G(u), st, b, pick, u)
             /\ W(u) \in A
  <2>1. u \notin B /\ u \in SUBSET S
    BY <1>1, <1>2, <1>3
  <2>2. Candidates(u) # {}
    BY <2>1
  <2>3. G(u) \in Candidates(u)
    <3> HIDE DEF Candidates
    <3> QED
      BY <2>2
  <2>4. u \in SUBSET u
    OBVIOUS
  <2> HIDE DEF G
  <2> QED
    BY <2>3, <2>4
<1>4. ASSUME NEW s \in SUBSET T, s # {}
      PROVE  /\ pick[s] \in s /\ pick[s] \in S
             /\ s \ {pick[s]} \in SUBSET T /\ s \ {pick[s]} # T
  BY <1>2, <1>4
<1> HIDE DEF G
<1>5. h \in [SUBSET T -> A]
  <2>1. ASSUME NEW s \in SUBSET T
        PROVE  (IF s = {} THEN b ELSE st[<<pick[s], W(s \ {pick[s]})>>]) \in A
    <3>1. CASE s = {}
      BY <3>1
    <3>2. CASE s # {}
      <4>1. pick[s] \in S /\ W(s \ {pick[s]}) \in A
        BY <1>3, <1>4, <3>2
      <4> HIDE DEF W
      <4> QED
        BY <3>2, <4>1
    <3> QED
      BY <3>1, <3>2
  <2> QED
    BY <2>1
<1>6. ASSUME NEW u \in SUBSET T, u # T
      PROVE  h[u] = W(u)
  <2>1. FoldOn(G(u), st, b, pick, u) /\ u \in SUBSET u
    BY <1>3, <1>6
  <2>2. W(u) = IF u = {} THEN b ELSE st[<<pick[u], G(u)[u \ {pick[u]}]>>]
    BY <2>1, Zenon DEF FoldOn
  <2>3. CASE u = {}
    BY <2>2, <2>3
  <2>4. CASE u # {}
    <3> DEFINE v == u \ {pick[u]}
    <3>1. v \in SUBSET u /\ v \in SUBSET T /\ v # T /\ v \in SUBSET v
      BY <1>4, <2>4
    <3>2. FoldOn(G(v), st, b, pick, v)
      BY <1>3, <3>1
    <3>3. FoldOn(G(u), st, b, pick, v)
      BY <2>1, <3>1 DEF FoldOn
    <3>4. IsFiniteSet(v) /\ \A s \in SUBSET v : s # {} => pick[s] \in s
      BY <1>2, <3>1, FS_Subset
    <3>5. G(u)[v] = G(v)[v]
      <4> HIDE DEF v
      <4> QED
        BY <3>1, <3>2, <3>3, <3>4, FoldUnique
    <3>6. h[u] = st[<<pick[u], W(v)>>]
      BY <2>4
    <3> QED
      BY <2>2, <2>4, <3>5, <3>6
  <2> QED
    BY <2>3, <2>4
<1>7. ASSUME NEW s \in SUBSET T
      PROVE  h[s] = IF s = {} THEN b ELSE st[<<pick[s], h[s \ {pick[s]}]>>]
  <2>1. h[s] = IF s = {} THEN b ELSE st[<<pick[s], W(s \ {pick[s]})>>]
    OBVIOUS
  <2>2. CASE s = {}
    BY <2>1, <2>2
  <2>3. CASE s # {}
    <3>1. h[s \ {pick[s]}] = W(s \ {pick[s]})
      BY <1>4, <1>6, <2>3
    <3> HIDE DEF h, W
    <3> QED
      BY <2>1, <2>3, <3>1
  <2> HIDE DEF h
  <2> QED
    BY <2>2, <2>3
<1> HIDE DEF h
<1>8. h \in Candidates(T)
  BY <1>5, <1>7 DEF FoldOn
<1> QED
  BY <1>2, <1>8

-----------------------------------------------------------------------------
(* A set of natural numbers has a smallest member.                         *)
LEMMA SmallestNumber ==
    ASSUME NEW B, B \subseteq Nat, B # {}
    PROVE  \E k \in B : \A m \in B : k =< m
<1>1. \E k \in B : \A m \in B : ~(<<m, k>> \in OpToRel(<, Nat))
  BY NatLessThanWellFounded, WFMin
<1> QED
  <2>1. PICK k \in B : \A m \in B : ~(<<m, k>> \in OpToRel(<, Nat))
    BY <1>1
  <2>2. \A m \in B : ~(m < k)
    BY <2>1 DEF OpToRel
  <2> QED
    BY <2>2

(* A finite set of integers has a largest member.                          *)
LEMMA LargestExists ==
    ASSUME NEW S, IsFiniteSet(S)
    PROVE  S \in SUBSET Int /\ S # {} => \E x \in S : \A y \in S : x >= y
<1> DEFINE B == {T \in SUBSET S : T # {} /\ \A x \in T : \E y \in T : ~(x >= y)}
<1>0. ASSUME B # {}
      PROVE  \E T \in B : \A V \in B : V \subseteq T => V = T
  <2>1. B \subseteq SUBSET S
    OBVIOUS
  <2> HIDE DEF B
  <2> QED
    BY <1>0, <2>1, SmallestSet
<1> SUFFICES ASSUME S \in SUBSET Int, B # {} PROVE FALSE
  OBVIOUS
<1>1. PICK T \in B : \A V \in B : V \subseteq T => V = T
  <2> HIDE DEF B
  <2> QED
    BY <1>0
<1>2. T \in SUBSET S /\ T # {} /\ \A x \in T : \E y \in T : ~(x >= y)
  OBVIOUS
<1>3. PICK x \in T : TRUE
  BY <1>2
<1>4. T \ {x} \notin B /\ T \ {x} \in SUBSET S
  BY <1>1, <1>2, <1>3
<1>5. CASE T \ {x} = {}
  <2>1. x \in Int /\ \A y \in T : y = x
    BY <1>2, <1>3, <1>5
  <2> HIDE DEF B
  <2> QED
    BY <1>2, <2>1
<1>6. CASE T \ {x} # {}
  <2>1. PICK m \in T \ {x} : \A y \in T \ {x} : m >= y
    BY <1>4, <1>6
  <2>2. m \in Int /\ x \in Int /\ T \subseteq Int
    BY <1>2, <1>3, <2>1
  <2>3. CASE m >= x
    <3>1. \A y \in T : m >= y
      BY <2>1, <2>3
    <3> HIDE DEF B
    <3> QED
      BY <1>2, <2>1, <3>1
  <2>4. CASE ~(m >= x)
    <3>1. \A y \in T : x >= y
      BY <2>1, <2>2, <2>4
    <3> HIDE DEF B
    <3> QED
      BY <1>2, <1>3, <3>1
  <2> QED
    BY <2>3, <2>4
<1> QED
  BY <1>5, <1>6

(* Max finds it.                                                           *)
LEMMA LargestMember ==
    ASSUME NEW S, IsFiniteSet(S), S \in SUBSET Int, S # {}
    PROVE  Max(S) \in S /\ \A y \in S : y =< Max(S)
<1>1. \E x \in S : \A y \in S : x >= y
  BY LargestExists
<1>2. Max(S) \in S /\ \A y \in S : Max(S) >= y
  BY <1>1 DEF Max
<1> QED
  BY <1>2

(* The largest member of an interval, and the interval without it.         *)
LEMMA IntervalMax ==
    ASSUME NEW k \in Nat \ {0}
    PROVE  Max(1..k) = k /\ (1..k) \ {k} = 1..(k - 1)
<1>1. IsFiniteSet(1..k)
  <2>1. 1 \in Int /\ k \in Int
    OBVIOUS
  <2> QED
    BY <2>1, FS_Interval, Zenon
<1>2. 1..k \subseteq Int /\ k \in 1..k
  OBVIOUS
<1>3. Max(1..k) \in 1..k /\ \A y \in 1..k : y =< Max(1..k)
  BY <1>1, <1>2, LargestMember
<1>4. Max(1..k) = k
  BY <1>2, <1>3
<1> QED
  BY <1>4

(* The function that FoldLeft defines on the positions of a sequence.      *)
Iterates(g, st, b, n) ==
    \A s \in SUBSET (1..n) :
        g[s] = IF s = {} THEN b ELSE st[<<Max(s), g[s \ {Max(s)}]>>]

(* It exists if the step stays in A.                                       *)
LEMMA FoldSteps ==
    ASSUME NEW n \in Nat, NEW A, NEW b \in A, NEW st \in [(1..n) \X A -> A]
    PROVE  \E g \in [SUBSET (1..n) -> A] : Iterates(g, st, b, n)
<1> DEFINE D == 1..n
           pick == [s \in SUBSET D |-> Max(s)]
<1>1. IsFiniteSet(D) /\ D \subseteq Int
  <2>1. 1 \in Int /\ n \in Int /\ D \subseteq Int
    OBVIOUS
  <2>2. IsFiniteSet(D)
    BY <2>1, FS_Interval, Zenon
  <2> QED
    BY <2>1, <2>2
<1>2. \A s \in SUBSET D : s # {} => Max(s) \in s
  <2> TAKE s \in SUBSET D
  <2>1. IsFiniteSet(s) /\ s \subseteq Int
    BY <1>1, FS_Subset
  <2> QED
    BY <2>1, LargestMember
<1> HIDE DEF D
<1>3. \A s \in SUBSET D : pick[s] = Max(s)
  OBVIOUS
<1>4. \A s \in SUBSET D : s # {} => pick[s] \in s
  BY <1>2, <1>3
<1>5. st \in [D \X A -> A]
  BY DEF D
<1>6. PICK g \in [SUBSET D -> A] : FoldOn(g, st, b, pick, D)
  <2> HIDE DEF pick
  <2> QED
    BY <1>1, <1>4, <1>5, FoldExists
<1>7. \A s \in SUBSET D :
        g[s] = IF s = {} THEN b ELSE st[<<Max(s), g[s \ {Max(s)}]>>]
  <2> TAKE s \in SUBSET D
  <2>1. g[s] = IF s = {} THEN b ELSE st[<<pick[s], g[s \ {pick[s]}]>>]
    BY <1>6, Zenon DEF FoldOn
  <2>2. pick[s] = Max(s)
    BY <1>3
  <2> HIDE DEF pick
  <2> QED
    BY <2>1, <2>2
<1> QED
  BY <1>7 DEF D, Iterates


(* The function that FoldLeft defines when it adds up the numbers v.       *)
IsTotal(g, v, S) ==
    g = [s \in SUBSET S |-> IF s = {} THEN 0 ELSE g[s \ {Max(s)}] + v[Max(s)]]

(* Adding up from the last position is the sum.                            *)
LEMMA TotalIsSum ==
    ASSUME NEW n \in Nat, NEW v, \A x \in 1..n : v[x] \in Nat
    PROVE  /\ \E g : IsTotal(g, v, 1..n)
           /\ \A g : IsTotal(g, v, 1..n) => g[1..n] = SumOf(v, 1..n)
<1> DEFINE S == 1..n
<1>1. IsFiniteSet(S) /\ \A x \in S : v[x] \in Nat
  <2>1. 1 \in Int /\ n \in Int
    OBVIOUS
  <2>2. IsFiniteSet(S)
    BY <2>1, FS_Interval, Zenon
  <2> QED
    BY <2>2
<1>2. \A s \in SUBSET S : s # {} => Max(s) \in s
  <2> TAKE s \in SUBSET S
  <2>1. s \in SUBSET Int
    OBVIOUS
  <2> HIDE DEF S
  <2>2. IsFiniteSet(s)
    BY <1>1, FS_Subset
  <2> QED
    BY <2>1, <2>2, LargestMember
<1> HIDE DEF S
<1>3. ASSUME NEW s \in SUBSET S, s # {}
      PROVE  /\ SumOf(v, s) = SumOf(v, s \ {Max(s)}) + v[Max(s)]
             /\ s \ {Max(s)} \in SUBSET S /\ s \ {Max(s)} # s
  <2>1. IsFiniteSet(s) /\ Max(s) \in s /\ s \ {Max(s)} \in SUBSET S
    BY <1>1, <1>2, <1>3, FS_Subset
  <2>2. SumOf(v, s) = v[Max(s)] + SumOf(v, s \ {Max(s)})
    BY <1>1, <2>1, SumRemove
  <2>3. IsFiniteSet(s \ {Max(s)})
    BY <1>1, <2>1, FS_Subset
  <2>4. v[Max(s)] \in Nat /\ SumOf(v, s \ {Max(s)}) \in Nat
    BY <1>1, <2>1, <2>3, SumNat
  <2> QED
    BY <2>1, <2>2, <2>4
<1>4. \E g : IsTotal(g, v, S)
  <2> DEFINE h == [s \in SUBSET S |-> SumOf(v, s)]
  <2>1. ASSUME NEW s \in SUBSET S
        PROVE  SumOf(v, s) = IF s = {} THEN 0 ELSE h[s \ {Max(s)}] + v[Max(s)]
    <3>1. CASE s = {}
      BY <3>1, SumEmpty
    <3>2. CASE s # {}
      <4>1. h[s \ {Max(s)}] = SumOf(v, s \ {Max(s)})
        BY <1>3, <3>2
      <4> HIDE DEF h
      <4> QED
        BY <1>3, <3>2, <4>1
    <3> QED
      BY <3>1, <3>2
  <2>2. h = [s \in SUBSET S |-> IF s = {} THEN 0 ELSE h[s \ {Max(s)}] + v[Max(s)]]
    BY <2>1, Zenon
  <2> HIDE DEF h
  <2> QED
    BY <2>2 DEF IsTotal
<1>5. ASSUME NEW g, IsTotal(g, v, S)
      PROVE  g[S] = SumOf(v, S)
  <2> DEFINE B == {T \in SUBSET S : g[T] # SumOf(v, T)}
  <2> SUFFICES ASSUME B # {} PROVE FALSE
    <3>1. S \in SUBSET S /\ S \notin B
      OBVIOUS
    <3> QED
      BY <3>1
  <2>1. PICK T \in B : \A V \in B : V \subseteq T => V = T
    <3>1. B \subseteq SUBSET S
      OBVIOUS
    <3> HIDE DEF B
    <3> QED
      BY <1>1, <3>1, SmallestSet
  <2>2. T \in SUBSET S /\ g[T] # SumOf(v, T)
    OBVIOUS
  <2>3. g[T] = IF T = {} THEN 0 ELSE g[T \ {Max(T)}] + v[Max(T)]
    BY <1>5, <2>2, Zenon DEF IsTotal
  <2>4. T # {}
    BY <2>2, <2>3, SumEmpty
  <2>5. T \ {Max(T)} \notin B /\ T \ {Max(T)} \in SUBSET S
    BY <1>3, <2>1, <2>2, <2>4
  <2>6. g[T \ {Max(T)}] = SumOf(v, T \ {Max(T)})
    BY <2>5
  <2> HIDE DEF B
  <2> QED
    BY <1>3, <2>2, <2>3, <2>4, <2>6
<1> QED
  BY <1>4, <1>5 DEF S

-----------------------------------------------------------------------------
(* A power of two is the number of the subsets of an interval.             *)
LEMMA PowerCounts ==
    ASSUME NEW n \in Nat
    PROVE  /\ IsFiniteSet(SUBSET (1..n))
           /\ Cardinality(SUBSET (1..n)) = 2 ^ n
           /\ 2 ^ n \in Nat
<1> DEFINE S == 1..n
<1>1. IsFiniteSet(S) /\ Cardinality(S) = n
  BY FS_Interval
<1> HIDE DEF S
<1>2. IsFiniteSet(SUBSET S) /\ Cardinality(SUBSET S) = 2 ^ Cardinality(S)
  BY <1>1, FS_SUBSET
<1>3. Cardinality(SUBSET S) \in Nat
  BY <1>2, FS_CardinalityType
<1> QED
  BY <1>1, <1>2, <1>3, Zenon DEF S

(* Half of the subsets of 1..(n + 1) hold n + 1: the power doubles.        *)
LEMMA PowerDoubles ==
    ASSUME NEW n \in Nat
    PROVE  2 ^ (n + 1) = 2 * (2 ^ n)
<1> DEFINE S == SUBSET (1..n)
           f == [B \in S |-> B \cup {n + 1}]
           P == {B \cup {n + 1} : B \in S}
<1>1. /\ IsFiniteSet(S) /\ Cardinality(S) = 2 ^ n /\ 2 ^ n \in Nat
      /\ Cardinality(SUBSET (1..(n + 1))) = 2 ^ (n + 1)
  <2>1. n + 1 \in Nat
    OBVIOUS
  <2>2. Cardinality(SUBSET (1..(n + 1))) = 2 ^ (n + 1)
    BY <2>1, PowerCounts, Zenon
  <2>3. IsFiniteSet(S) /\ Cardinality(S) = 2 ^ n /\ 2 ^ n \in Nat
    BY PowerCounts, Zenon
  <2> QED
    BY <2>2, <2>3, Zenon
<1>2. f \in Bijection(S, P)
  <2>1. \A B \in S : n + 1 \notin B
    OBVIOUS
  <2>2. \A B, C \in S : B \cup {n + 1} = C \cup {n + 1} => B = C
    BY <2>1
  <2>3. f \in [S -> P]
    BY Zenon
  <2>4. f \in Injection(S, P)
    <3>1. \A B \in S : f[B] = B \cup {n + 1}
      BY Zenon
    <3>2. \A B, C \in S : f[B] = f[C] => B = C
      BY <2>2, <3>1, Zenon
    <3> HIDE DEF S, P, f
    <3> QED
      BY <2>3, <3>2, Zenon DEF Injection, IsInjective
  <2>5. f \in Surjection(S, P)
    BY <2>3 DEF Surjection
  <2> QED
    BY <2>4, <2>5 DEF Bijection
<1>3. IsFiniteSet(P) /\ Cardinality(P) = Cardinality(S)
  <2>1. ExistsBijection(S, P)
    BY <1>2 DEF ExistsBijection
  <2> HIDE DEF S, P
  <2> QED
    BY <1>1, <2>1, FS_Bijection
<1>4. S \cap P = {}
  OBVIOUS
<1>5. S \cup P = SUBSET (1..(n + 1))
  <2>1. ASSUME NEW B \in SUBSET (1..(n + 1)) PROVE B \in S \cup P
    <3>1. B \ {n + 1} \in S
      OBVIOUS
    <3>2. n + 1 \in B => B = (B \ {n + 1}) \cup {n + 1}
      OBVIOUS
    <3>3. n + 1 \notin B => B = B \ {n + 1}
      OBVIOUS
    <3> QED
      BY <3>1, <3>2, <3>3
  <2>2. S \cup P \subseteq SUBSET (1..(n + 1))
    <3>1. 1..n \subseteq 1..(n + 1) /\ n + 1 \in 1..(n + 1)
      OBVIOUS
    <3> QED
      BY <3>1, Zenon
  <2> QED
    BY <2>1, <2>2
<1>6. Cardinality(S \cup P) = Cardinality(S) + Cardinality(P)
  <2> HIDE DEF S, P
  <2> QED
    <3>1. Cardinality(S \cup P) = Cardinality(S) + Cardinality(P) - Cardinality(S \cap P)
      BY <1>1, <1>3, FS_Union
    <3>2. Cardinality(S \cap P) = 0
      BY <1>4, FS_EmptySet, Zenon
    <3>3. Cardinality(S) \in Nat /\ Cardinality(P) \in Nat
      BY <1>1, <1>3, FS_CardinalityType
    <3> QED
      BY <3>1, <3>2, <3>3
<1>7. 2 ^ (n + 1) = 2 ^ n + 2 ^ n
  <2> HIDE DEF S, P
  <2> QED
    BY <1>1, <1>3, <1>5, <1>6, Zenon
<1> DEFINE power == 2 ^ n
<1>8. power \in Nat /\ 2 ^ (n + 1) = power + power
  BY <1>1, <1>7, Zenon
<1>9. power + power = 2 * power
  <2> HIDE DEF power
  <2> QED
    BY <1>8
<1> QED
  BY <1>8, <1>9, Zenon
=============================================================================
