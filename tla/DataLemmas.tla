----------------------------- MODULE DataLemmas -----------------------------
(***************************************************************************)
(* What the proofs of several components need to know of numbers, finite   *)
(* sets, sums and sequences.  Induction is over sets instead of predicates,*)
(* and a recursive definition is shown to define a function before anything*)
(* is said of its values.                                                  *)
(***************************************************************************)
EXTENDS SequencesExt, FiniteSetTheorems, SequenceTheorems, TLAPS

(* Induction over the natural numbers, without an operator parameter.      *)
LEMMA NaturalsAreWellFounded ==
  \E R : IsWellFoundedOn(R, Nat) /\ \A n, m \in Nat : m < n => <<m, n>> \in R
<1>1. \A n, m \in Nat : m < n => <<m, n>> \in OpToRel(<, Nat)
  BY DEF OpToRel
<1> QED
  BY <1>1, NatLessThanWellFounded, Zenon

(* A set of natural numbers has a least element.                           *)
LEMMA LeastNatural ==
  ASSUME NEW T, T \subseteq Nat, T # {}
  PROVE  \E n \in T : \A m \in T : n <= m
<1>1. PICK R : IsWellFoundedOn(R, Nat) /\ \A n, m \in Nat : m < n => <<m, n>> \in R
  BY NaturalsAreWellFounded
<1>2. PICK n \in T : \A m \in T : ~(<<m, n>> \in R)
  BY <1>1, WFMin
<1>3. \A m \in T : ~(m < n)
  BY <1>1, <1>2
<1>4. \A m \in T : n <= m
  BY <1>3
<1> QED
  BY <1>4

(* A set that holds 0 and the successors of what it holds holds Nat.       *)
LEMMA Induction ==
  ASSUME NEW T, 0 \in T, \A n \in Nat : n \in T => n + 1 \in T
  PROVE  Nat \subseteq T
<1>1. SUFFICES ASSUME Nat \ T # {}
               PROVE  FALSE
  OBVIOUS
<1>2. PICK R : IsWellFoundedOn(R, Nat) /\ \A n, m \in Nat : m < n => <<m, n>> \in R
  BY NaturalsAreWellFounded
<1>3. PICK n \in Nat \ T : \A m \in Nat \ T : ~(<<m, n>> \in R)
  BY <1>1, <1>2, WFMin
<1>4. n # 0 /\ n - 1 \in Nat /\ n - 1 < n /\ n - 1 + 1 = n
  BY <1>3
<1>5. n - 1 \in T
  BY <1>2, <1>3, <1>4
<1> QED
  BY <1>3, <1>4, <1>5

(* The element the folds of the library take from a set.                   *)
Pick(s) == CHOOSE x \in s : TRUE

(* What holds of {}, and of a set when it holds of the set without any one *)
(* of its elements, holds of every subset of a finite set.                 *)
LEMMA SubsetInduction ==
  ASSUME NEW S, IsFiniteSet(S), NEW T, {} \in T,
         \A s \in SUBSET S : s # {} /\ (\A x \in s : s \ {x} \in T) => s \in T
  PROVE  SUBSET S \subseteq T
<1> DEFINE Q == {n \in Nat : \A s \in SUBSET S : Cardinality(s) = n => s \in T}
<1>1. \A s \in SUBSET S : IsFiniteSet(s) /\ Cardinality(s) \in Nat
  BY FS_Subset, FS_CardinalityType
<1>2. 0 \in Q
  BY <1>1, FS_EmptySet
<1>3. ASSUME NEW n \in Nat, n \in Q PROVE n + 1 \in Q
  <2> SUFFICES ASSUME NEW s \in SUBSET S, Cardinality(s) = n + 1 PROVE s \in T
    OBVIOUS
  <2>1. s # {} /\ IsFiniteSet(s)
    BY <1>1, FS_EmptySet
  <2>2. ASSUME NEW x \in s PROVE s \ {x} \in T
    <3>1. Cardinality(s \ {x}) = Cardinality(s) - 1
      BY <2>1, FS_RemoveElement
    <3>2. Cardinality(s \ {x}) = n
      BY <3>1
    <3> QED
      BY <1>3, <3>2
  <2> QED
    BY <2>1, <2>2
<1>4. Nat \subseteq Q
  <2> HIDE DEF Q
  <2> QED
    BY <1>2, <1>3, Induction
<1> QED
  BY <1>1, <1>4

(* The same, taking out the element the folds take.                        *)
LEMMA PickInduction ==
  ASSUME NEW S, IsFiniteSet(S), NEW T, {} \in T,
         \A s \in SUBSET S : s # {} /\ s \ {Pick(s)} \in T => s \in T
  PROVE  SUBSET S \subseteq T
<1>1. ASSUME NEW s \in SUBSET S, s # {}, \A x \in s : s \ {x} \in T PROVE s \in T
  <2>1. Pick(s) \in s
    BY <1>1 DEF Pick
  <2> QED
    BY <1>1, <2>1
<1> QED
  BY <1>1, SubsetInduction

(* What holds of {}, and of s with one more element when it holds of s,    *)
(* holds of S.                                                             *)
LEMMA SetInduction ==
  ASSUME NEW S, IsFiniteSet(S), NEW T, {} \in T,
         \A s \in SUBSET S, x \in S : x \notin s /\ s \in T => s \cup {x} \in T
  PROVE  S \in T
<1>1. ASSUME NEW s \in SUBSET S, s # {}, s \ {Pick(s)} \in T
      PROVE  s \in T
  <2>1. Pick(s) \in s
    BY <1>1 DEF Pick
  <2>2. s = (s \ {Pick(s)}) \cup {Pick(s)}
    BY <2>1
  <2>3. s \ {Pick(s)} \in SUBSET S /\ Pick(s) \in S /\ Pick(s) \notin s \ {Pick(s)}
    BY <2>1
  <2> QED
    BY <1>1, <2>2, <2>3
<1> QED
  BY <1>1, PickInduction

(* The sums of the library: g holds the sum of f over each subset of S.    *)
IsSum(g, f, S) ==
  g = [s \in SUBSET S |-> IF s = {} THEN 0 ELSE f[Pick(s)] + g[s \ {Pick(s)}]]

(* The recursion of the library's sum defines a function.                  *)
LEMMA SumExists ==
  ASSUME NEW f, NEW S, IsFiniteSet(S)
  PROVE  \E g : IsSum(g, f, S)
<1> DEFINE Small(n) == {s \in SUBSET S : Cardinality(s) <= n}
           At(g, s) == IF s = {} THEN 0 ELSE f[Pick(s)] + g[s \ {Pick(s)}]
           Q == {n \in Nat : \E g : g = [s \in Small(n) |-> At(g, s)]}
<1>1. \A s \in SUBSET S : IsFiniteSet(s) /\ Cardinality(s) \in Nat
  BY FS_Subset, FS_CardinalityType
<1>2. 0 \in Q
  <2>1. \A s \in Small(0) : s = {}
    BY <1>1, FS_EmptySet
  <2> DEFINE g == [s \in Small(0) |-> 0]
  <2>2. g = [s \in Small(0) |-> At(g, s)]
    BY <2>1
  <2> QED
    BY <2>2
<1>3. ASSUME NEW n \in Nat, n \in Q PROVE n + 1 \in Q
  <2>1. PICK g : g = [s \in Small(n) |-> At(g, s)]
    BY <1>3
  <2> DEFINE h == [s \in Small(n + 1) |-> At(g, s)]
  <2>2. Small(n) \subseteq Small(n + 1)
    BY <1>1
  <2>3. \A s \in Small(n) : h[s] = g[s]
    BY <2>1, <2>2
  <2>4. ASSUME NEW s \in Small(n + 1) PROVE At(h, s) = At(g, s)
    <3>1. CASE s = {}
      BY <3>1
    <3>2. CASE s # {}
      <4>1. Pick(s) \in s
        BY <3>2 DEF Pick
      <4>2. Cardinality(s \ {Pick(s)}) = Cardinality(s) - 1
        BY <1>1, <4>1, FS_RemoveElement
      <4>3. s \ {Pick(s)} \in Small(n)
        BY <1>1, <4>2
      <4> HIDE DEF h
      <4> QED
        BY <2>3, <4>3
    <3> QED
      BY <3>1, <3>2
  <2>5. h = [s \in Small(n + 1) |-> At(h, s)]
    <3> HIDE DEF At
    <3> QED
      BY <2>4
  <2> HIDE DEF h, At
  <2>6. \E k : k = [s \in Small(n + 1) |-> At(k, s)]
    BY <2>5, Zenon
  <2>7. n + 1 \in Nat
    OBVIOUS
  <2> HIDE DEF Small
  <2> QED
    BY <2>6, <2>7, Zenon
<1>4. Cardinality(S) \in Q
  <2> HIDE DEF Q
  <2>1. Nat \subseteq Q
    BY <1>2, <1>3, Induction
  <2> QED
    BY <1>1, <2>1
<1>5. Small(Cardinality(S)) = SUBSET S
  BY <1>1, FS_Subset
<1>6. PICK g : g = [s \in Small(Cardinality(S)) |-> At(g, s)]
  BY <1>4
<1> HIDE DEF Small
<1>7. IsSum(g, f, S)
  BY <1>5, <1>6 DEF IsSum
<1> QED
  BY <1>7

(* The library's sum is a value of such a function.                        *)
LEMMA SumIsFold ==
  ASSUME NEW f, NEW S, IsFiniteSet(S)
  PROVE  \E g : IsSum(g, f, S) /\ SumFunctionOnSet(f, S) = g[S]
<1> DEFINE g == CHOOSE g : IsSum(g, f, S)
<1>1. SumFunctionOnSet(f, S) = g[S]
  BY DEF SumFunctionOnSet, FoldFunctionOnSet, MapThenFoldSet, IsSum, Pick
<1>2. IsSum(g, f, S)
  BY SumExists
<1> QED
  BY <1>1, <1>2

(* Two such functions agree where they meet.                               *)
LEMMA SumUnique ==
  ASSUME NEW f, NEW S, NEW R \in SUBSET S, IsFiniteSet(S),
         NEW g, IsSum(g, f, S), NEW h, IsSum(h, f, R)
  PROVE  \A s \in SUBSET R : g[s] = h[s]
<1> DEFINE T == {s \in SUBSET R : g[s] = h[s]}
<1>1. IsFiniteSet(R)
  BY FS_Subset
<1>2. {} \in T
  BY DEF IsSum
<1>3. ASSUME NEW s \in SUBSET R, s # {}, s \ {Pick(s)} \in T PROVE s \in T
  <2>1. g[s] = f[Pick(s)] + g[s \ {Pick(s)}]
    BY <1>3 DEF IsSum
  <2>2. h[s] = f[Pick(s)] + h[s \ {Pick(s)}]
    BY <1>3 DEF IsSum
  <2> QED
    BY <1>3, <2>1, <2>2
<1>4. SUBSET R \subseteq T
  <2> HIDE DEF T
  <2> QED
    BY <1>1, <1>2, <1>3, PickInduction
<1> QED
  BY <1>4

(* The sum over the empty set is 0.                                        *)
LEMMA SumOfNone == ASSUME NEW f PROVE SumFunctionOnSet(f, {}) = 0
<1>1. PICK g : IsSum(g, f, {}) /\ SumFunctionOnSet(f, {}) = g[{}]
  BY SumIsFold, FS_EmptySet
<1> QED
  BY <1>1 DEF IsSum

(* A sum is the element the fold takes and the sum of the others.          *)
LEMMA SumPicks ==
  ASSUME NEW f, NEW S, IsFiniteSet(S), S # {}
  PROVE  SumFunctionOnSet(f, S) = f[Pick(S)] + SumFunctionOnSet(f, S \ {Pick(S)})
<1> DEFINE R == S \ {Pick(S)}
<1>1. PICK g : IsSum(g, f, S) /\ SumFunctionOnSet(f, S) = g[S]
  BY SumIsFold
<1>2. IsFiniteSet(R) /\ R \in SUBSET S
  BY FS_Subset
<1>3. PICK h : IsSum(h, f, R) /\ SumFunctionOnSet(f, R) = h[R]
  BY <1>2, SumIsFold
<1>4. g[R] = h[R]
  BY <1>1, <1>2, <1>3, SumUnique
<1>5. g[S] = f[Pick(S)] + g[R]
  BY <1>1 DEF IsSum
<1> QED
  BY <1>1, <1>3, <1>4, <1>5

(* A sum of integers is an integer.                                        *)
LEMMA SumIsInteger ==
  ASSUME NEW f, NEW S, IsFiniteSet(S), \A x \in S : f[x] \in Int
  PROVE  SumFunctionOnSet(f, S) \in Int
<1> DEFINE T == {s \in SUBSET S : SumFunctionOnSet(f, s) \in Int}
<1>1. {} \in T
  BY SumOfNone
<1>2. ASSUME NEW s \in SUBSET S, s # {}, s \ {Pick(s)} \in T PROVE s \in T
  <2>1. IsFiniteSet(s) /\ Pick(s) \in s
    BY <1>2, FS_Subset DEF Pick
  <2> QED
    BY <1>2, <2>1, SumPicks
<1>3. SUBSET S \subseteq T
  <2> HIDE DEF T
  <2> QED
    BY <1>1, <1>2, PickInduction
<1> QED
  BY <1>3

(* A sum of naturals is a natural.                                         *)
LEMMA SumIsNatural ==
  ASSUME NEW f, NEW S, IsFiniteSet(S), \A x \in S : f[x] \in Nat
  PROVE  SumFunctionOnSet(f, S) \in Nat
<1> DEFINE T == {s \in SUBSET S : SumFunctionOnSet(f, s) \in Nat}
<1>1. {} \in T
  BY SumOfNone
<1>2. ASSUME NEW s \in SUBSET S, s # {}, s \ {Pick(s)} \in T PROVE s \in T
  <2>1. IsFiniteSet(s) /\ Pick(s) \in s
    BY <1>2, FS_Subset DEF Pick
  <2>2. SumFunctionOnSet(f, s) = f[Pick(s)] + SumFunctionOnSet(f, s \ {Pick(s)})
    BY <1>2, <2>1, SumPicks
  <2> QED
    BY <1>2, <2>1, <2>2
<1>3. SUBSET S \subseteq T
  <2> HIDE DEF T
  <2> QED
    BY <1>1, <1>2, PickInduction
<1> QED
  BY <1>3

(* The sum is the same whichever element is taken out first.               *)
LEMMA SumTakesAny ==
  ASSUME NEW f, NEW S, IsFiniteSet(S), \A x \in S : f[x] \in Int, NEW x \in S
  PROVE  SumFunctionOnSet(f, S) = f[x] + SumFunctionOnSet(f, S \ {x})
<1> DEFINE sum(s) == SumFunctionOnSet(f, s)
           T == {s \in SUBSET S : \A y \in s : sum(s) = f[y] + sum(s \ {y})}
<1>1. \A s \in SUBSET S : IsFiniteSet(s) /\ sum(s) \in Int
  BY FS_Subset, SumIsInteger
<1>2. \A s \in SUBSET S : s # {} => Pick(s) \in s /\ sum(s) = f[Pick(s)] + sum(s \ {Pick(s)})
  BY <1>1, SumPicks DEF Pick
<1> HIDE DEF sum
<1>3. {} \in T
  OBVIOUS
<1>4. ASSUME NEW s \in SUBSET S, s # {}, \A y \in s : s \ {y} \in T PROVE s \in T
  <2> DEFINE p == Pick(s)
  <2>1. p \in s /\ sum(s) = f[p] + sum(s \ {p})
    BY <1>2, <1>4
  <2> HIDE DEF p
  <2>2. ASSUME NEW y \in s, y # p PROVE sum(s) = f[y] + sum(s \ {y})
    <3>1. sum(s \ {p}) = f[y] + sum((s \ {p}) \ {y})
      BY <1>4, <2>1, <2>2
    <3>2. sum(s \ {y}) = f[p] + sum((s \ {y}) \ {p})
      BY <1>4, <2>1, <2>2
    <3>3. sum((s \ {p}) \ {y}) = sum((s \ {y}) \ {p})
      <4>1. (s \ {p}) \ {y} = (s \ {y}) \ {p}
        OBVIOUS
      <4> QED
        BY <4>1, Zenon
    <3>4. f[y] \in Int /\ f[p] \in Int /\ sum((s \ {y}) \ {p}) \in Int
      BY <1>1, <2>1
    <3> QED
      BY <2>1, <3>1, <3>2, <3>3, <3>4
  <2> QED
    BY <2>1, <2>2
<1>5. S \in T
  <2> HIDE DEF T
  <2> QED
    BY <1>3, <1>4, SubsetInduction
<1> QED
  BY <1>5 DEF sum

(* An element more adds its value.                                         *)
LEMMA SumAdds ==
  ASSUME NEW f, NEW S, IsFiniteSet(S), NEW x, x \notin S, f[x] \in Int,
         \A y \in S : f[y] \in Int
  PROVE  SumFunctionOnSet(f, S \cup {x}) = f[x] + SumFunctionOnSet(f, S)
<1> DEFINE R == S \cup {x}
<1>1. IsFiniteSet(R) /\ x \in R /\ \A y \in R : f[y] \in Int
  BY FS_AddElement
<1>2. R \ {x} = S
  OBVIOUS
<1> HIDE DEF R
<1>3. SumFunctionOnSet(f, R) = f[x] + SumFunctionOnSet(f, R \ {x})
  BY <1>1, SumTakesAny
<1> QED
  BY <1>2, <1>3 DEF R

(* A sum over two disjoint sets is the sum of the two sums.                *)
LEMMA SumSplits ==
  ASSUME NEW f, NEW A, NEW B, IsFiniteSet(A), IsFiniteSet(B), A \cap B = {},
         \A x \in A \cup B : f[x] \in Int
  PROVE  SumFunctionOnSet(f, A \cup B) = SumFunctionOnSet(f, A) + SumFunctionOnSet(f, B)
<1> DEFINE sum(s) == SumFunctionOnSet(f, s)
           T == {s \in SUBSET B : sum(A \cup s) = sum(A) + sum(s)}
<1>1. \A s \in SUBSET B : IsFiniteSet(s) /\ IsFiniteSet(A \cup s)
  BY FS_Subset, FS_Union
<1>2. sum(A) \in Int /\ \A s \in SUBSET B : sum(s) \in Int
  BY <1>1, SumIsInteger
<1>3. {} \in T
  <2>1. sum({}) = 0 /\ A \cup {} = A
    BY SumOfNone
  <2> HIDE DEF sum
  <2> QED
    BY <1>2, <2>1
<1>4. ASSUME NEW s \in SUBSET B, NEW x \in B, x \notin s, s \in T
      PROVE  s \cup {x} \in T
  <2>1. sum(s \cup {x}) = f[x] + sum(s)
    BY <1>1, <1>4, SumAdds
  <2>2. x \notin A \cup s /\ f[x] \in Int /\ \A y \in A \cup s : f[y] \in Int
    BY <1>4
  <2>3. sum((A \cup s) \cup {x}) = f[x] + sum(A \cup s)
    BY <1>1, <2>2, SumAdds
  <2>4. (A \cup s) \cup {x} = A \cup (s \cup {x})
    OBVIOUS
  <2> HIDE DEF sum
  <2> QED
    BY <1>2, <1>4, <2>1, <2>2, <2>3, <2>4
<1>5. B \in T
  <2> HIDE DEF T
  <2> QED
    BY <1>3, <1>4, SetInduction
<1> QED
  BY <1>5

(* Sums over sets that an injection maps onto each other, with the same    *)
(* values at corresponding elements, are the same.                         *)
LEMMA SumMoves ==
  ASSUME NEW f, NEW S, IsFiniteSet(S), NEW g, NEW h,
         \A x \in S : f[x] \in Int /\ g[h[x]] = f[x],
         \A x, y \in S : h[x] = h[y] => x = y
  PROVE  SumFunctionOnSet(g, {h[x] : x \in S}) = SumFunctionOnSet(f, S)
<1> DEFINE Image(s) == {h[x] : x \in s}
           T == {s \in SUBSET S : IsFiniteSet(Image(s)) /\
                   SumFunctionOnSet(g, Image(s)) = SumFunctionOnSet(f, s)}
<1>1. {} \in T
  <2>1. Image({}) = {}
    OBVIOUS
  <2> QED
    BY <2>1, SumOfNone, FS_EmptySet
<1>2. ASSUME NEW s \in SUBSET S, NEW x \in S, x \notin s, s \in T
      PROVE  s \cup {x} \in T
  <2>1. Image(s \cup {x}) = Image(s) \cup {h[x]} /\ h[x] \notin Image(s)
    BY <1>2
  <2>2. IsFiniteSet(s) /\ IsFiniteSet(Image(s)) /\ IsFiniteSet(Image(s) \cup {h[x]})
    BY <1>2, FS_Subset, FS_AddElement
  <2>3. \A y \in Image(s) : g[y] \in Int
    OBVIOUS
  <2>4. SumFunctionOnSet(f, s \cup {x}) = f[x] + SumFunctionOnSet(f, s)
    BY <1>2, <2>2, SumAdds
  <2>5. g[h[x]] = f[x] /\ g[h[x]] \in Int
    OBVIOUS
  <2> HIDE DEF Image
  <2>6. SumFunctionOnSet(g, Image(s) \cup {h[x]}) = g[h[x]] + SumFunctionOnSet(g, Image(s))
    BY <2>1, <2>2, <2>3, <2>5, SumAdds
  <2> QED
    BY <1>2, <2>1, <2>2, <2>4, <2>5, <2>6
<1>3. S \in T
  <2> HIDE DEF T
  <2> QED
    BY <1>1, <1>2, SetInduction
<1> QED
  BY <1>3

(* A sum depends only on the values summed.                                *)
LEMMA SumDepends ==
  ASSUME NEW f, NEW S, IsFiniteSet(S), NEW g, \A x \in S : f[x] \in Int /\ g[x] = f[x]
  PROVE  SumFunctionOnSet(g, S) = SumFunctionOnSet(f, S)
<1> DEFINE h == [x \in S |-> x]
<1>1. {h[x] : x \in S} = S
  OBVIOUS
<1>2. /\ \A x \in S : f[x] \in Int /\ g[h[x]] = f[x]
      /\ \A x, y \in S : h[x] = h[y] => x = y
  OBVIOUS
<1> HIDE DEF h
<1>3. SumFunctionOnSet(g, {h[x] : x \in S}) = SumFunctionOnSet(f, S)
  BY <1>2, SumMoves
<1> QED
  BY <1>1, <1>3

(* Changing one value changes the sum by the difference.                   *)
LEMMA SumChanges ==
  ASSUME NEW f, NEW S, IsFiniteSet(S), NEW g, NEW x \in S, g[x] \in Int,
         \A y \in S : f[y] \in Int, \A y \in S \ {x} : g[y] = f[y]
  PROVE  SumFunctionOnSet(g, S) = SumFunctionOnSet(f, S) - f[x] + g[x]
<1> DEFINE R == S \ {x}
<1>1. IsFiniteSet(R) /\ \A y \in R : f[y] \in Int /\ g[y] = f[y]
  BY FS_Subset
<1>2. SumFunctionOnSet(g, R) = SumFunctionOnSet(f, R) /\ SumFunctionOnSet(f, R) \in Int
  BY <1>1, SumDepends, SumIsInteger
<1>3. SumFunctionOnSet(f, S) = f[x] + SumFunctionOnSet(f, R)
  BY SumTakesAny
<1>4. \A y \in S : g[y] \in Int
  OBVIOUS
<1>5. SumFunctionOnSet(g, S) = g[x] + SumFunctionOnSet(g, R)
  BY <1>4, SumTakesAny
<1> QED
  BY <1>2, <1>3, <1>5

-----------------------------------------------------------------------------
(* A function on 1 .. n is a sequence of length n.                         *)
LEMMA IndexedIsSeq ==
  ASSUME NEW S, NEW n \in Nat, NEW f, f = [i \in 1 .. n |-> f[i]], \A i \in 1 .. n : f[i] \in S
  PROVE  f \in Seq(S) /\ Len(f) = n /\ DOMAIN f = 1 .. n
<1>1. f \in [1 .. n -> S]
  OBVIOUS
<1> QED
  BY <1>1

(* The recursion of the library's concatenation: f holds that of the first *)
(* sequences of ss.                                                        *)
IsFlat(f, ss, n) == f = [i \in 1 .. n |-> IF i = 1 THEN ss[i] ELSE f[i - 1] \o ss[i]]

(* It defines a function.                                                  *)
LEMMA FlatExists == ASSUME NEW ss, NEW n \in Nat PROVE \E f : IsFlat(f, ss, n)
<1> DEFINE T == {m \in Nat : \E f : IsFlat(f, ss, m)}
<1>1. 0 \in T
  <2> DEFINE f == [i \in 1 .. 0 |-> 0]
  <2>1. IsFlat(f, ss, 0)
    BY DEF IsFlat
  <2> QED
    BY <2>1
<1>2. ASSUME NEW m \in Nat, m \in T PROVE m + 1 \in T
  <2>1. PICK f : IsFlat(f, ss, m)
    BY <1>2
  <2> DEFINE next == IF m = 0 THEN ss[m + 1] ELSE f[m] \o ss[m + 1]
             g == [i \in 1 .. m + 1 |-> IF i = m + 1 THEN next ELSE f[i]]
  <2>2. \A i \in 1 .. m : f[i] = IF i = 1 THEN ss[i] ELSE f[i - 1] \o ss[i]
    BY <2>1 DEF IsFlat
  <2>3. /\ g = [i \in 1 .. m + 1 |-> g[i]]
        /\ \A i \in 1 .. m + 1 : g[i] = IF i = m + 1 THEN next ELSE f[i]
    OBVIOUS
  <2>4. next = IF m = 0 THEN ss[m + 1] ELSE f[m] \o ss[m + 1]
    OBVIOUS
  <2> HIDE DEF g, next, T
  <2>5. ASSUME NEW i \in 1 .. m + 1
        PROVE  g[i] = IF i = 1 THEN ss[i] ELSE g[i - 1] \o ss[i]
    <3>1. CASE i = m + 1
      <4>1. i # 1 => g[i - 1] = f[m]
        BY <2>3, <3>1
      <4>2. g[i] = next /\ (i = 1 <=> m = 0) /\ m + 1 = i
        BY <2>3, <3>1
      <4> QED
        BY <2>4, <4>1, <4>2
    <3>2. CASE i # m + 1
      <4>1. i \in 1 .. m /\ g[i] = f[i] /\ (i # 1 => g[i - 1] = f[i - 1])
        BY <2>3, <3>2
      <4> QED
        BY <2>2, <4>1
    <3> QED
      BY <3>1, <3>2
  <2>6. IsFlat(g, ss, m + 1)
    BY <2>3, <2>5 DEF IsFlat
  <2>7. m + 1 \in Nat
    OBVIOUS
  <2> QED
    BY <2>6, <2>7, Zenon DEF T
<1>3. Nat \subseteq T
  <2> HIDE DEF T
  <2> QED
    BY <1>1, <1>2, Induction
<1> QED
  BY <1>3

(* Sequences over S joined together are a sequence over S.                 *)
LEMMA FlattenIsSeq ==
  ASSUME NEW S, NEW ss \in Seq(Seq(S))
  PROVE  FlattenSeq(ss) \in Seq(S)
<1>1. CASE Len(ss) = 0
  <2>1. ss = <<>> /\ <<>> \in Seq(S)
    BY <1>1
  <2>2. FlattenSeq(ss) = ss
    BY <1>1, Zenon DEF FlattenSeq
  <2> QED
    BY <2>1, <2>2
<1>2. CASE Len(ss) # 0
  <2>1. Len(ss) \in Nat /\ Len(ss) \in 1 .. Len(ss)
    BY <1>2
  <2> DEFINE f == CHOOSE f : IsFlat(f, ss, Len(ss))
  <2>2. FlattenSeq(ss) = f[Len(ss)]
    BY <1>2, Zenon DEF FlattenSeq, IsFlat
  <2>3. IsFlat(f, ss, Len(ss))
    BY <2>1, FlatExists
  <2> HIDE DEF f
  <2> DEFINE T == {i \in Nat : i \in 1 .. Len(ss) => f[i] \in Seq(S)}
  <2>4. 0 \in T
    OBVIOUS
  <2>5. ASSUME NEW i \in Nat, i \in T PROVE i + 1 \in T
    <3> SUFFICES ASSUME i + 1 \in 1 .. Len(ss) PROVE f[i + 1] \in Seq(S)
      OBVIOUS
    <3>0. \A k \in 1 .. Len(ss) : f[k] = IF k = 1 THEN ss[k] ELSE f[k - 1] \o ss[k]
      BY <2>3 DEF IsFlat
    <3>1. f[i + 1] = IF i = 0 THEN ss[i + 1] ELSE f[i] \o ss[i + 1]
      BY <3>0
    <3>2. ss[i + 1] \in Seq(S) /\ (i # 0 => f[i] \in Seq(S))
      BY <2>5
    <3> QED
      BY <3>1, <3>2
  <2>6. Nat \subseteq T
    <3> HIDE DEF T
    <3> QED
      BY <2>4, <2>5, Induction
  <2> QED
    BY <2>1, <2>2, <2>6
<1> QED
  BY <1>1, <1>2

(* A finite set listed as a sequence has the same elements.                *)
LEMMA SetToSeqLists ==
  ASSUME NEW S, IsFiniteSet(S)
  PROVE  SetToSeq(S) \in Seq(S) /\ ToSet(SetToSeq(S)) = S
<1> DEFINE n == Cardinality(S)
           f == SetToSeq(S)
<1>1. n \in Nat /\ ExistsBijection(1 .. n, S)
  BY FS_CardinalityType
<1>2. \E g \in [1 .. n -> S] : IsInjective(g)
  BY <1>1 DEF ExistsBijection, Bijection, Injection
<1>3. f \in [1 .. n -> S] /\ IsInjective(f)
  BY <1>2 DEF SetToSeq
<1> HIDE DEF f
<1>4. f \in Injection(1 .. n, S)
  BY <1>3 DEF Injection
<1>5. Cardinality(1 .. n) = n
  BY <1>1, FS_Interval
<1>6. f \in Surjection(1 .. n, S)
  BY <1>4, <1>5, FS_Injection
<1>7. \A x \in S : \E i \in 1 .. n : f[i] = x
  BY <1>6 DEF Surjection
<1>8. f \in Seq(S) /\ DOMAIN f = 1 .. n
  BY <1>1, <1>3
<1>9. ToSet(f) = S
  BY <1>3, <1>7, <1>8 DEF ToSet
<1> QED
  BY <1>8, <1>9 DEF f

(* Taking the head off a list loses nothing else.                          *)
LEMMA TailKeepsRest ==
  ASSUME NEW S, NEW s \in Seq(S), s # <<>>
  PROVE  /\ Head(s) \in S /\ Tail(s) \in Seq(S)
         /\ ToSet(s) = {Head(s)} \cup ToSet(Tail(s))
<1>1. Len(s) \in Nat /\ Len(s) > 0 /\ DOMAIN s = 1 .. Len(s)
  OBVIOUS
<1>2. Tail(s) \in Seq(S) /\ DOMAIN Tail(s) = 1 .. Len(s) - 1
  BY <1>1
<1>3. \A j \in DOMAIN Tail(s) : Tail(s)[j] = s[j + 1] /\ j + 1 \in DOMAIN s
  BY <1>1, <1>2
<1>4. ASSUME NEW i \in DOMAIN s
      PROVE  s[i] \in {Head(s)} \cup ToSet(Tail(s))
  <2>1. CASE i = 1
    BY <2>1
  <2>2. CASE i # 1
    <3>1. i - 1 \in DOMAIN Tail(s) /\ Tail(s)[i - 1] = s[i]
      BY <1>1, <2>2
    <3> QED
      BY <3>1 DEF ToSet
  <2> QED
    BY <2>1, <2>2
<1>5. ToSet(Tail(s)) \subseteq ToSet(s)
  BY <1>3 DEF ToSet
<1>6. Head(s) \in ToSet(s) /\ Head(s) \in S
  BY <1>1 DEF ToSet
<1> QED
  BY <1>2, <1>4, <1>5, <1>6 DEF ToSet

-----------------------------------------------------------------------------
(* What holds <<>> and the longer ones of the sequences it holds holds     *)
(* every sequence.                                                         *)
LEMMA SeqInduction ==
  ASSUME NEW S, NEW T, <<>> \in T,
         \A s \in Seq(S), x \in S : s \in T => Append(s, x) \in T
  PROVE  Seq(S) \subseteq T
<1> DEFINE Q == {n \in Nat : \A s \in Seq(S) : Len(s) = n => s \in T}
<1>1. 0 \in Q
  OBVIOUS
<1>2. ASSUME NEW n \in Nat, n \in Q PROVE n + 1 \in Q
  <2> SUFFICES ASSUME NEW s \in Seq(S), Len(s) = n + 1 PROVE s \in T
    OBVIOUS
  <2>1. s # <<>>
    OBVIOUS
  <2>2. PICK r \in Seq(S), x \in S : s = Append(r, x)
    BY <2>1, SequenceEmptyOrAppend
  <2>3. Len(r) = n
    BY <2>2
  <2> QED
    BY <1>2, <2>2, <2>3
<1>3. Nat \subseteq Q
  <2> HIDE DEF Q
  <2> QED
    BY <1>1, <1>2, Induction
<1> QED
  BY <1>3

(* One more sequence is joined at the end.                                 *)
LEMMA FlattenAppends ==
  ASSUME NEW S, NEW ss \in Seq(Seq(S)), NEW s \in Seq(S)
  PROVE  FlattenSeq(Append(ss, s)) = FlattenSeq(ss) \o s
<1> DEFINE tt == Append(ss, s)
           n == Len(ss)
<1>1. /\ n \in Nat /\ Len(tt) = n + 1 /\ tt[n + 1] = s /\ DOMAIN ss = 1 .. n
      /\ \A i \in 1 .. n : tt[i] = ss[i]
  OBVIOUS
<1> DEFINE f == CHOOSE f : IsFlat(f, tt, n + 1)
           g == CHOOSE g : IsFlat(g, ss, n)
<1>2. FlattenSeq(tt) = f[n + 1]
  <2>1. Len(tt) # 0 /\ Len(tt) = n + 1
    BY <1>1
  <2> HIDE DEF tt, n
  <2> QED
    BY <2>1, Zenon DEF FlattenSeq, IsFlat
<1>3. IsFlat(f, tt, n + 1) /\ IsFlat(g, ss, n)
  <2>1. n + 1 \in Nat
    BY <1>1
  <2> QED
    BY <1>1, <2>1, FlatExists, Zenon
<1>4. n # 0 => FlattenSeq(ss) = g[n]
  BY Zenon DEF FlattenSeq, IsFlat
<1>5. n = 0 => FlattenSeq(ss) = <<>>
  <2>1. n = 0 => ss = <<>> /\ FlattenSeq(ss) = ss
    BY DEF FlattenSeq
  <2> QED
    BY <2>1
<1> HIDE DEF f, g, tt, n
<1>6. f[1] = tt[1] /\ \A i \in 1 .. n : f[i + 1] = f[i] \o tt[i + 1]
  <2>1. \A i \in 1 .. n + 1 : f[i] = IF i = 1 THEN tt[i] ELSE f[i - 1] \o tt[i]
    BY <1>3, Zenon DEF IsFlat
  <2>2. 1 \in 1 .. n + 1
    BY <1>1
  <2>3. ASSUME NEW i \in 1 .. n PROVE f[i + 1] = f[i] \o tt[i + 1]
    <3> DEFINE j == i + 1
    <3>1. j \in 1 .. n + 1 /\ j # 1 /\ j - 1 = i
      BY <1>1
    <3> HIDE DEF j
    <3>2. f[j] = f[j - 1] \o tt[j]
      BY <2>1, <3>1, Zenon
    <3>3. f[j] = f[i] \o tt[j]
      BY <3>1, <3>2, Zenon
    <3> QED
      BY <3>3 DEF j
  <2> QED
    BY <2>1, <2>2, <2>3, Zenon
<1>7. n # 0 => g[1] = ss[1] /\ \A i \in 1 .. n - 1 : g[i + 1] = g[i] \o ss[i + 1]
  <2>1. \A i \in 1 .. n : g[i] = IF i = 1 THEN ss[i] ELSE g[i - 1] \o ss[i]
    BY <1>3, Zenon DEF IsFlat
  <2>2. n # 0 => 1 \in 1 .. n
    BY <1>1
  <2>3. ASSUME NEW i \in 1 .. n - 1 PROVE g[i + 1] = g[i] \o ss[i + 1]
    <3> DEFINE j == i + 1
    <3>1. j \in 1 .. n /\ j # 1 /\ j - 1 = i
      BY <1>1
    <3> HIDE DEF j
    <3>2. g[j] = g[j - 1] \o ss[j]
      BY <2>1, <3>1, Zenon
    <3>3. g[j] = g[i] \o ss[j]
      BY <3>1, <3>2, Zenon
    <3> QED
      BY <3>3 DEF j
  <2> QED
    BY <2>1, <2>2, <2>3, Zenon
<1>8. \A i \in 1 .. n : f[i] = g[i]
  <2> DEFINE T == {i \in Nat : i \in 1 .. n => f[i] = g[i]}
  <2>1. 0 \in T
    OBVIOUS
  <2>2. ASSUME NEW i \in Nat, i \in T PROVE i + 1 \in T
    <3> SUFFICES ASSUME i + 1 \in 1 .. n PROVE f[i + 1] = g[i + 1]
      OBVIOUS
    <3>1. CASE i = 0
      <4>1. i + 1 = 1 /\ n # 0 /\ tt[1] = ss[1]
        BY <1>1, <3>1
      <4> QED
        BY <1>6, <1>7, <4>1, Zenon
    <3>2. CASE i # 0
      <4>1. n # 0 /\ i \in 1 .. n - 1 /\ i \in 1 .. n /\ f[i] = g[i]
        BY <1>1, <2>2, <3>2
      <4>2. f[i + 1] = f[i] \o tt[i + 1] /\ g[i + 1] = g[i] \o ss[i + 1]
        BY <1>6, <1>7, <4>1
      <4>3. tt[i + 1] = ss[i + 1]
        BY <1>1
      <4> QED
        BY <4>1, <4>2, <4>3, Zenon
    <3> QED
      BY <3>1, <3>2
  <2>3. Nat \subseteq T
    <3> HIDE DEF T
    <3> QED
      BY <2>1, <2>2, Induction
  <2> QED
    BY <1>1, <2>3
<1>9. CASE n = 0
  <2>1. f[n + 1] = s
    BY <1>1, <1>6, <1>9
  <2> QED
    BY <1>2, <1>5, <1>9, <2>1 DEF tt
<1>10. CASE n # 0
  <2>1. n \in 1 .. n
    BY <1>1, <1>10
  <2>2. f[n + 1] = f[n] \o tt[n + 1]
    BY <1>6, <2>1
  <2>3. f[n + 1] = FlattenSeq(ss) \o s
    BY <1>1, <1>4, <1>8, <1>10, <2>1, <2>2
  <2> QED
    BY <1>2, <2>3 DEF tt
<1> QED
  BY <1>9, <1>10

(* Appending to the second of two sequences appends to both joined.        *)
LEMMA AppendAfterJoin ==
  ASSUME NEW S, NEW s \in Seq(S), NEW t \in Seq(S), NEW x \in S
  PROVE  s \o Append(t, x) = Append(s \o t, x)
<1>1. /\ Append(t, x) \in Seq(S) /\ Append(t, x) = t \o <<x>>
      /\ <<x>> \in Seq(S) /\ s \o t \in Seq(S)
      /\ Append(s \o t, x) = (s \o t) \o <<x>>
  BY AppendIsConcat
<1>2. (s \o t) \o <<x>> = s \o (t \o <<x>>)
  BY <1>1, ConcatAssociative
<1> QED
  BY <1>1, <1>2

(* Joining the parts of two lists is joining what each list joins.         *)
LEMMA FlattenJoins ==
  ASSUME NEW S, NEW ss \in Seq(Seq(S)), NEW tt \in Seq(Seq(S))
  PROVE  FlattenSeq(ss \o tt) = FlattenSeq(ss) \o FlattenSeq(tt)
<1> DEFINE R == Seq(S)
           T == {t \in Seq(R) : FlattenSeq(ss \o t) = FlattenSeq(ss) \o FlattenSeq(t)}
<1>1. FlattenSeq(ss) \in R
  BY FlattenIsSeq
<1>2. <<>> \in T
  <2>1. FlattenSeq(<<>>) = <<>>
    BY DEF FlattenSeq
  <2> QED
    BY <1>1, <2>1
<1>3. ASSUME NEW t \in Seq(R), NEW x \in R, t \in T PROVE Append(t, x) \in T
  <2>1. ss \o Append(t, x) = Append(ss \o t, x) /\ ss \o t \in Seq(R) /\ Append(t, x) \in Seq(R)
    <3> HIDE DEF R, T
    <3>1. ss \in Seq(R)
      BY DEF R
    <3> QED
      BY <3>1, AppendAfterJoin
  <2>2. FlattenSeq(Append(ss \o t, x)) = FlattenSeq(ss \o t) \o x
    BY <2>1, FlattenAppends
  <2>3. FlattenSeq(Append(t, x)) = FlattenSeq(t) \o x
    BY FlattenAppends
  <2>4. FlattenSeq(ss \o t) = FlattenSeq(ss) \o FlattenSeq(t) /\ FlattenSeq(t) \in R
    BY <1>3, FlattenIsSeq
  <2>5. (FlattenSeq(ss) \o FlattenSeq(t)) \o x = FlattenSeq(ss) \o (FlattenSeq(t) \o x)
    BY <1>1, <2>4, ConcatAssociative
  <2>6. FlattenSeq(ss \o Append(t, x)) = FlattenSeq(ss) \o FlattenSeq(Append(t, x))
    BY <2>1, <2>2, <2>3, <2>4, <2>5, Zenon
  <2> QED
    BY <2>1, <2>6
<1>4. Seq(R) \subseteq T
  <2> HIDE DEF T, R
  <2> QED
    BY <1>2, <1>3, SeqInduction
<1> QED
  BY <1>4

(* The parts 1 .. n + 1 joined are the parts 1 .. n and the last one.      *)
LEMMA FlattenOfNext ==
  ASSUME NEW S, NEW n \in Nat, NEW x, \A i \in 1 .. n + 1 : x[i] \in Seq(S)
  PROVE  /\ FlattenSeq([i \in 1 .. n |-> x[i]]) \in Seq(S)
         /\ FlattenSeq([i \in 1 .. n + 1 |-> x[i]]) = FlattenSeq([i \in 1 .. n |-> x[i]]) \o x[n + 1]
<1> DEFINE s == [i \in 1 .. n |-> x[i]]
           t == [i \in 1 .. n + 1 |-> x[i]]
           y == x[n + 1]
           Q == Seq(S)
<1>1. (\A i \in 1 .. n : s[i] = x[i] /\ x[i] \in Q) /\ s = [i \in 1 .. n |-> s[i]] /\ y \in Q
  OBVIOUS
<1>2. (\A i \in 1 .. n : t[i] = x[i]) /\ t[n + 1] = y /\ t = [i \in 1 .. n + 1 |-> t[i]]
  OBVIOUS
<1>3. \A i \in 1 .. n + 1 : t[i] \in Q
  OBVIOUS
<1> HIDE DEF s, t, Q, y
<1>4. s \in Seq(Q) /\ Len(s) = n
  <2>1. \A i \in 1 .. n : s[i] \in Q
    BY <1>1
  <2> QED
    BY <1>1, <2>1, IndexedIsSeq
<1>5. t \in Seq(Q) /\ Len(t) = n + 1
  BY <1>2, <1>3, IndexedIsSeq
<1>6. t = Append(s, y)
  <2> DEFINE r == Append(s, y)
  <2>1. r \in Seq(Q) /\ Len(r) = Len(s) + 1 /\ r[Len(s) + 1] = y
        /\ \A i \in 1 .. Len(s) : r[i] = s[i]
    <3>1. s \in Seq(Q) /\ y \in Q
      BY <1>1, <1>4
    <3> QED
      BY <3>1
  <2> HIDE DEF r
  <2>2. ASSUME NEW i \in 1 .. n + 1 PROVE t[i] = r[i]
    <3>1. i \in 1 .. n \/ i = n + 1
      OBVIOUS
    <3>2. i \in 1 .. n => t[i] = s[i] /\ r[i] = s[i]
      BY <1>1, <1>2, <1>4, <2>1
    <3>3. r[n + 1] = y
      BY <1>4, <2>1
    <3> QED
      BY <1>2, <3>1, <3>2, <3>3
  <2>3. t = r
    BY <1>4, <1>5, <2>1, <2>2
  <2> QED
    BY <2>3 DEF r
<1>7. FlattenSeq(s) \in Seq(S)
  BY <1>4, FlattenIsSeq DEF Q
<1>8. FlattenSeq(Append(s, y)) = FlattenSeq(s) \o y
  BY <1>1, <1>4, FlattenAppends DEF Q
<1> QED
  BY <1>6, <1>7, <1>8 DEF s, t, y

(* A list of one sequence is joined to that sequence.                      *)
LEMMA FlattenOfOne == ASSUME NEW S, NEW s \in Seq(S) PROVE FlattenSeq(<<s>>) = s
<1>1. FlattenSeq(<<>>) = <<>> /\ <<>> \in Seq(Seq(S)) /\ <<s>> = Append(<<>>, s)
  BY DEF FlattenSeq
<1>2. FlattenSeq(Append(<<>>, s)) = <<>> \o s
  BY <1>1, FlattenAppends
<1> QED
  BY <1>1, <1>2

(* The values of a function over a list, and all of them joined.           *)
Maps(f, A, B) == \A x \in A : f[x] \in B
Each(f, s) == [i \in DOMAIN s |-> f[s[i]]]
Gather(f, s) == FlattenSeq(Each(f, s))

(* The values are a sequence ...                                           *)
LEMMA EachIsSeq ==
  ASSUME NEW A, NEW B, NEW f, Maps(f, A, B), NEW s \in Seq(A)
  PROVE  Each(f, s) \in Seq(B)
<1>1. Len(s) \in Nat /\ DOMAIN s = 1 .. Len(s) /\ \A i \in 1 .. Len(s) : f[s[i]] \in B
  BY DEF Maps
<1>2. Each(f, s) \in [1 .. Len(s) -> B]
  BY <1>1 DEF Each
<1> QED
  BY <1>1, <1>2

(* ... with one value for each element.                                    *)
LEMMA EachOne ==
  ASSUME NEW A, NEW f, NEW s \in Seq(A)
  PROVE  /\ Len(Each(f, s)) = Len(s) /\ Len(s) \in Nat
         /\ \A i \in 1 .. Len(s) : Each(f, s)[i] = f[s[i]]
<1> DEFINE B == {f[s[i]] : i \in DOMAIN s}
<1>1. Len(s) \in Nat /\ DOMAIN s = 1 .. Len(s)
  OBVIOUS
<1>2. Each(f, s) \in [1 .. Len(s) -> B]
  BY <1>1 DEF Each
<1> QED
  BY <1>1, <1>2 DEF Each

(* One more element gives one more value, ...                              *)
LEMMA EachAppends ==
  ASSUME NEW A, NEW B, NEW f, Maps(f, A, B), NEW s \in Seq(A), NEW x \in A
  PROVE  Each(f, Append(s, x)) = Append(Each(f, s), f[x])
<1>1. Append(s, x) \in Seq(A) /\ Len(Append(s, x)) = Len(s) + 1
  OBVIOUS
<1>2. /\ Each(f, s) \in Seq(B) /\ Len(Each(f, s)) = Len(s) /\ Len(s) \in Nat
      /\ \A i \in 1 .. Len(s) : Each(f, s)[i] = f[s[i]]
  BY EachIsSeq, EachOne
<1>3. /\ Each(f, Append(s, x)) \in Seq(B) /\ Len(Each(f, Append(s, x))) = Len(s) + 1
      /\ \A i \in 1 .. Len(s) + 1 : Each(f, Append(s, x))[i] = f[Append(s, x)[i]]
  <2> DEFINE t == Append(s, x)
  <2>1. t \in Seq(A) /\ Len(t) = Len(s) + 1
    BY <1>1
  <2> HIDE DEF t
  <2>2. /\ Each(f, t) \in Seq(B) /\ Len(Each(f, t)) = Len(t)
        /\ \A i \in 1 .. Len(t) : Each(f, t)[i] = f[t[i]]
    BY <2>1, EachIsSeq, EachOne
  <2> QED
    BY <2>1, <2>2, Zenon DEF t
<1>4. Append(Each(f, s), f[x]) \in Seq(B) /\ Len(Append(Each(f, s), f[x])) = Len(s) + 1
  BY <1>2 DEF Maps
<1>5. ASSUME NEW i \in 1 .. Len(s) + 1
      PROVE  Each(f, Append(s, x))[i] = Append(Each(f, s), f[x])[i]
  <2>1. CASE i = Len(s) + 1
    <3>1. Append(s, x)[i] = x /\ Append(Each(f, s), f[x])[i] = f[x]
      BY <1>2, <2>1
    <3> QED
      BY <1>3, <3>1
  <2>2. CASE i # Len(s) + 1
    <3>1. i \in 1 .. Len(s)
      BY <1>2, <2>2
    <3>2. Append(s, x)[i] = s[i] /\ Append(Each(f, s), f[x])[i] = Each(f, s)[i]
      BY <1>2, <3>1
    <3> QED
      BY <1>2, <1>3, <3>1, <3>2
  <2> QED
    BY <2>1, <2>2
<1> QED
  BY <1>3, <1>4, <1>5, SeqEqual

(* ... and joined sequences give joined values.                            *)
LEMMA EachJoins ==
  ASSUME NEW A, NEW B, NEW f, Maps(f, A, B), NEW s \in Seq(A), NEW t \in Seq(A)
  PROVE  Each(f, s \o t) = Each(f, s) \o Each(f, t)
<1> DEFINE T == {u \in Seq(A) : Each(f, s \o u) = Each(f, s) \o Each(f, u)}
<1>1. <<>> \in T
  <2>1. s \o <<>> = s /\ Each(f, <<>>) = <<>> /\ Each(f, s) \in Seq(B)
    BY EachIsSeq DEF Each
  <2> QED
    BY <2>1
<1>2. ASSUME NEW u \in Seq(A), NEW x \in A, u \in T PROVE Append(u, x) \in T
  <2>1. s \o Append(u, x) = Append(s \o u, x) /\ s \o u \in Seq(A) /\ Append(u, x) \in Seq(A)
    BY AppendAfterJoin
  <2>2. Each(f, Append(s \o u, x)) = Append(Each(f, s \o u), f[x])
    <3>1. \A r \in Seq(A) : Each(f, Append(r, x)) = Append(Each(f, r), f[x])
      BY EachAppends
    <3> QED
      BY <2>1, <3>1, Zenon
  <2>3. Each(f, Append(u, x)) = Append(Each(f, u), f[x])
    BY EachAppends
  <2>4. Each(f, s \o u) = Each(f, s) \o Each(f, u)
    BY <1>2
  <2>5. Each(f, s) \in Seq(B) /\ Each(f, u) \in Seq(B) /\ f[x] \in B
    BY EachIsSeq DEF Maps
  <2> HIDE DEF T
  <2>6. Each(f, s) \o Append(Each(f, u), f[x]) = Append(Each(f, s) \o Each(f, u), f[x])
    <3> DEFINE v == Each(f, s)
               w == Each(f, u)
               y == f[x]
    <3>1. v \in Seq(B) /\ w \in Seq(B) /\ y \in B
      BY <2>5
    <3> HIDE DEF v, w, y
    <3>2. v \o Append(w, y) = Append(v \o w, y)
      BY <3>1, AppendAfterJoin
    <3> QED
      BY <3>2 DEF v, w, y
  <2>7. Each(f, s \o Append(u, x)) = Each(f, s) \o Each(f, Append(u, x))
    BY <2>1, <2>2, <2>3, <2>4, <2>6, Zenon
  <2> QED
    BY <2>1, <2>7 DEF T
<1>3. Seq(A) \subseteq T
  <2> HIDE DEF T
  <2> QED
    BY <1>1, <1>2, SeqInduction
<1> QED
  BY <1>3

(* What respects joining two sequences respects joining a list of them.    *)
LEMMA JoinsOverFlatten ==
  ASSUME NEW A, NEW B, NEW h, Maps(h, Seq(A), Seq(B)), h[<<>>] = <<>>,
         \A s, t \in Seq(A) : h[s \o t] = h[s] \o h[t],
         NEW ss \in Seq(Seq(A))
  PROVE  h[FlattenSeq(ss)] = Gather(h, ss)
<1> DEFINE R == Seq(A)
           Q == Seq(B)
           T == {u \in Seq(R) : h[FlattenSeq(u)] = Gather(h, u)}
<1>1. <<>> \in T
  <2>1. FlattenSeq(<<>>) = <<>> /\ Each(h, <<>>) = <<>>
    BY DEF FlattenSeq, Each
  <2>2. <<>> \in Seq(R)
    OBVIOUS
  <2>3. Gather(h, <<>>) = <<>>
    BY <2>1, Zenon DEF Gather
  <2>4. h[FlattenSeq(<<>>)] = Gather(h, <<>>)
    BY <2>1, <2>3, Zenon
  <2> QED
    BY <2>2, <2>4, Zenon
<1>2. ASSUME NEW u \in Seq(R), NEW x \in R, u \in T PROVE Append(u, x) \in T
  <2>1. /\ Each(h, u) \in Seq(Q) /\ h[x] \in Q /\ Append(u, x) \in Seq(R)
        /\ Each(h, Append(u, x)) = Append(Each(h, u), h[x])
    <3> HIDE DEF R, Q, T
    <3>1. Maps(h, R, Q)
      BY DEF R, Q
    <3>2. Each(h, u) \in Seq(Q)
      BY <3>1, EachIsSeq
    <3>3. Each(h, Append(u, x)) = Append(Each(h, u), h[x])
      BY <3>1, EachAppends
    <3> QED
      BY <3>1, <3>2, <3>3 DEF Maps
  <2>2. FlattenSeq(u) \in R
    BY FlattenIsSeq
  <2>3. FlattenSeq(Append(Each(h, u), h[x])) = FlattenSeq(Each(h, u)) \o h[x]
    BY <2>1, FlattenAppends
  <2>4. FlattenSeq(Append(u, x)) = FlattenSeq(u) \o x
    BY FlattenAppends
  <2>5. h[FlattenSeq(u) \o x] = h[FlattenSeq(u)] \o h[x]
    BY <2>2
  <2>6. h[FlattenSeq(u)] = FlattenSeq(Each(h, u))
    BY <1>2 DEF Gather
  <2>7. h[FlattenSeq(Append(u, x))] = FlattenSeq(Each(h, Append(u, x)))
    BY <2>1, <2>3, <2>4, <2>5, <2>6, Zenon
  <2> QED
    BY <2>1, <2>7 DEF Gather
<1>3. Seq(R) \subseteq T
  <2> HIDE DEF T, R, Q
  <2> QED
    BY <1>1, <1>2, SeqInduction
<1> QED
  BY <1>3

(* So it is for the values of a list of sequences.                         *)
LEMMA EachOverFlatten ==
  ASSUME NEW A, NEW B, NEW f, Maps(f, A, B), NEW ss \in Seq(Seq(A))
  PROVE  Each(f, FlattenSeq(ss)) = FlattenSeq([i \in DOMAIN ss |-> Each(f, ss[i])])
<1> DEFINE h == [s \in Seq(A) |-> Each(f, s)]
<1>1. Maps(h, Seq(A), Seq(B)) /\ \A s \in Seq(A) : h[s] = Each(f, s)
  BY EachIsSeq DEF Maps
<1>2. h[<<>>] = <<>> /\ <<>> \in Seq(A)
  BY DEF Each
<1> HIDE DEF h
<1>3. \A s, t \in Seq(A) : h[s \o t] = h[s] \o h[t]
  <2> SUFFICES ASSUME NEW s \in Seq(A), NEW t \in Seq(A) PROVE h[s \o t] = h[s] \o h[t]
    OBVIOUS
  <2>1. s \o t \in Seq(A)
    OBVIOUS
  <2>2. Each(f, s \o t) = Each(f, s) \o Each(f, t)
    BY EachJoins
  <2> QED
    BY <1>1, <2>1, <2>2, Zenon
<1>4. h[FlattenSeq(ss)] = FlattenSeq(Each(h, ss))
  BY <1>1, <1>2, <1>3, JoinsOverFlatten DEF Gather
<1>5. Each(h, ss) = [i \in DOMAIN ss |-> Each(f, ss[i])]
  BY <1>1 DEF Each
<1> QED
  BY <1>1, <1>4, <1>5, FlattenIsSeq

(* Gathered sequences are a sequence.                                      *)
LEMMA GatherIsSeq ==
  ASSUME NEW A, NEW B, NEW f, Maps(f, A, Seq(B)), NEW s \in Seq(A)
  PROVE  Gather(f, s) \in Seq(B)
<1>1. Each(f, s) \in Seq(Seq(B))
  BY EachIsSeq
<1> QED
  BY <1>1, FlattenIsSeq DEF Gather

(* What two joined sequences gather is what each gathers.                  *)
LEMMA GatherJoins ==
  ASSUME NEW A, NEW B, NEW f, Maps(f, A, Seq(B)), NEW s \in Seq(A), NEW t \in Seq(A)
  PROVE  Gather(f, s \o t) = Gather(f, s) \o Gather(f, t)
<1>1. Each(f, s) \in Seq(Seq(B)) /\ Each(f, t) \in Seq(Seq(B))
  BY EachIsSeq
<1>2. Each(f, s \o t) = Each(f, s) \o Each(f, t)
  BY EachJoins
<1>3. FlattenSeq(Each(f, s) \o Each(f, t)) = FlattenSeq(Each(f, s)) \o FlattenSeq(Each(f, t))
  BY <1>1, FlattenJoins
<1> QED
  BY <1>2, <1>3, Zenon DEF Gather

(* Nothing gathers nothing, ...                                            *)
LEMMA GatherOfNone == ASSUME NEW f PROVE Gather(f, <<>>) = <<>>
<1>1. Each(f, <<>>) = <<>> /\ FlattenSeq(<<>>) = <<>>
  BY DEF Each, FlattenSeq
<1> QED
  BY <1>1, Zenon DEF Gather

(* ... one element gathers its value.                                      *)
LEMMA GatherOfOne ==
  ASSUME NEW A, NEW B, NEW f, Maps(f, A, Seq(B)), NEW x \in A
  PROVE  Gather(f, <<x>>) = f[x]
<1>1. Each(f, <<x>>) = <<f[x]>>
  BY DEF Each
<1>2. FlattenSeq(<<f[x]>>) = f[x]
  BY FlattenOfOne DEF Maps
<1> QED
  BY <1>1, <1>2, Zenon DEF Gather

(* So it is for a list of sequences.                                       *)
LEMMA GatherOverFlatten ==
  ASSUME NEW A, NEW B, NEW f, Maps(f, A, Seq(B)), NEW ss \in Seq(Seq(A))
  PROVE  Gather(f, FlattenSeq(ss)) = FlattenSeq([i \in DOMAIN ss |-> Gather(f, ss[i])])
<1> DEFINE h == [s \in Seq(A) |-> Gather(f, s)]
<1>1. Maps(h, Seq(A), Seq(B)) /\ \A s \in Seq(A) : h[s] = Gather(f, s)
  BY GatherIsSeq DEF Maps
<1>2. h[<<>>] = <<>>
  BY <1>1, GatherOfNone
<1> HIDE DEF h
<1>3. \A s, t \in Seq(A) : h[s \o t] = h[s] \o h[t]
  <2> SUFFICES ASSUME NEW s \in Seq(A), NEW t \in Seq(A) PROVE h[s \o t] = h[s] \o h[t]
    OBVIOUS
  <2>1. s \o t \in Seq(A)
    OBVIOUS
  <2>2. Gather(f, s \o t) = Gather(f, s) \o Gather(f, t)
    BY GatherJoins
  <2> QED
    BY <1>1, <2>1, <2>2, Zenon
<1>4. h[FlattenSeq(ss)] = FlattenSeq(Each(h, ss))
  BY <1>1, <1>2, <1>3, JoinsOverFlatten DEF Gather
<1>5. Each(h, ss) = [i \in DOMAIN ss |-> Gather(f, ss[i])]
  BY <1>1 DEF Each
<1> QED
  BY <1>1, <1>4, <1>5, FlattenIsSeq

(* Joining is associative.                                                 *)
LEMMA JoinsAssociate ==
  ASSUME NEW S, NEW s \in Seq(S), NEW t \in Seq(S), NEW u \in Seq(S)
  PROVE  (s \o t) \o u = s \o (t \o u)
OBVIOUS

(* What is joined to a sequence is joined to its rest.                     *)
LEMMA RestOfJoin ==
  ASSUME NEW S, NEW s \in Seq(S), NEW t \in Seq(S), NEW k \in 1 .. Len(s) + 1
  PROVE  SubSeq(s, k, Len(s)) \o t = SubSeq(s \o t, k, Len(s \o t))
<1> DEFINE a == SubSeq(s, k, Len(s))
           u == s \o t
           b == SubSeq(u, k, Len(u))
<1>1. /\ Len(s) \in Nat /\ Len(t) \in Nat /\ u \in Seq(S) /\ Len(u) = Len(s) + Len(t)
      /\ \A i \in 1 .. Len(s) : u[i] = s[i]
      /\ \A i \in 1 .. Len(t) : u[Len(s) + i] = t[i]
  OBVIOUS
<1>2. /\ a \in Seq(S) /\ Len(a) = Len(s) + 1 - k
      /\ \A i \in 1 .. Len(a) : a[i] = s[k + i - 1]
  BY <1>1
<1> HIDE DEF u
<1>3. /\ b \in Seq(S) /\ Len(b) = Len(u) + 1 - k
      /\ \A i \in 1 .. Len(b) : b[i] = u[k + i - 1]
  BY <1>1
<1> DEFINE c == a \o t
<1> HIDE DEF a, b
<1>4. /\ c \in Seq(S) /\ Len(c) = Len(a) + Len(t)
      /\ \A i \in 1 .. Len(a) : c[i] = a[i]
      /\ \A i \in 1 .. Len(t) : c[Len(a) + i] = t[i]
  <2>1. a \in Seq(S)
    BY <1>2
  <2> QED
    BY <2>1
<1> HIDE DEF c
<1>5. ASSUME NEW i \in 1 .. Len(b) PROVE b[i] = c[i]
  <2>1. CASE i <= Len(a)
    <3> DEFINE j == k + i - 1
    <3>1. j \in 1 .. Len(s) /\ i \in 1 .. Len(a)
      BY <1>1, <1>2, <1>3, <2>1
    <3>2. a[i] = s[j] /\ b[i] = u[j]
      BY <1>2, <1>3, <3>1
    <3> HIDE DEF j
    <3>3. u[j] = s[j] /\ c[i] = a[i]
      BY <1>1, <1>4, <3>1
    <3> QED
      BY <3>2, <3>3
  <2>2. CASE i > Len(a)
    <3> DEFINE j == i - Len(a)
    <3>1. j \in 1 .. Len(t) /\ i = Len(a) + j /\ k + i - 1 = Len(s) + j
      BY <1>1, <1>2, <1>3, <2>2
    <3> HIDE DEF j
    <3>2. c[i] = t[j] /\ u[k + i - 1] = t[j]
      BY <1>1, <1>4, <3>1
    <3> QED
      BY <1>3, <3>2
  <2> QED
    BY <1>2, <2>1, <2>2
<1>6. Len(b) = Len(c)
  BY <1>1, <1>2, <1>3, <1>4
<1>7. b = c
  <2>1. b \in Seq(S) /\ c \in Seq(S)
    BY <1>3, <1>4
  <2> QED
    BY <1>5, <1>6, <2>1
<1> QED
  BY <1>7 DEF a, b, c, u

(* The rest of a sequence starts with its first, and goes on with the rest *)
(* after it.                                                               *)
LEMMA RestStarts ==
  ASSUME NEW S, NEW s \in Seq(S), NEW k \in 1 .. Len(s)
  PROVE  /\ s[k] \in S /\ Head(SubSeq(s, k, Len(s))) = s[k]
         /\ Tail(SubSeq(s, k, Len(s))) = SubSeq(s, k + 1, Len(s))
         /\ SubSeq(s, k + 1, Len(s)) \in Seq(S)
<1>1. Len(s) \in Nat /\ k \in Nat
  OBVIOUS
<1> QED
  BY <1>1

(* The first of two joined sequences is a prefix, ...                      *)
LEMMA PrefixOfJoin ==
  ASSUME NEW S, NEW s \in Seq(S), NEW t \in Seq(S)
  PROVE  IsPrefix(s, s \o t)
<1>1. /\ s \o t \in Seq(S) /\ Len(s \o t) = Len(s) + Len(t) /\ Len(s) \in Nat /\ Len(t) \in Nat
      /\ \A i \in 1 .. Len(s) : (s \o t)[i] = s[i]
  OBVIOUS
<1> DEFINE u == s \o t
<1> HIDE DEF u
<1>2. SubSeq(u, 1, Len(s)) = SubSeq(s, 1, Len(s))
  BY <1>1 DEF u
<1> QED
  BY <1>1, <1>2 DEF IsPrefix, u

(* ... the second a suffix.                                                *)
LEMMA SuffixOfJoin ==
  ASSUME NEW S, NEW s \in Seq(S), NEW t \in Seq(S)
  PROVE  IsSuffix(t, s \o t)
<1>1. /\ Len(s \o t) = Len(s) + Len(t) /\ Len(s) \in Nat /\ Len(t) \in Nat
      /\ s \o t \in Seq(S)
      /\ \A i \in 1 .. Len(t) : (s \o t)[Len(s) + i] = t[i]
  OBVIOUS
<1> DEFINE u == s \o t
           a == Reverse(t)
           b == Reverse(u)
<1>2. a = [i \in 1 .. Len(t) |-> t[Len(t) - i + 1]] /\ b = [i \in 1 .. Len(u) |-> u[Len(u) - i + 1]]
  BY DEF Reverse
<1> HIDE DEF u, a, b
<1>3. a \in Seq(S) /\ b \in Seq(S) /\ Len(a) = Len(t) /\ Len(b) = Len(s) + Len(t)
  BY <1>1, <1>2 DEF u
<1>4. \A i \in 1 .. Len(t) : a[i] = b[i]
  <2> SUFFICES ASSUME NEW i \in 1 .. Len(t) PROVE a[i] = b[i]
    OBVIOUS
  <2>1. Len(t) - i + 1 \in 1 .. Len(t) /\ Len(s) + (Len(t) - i + 1) = Len(u) - i + 1
    BY <1>1 DEF u
  <2>2. u[Len(u) - i + 1] = t[Len(t) - i + 1]
    BY <1>1, <2>1 DEF u
  <2>3. i \in 1 .. Len(u)
    BY <1>1 DEF u
  <2> QED
    BY <1>2, <2>2, <2>3
<1>5. SubSeq(b, 1, Len(t)) = SubSeq(a, 1, Len(t))
  BY <1>1, <1>3, <1>4
<1>6. IsPrefix(a, b)
  BY <1>1, <1>3, <1>5 DEF IsPrefix
<1> QED
  BY <1>6 DEF IsSuffix, a, b, u

-----------------------------------------------------------------------------
(* The elements of R with their ranks in a relation E, and a list that E   *)
(* sorts.                                                                  *)
Rank(R, E, r) == Cardinality({s \in R : <<s, r>> \in E})
Orders(R, E) ==
  /\ \A r \in R : ~(<<r, r>> \in E)
  /\ \A r, s \in R : r # s => <<r, s>> \in E \/ <<s, r>> \in E
  /\ \A r, s, t \in R : <<r, s>> \in E /\ <<s, t>> \in E => <<r, t>> \in E
Sorted(l, E) == \A i, j \in DOMAIN l : i < j => <<l[i], l[j]>> \in E

(* The ranks of n elements in a total order are 0 .. n - 1.                *)
LEMMA RanksAreApart ==
  ASSUME NEW R, IsFiniteSet(R), NEW E, Orders(R, E)
  PROVE  /\ \A r \in R : Rank(R, E, r) \in 0 .. Cardinality(R) - 1
         /\ \A r, s \in R : <<r, s>> \in E => Rank(R, E, r) < Rank(R, E, s)
         /\ \A r, s \in R : Rank(R, E, r) = Rank(R, E, s) => r = s
<1> DEFINE Lower(r) == {s \in R : <<s, r>> \in E}
<1>1. \A r \in R : IsFiniteSet(Lower(r)) /\ Lower(r) \in SUBSET R /\ r \notin Lower(r)
  BY FS_Subset DEF Orders
<1>2. ASSUME NEW S \in SUBSET R, NEW r \in R, r \notin S
      PROVE  /\ IsFiniteSet(S) /\ Cardinality(S) \in Nat /\ Cardinality(S \cup {r}) = Cardinality(S) + 1
             /\ S \cup {r} \in SUBSET R
  BY <1>2, FS_Subset, FS_AddElement, FS_CardinalityType
<1>3. ASSUME NEW r \in R PROVE Rank(R, E, r) \in 0 .. Cardinality(R) - 1
  <2>1. Cardinality(Lower(r) \cup {r}) <= Cardinality(R) /\ Cardinality(R) \in Nat
    BY <1>1, <1>2, FS_Subset, FS_CardinalityType
  <2>2. Cardinality(Lower(r) \cup {r}) = Rank(R, E, r) + 1 /\ Rank(R, E, r) \in Nat
    BY <1>1, <1>2 DEF Rank
  <2> QED
    BY <2>1, <2>2
<1>4. ASSUME NEW r \in R, NEW s \in R, <<r, s>> \in E
      PROVE  Rank(R, E, r) < Rank(R, E, s)
  <2>1. Lower(r) \cup {r} \subseteq Lower(s)
    BY <1>4 DEF Orders
  <2>2. Cardinality(Lower(r) \cup {r}) <= Cardinality(Lower(s))
    BY <1>1, <2>1, FS_Subset
  <2>3. Cardinality(Lower(r) \cup {r}) = Rank(R, E, r) + 1 /\ Rank(R, E, r) \in Nat
    BY <1>1, <1>2 DEF Rank
  <2>4. Cardinality(Lower(s)) = Rank(R, E, s) /\ Rank(R, E, s) \in Nat
    BY <1>1, <1>2 DEF Rank
  <2> QED
    BY <2>2, <2>3, <2>4
<1>5. ASSUME NEW r \in R, NEW s \in R, Rank(R, E, r) = Rank(R, E, s), r # s PROVE FALSE
  <2>1. Rank(R, E, r) < Rank(R, E, s) \/ Rank(R, E, s) < Rank(R, E, r)
    BY <1>4, <1>5 DEF Orders
  <2>2. Rank(R, E, r) \in Nat
    BY <1>3
  <2> QED
    BY <1>5, <2>1, <2>2
<1> QED
  BY <1>3, <1>4, <1>5

(* So there is an element of every rank, ...                               *)
LEMMA EveryRankIsTaken ==
  ASSUME NEW R, IsFiniteSet(R), NEW E, Orders(R, E), NEW k \in 1 .. Cardinality(R)
  PROVE  \E r \in R : Rank(R, E, r) = k - 1
<1> DEFINE n == Cardinality(R)
           f == [r \in R |-> Rank(R, E, r) + 1]
<1>1. n \in Nat
  BY FS_CardinalityType
<1>2. f \in [R -> 1 .. n] /\ \A r \in R : f[r] = Rank(R, E, r) + 1
  BY <1>1, RanksAreApart
<1> HIDE DEF f
<1>3. ASSUME NEW r \in R, NEW s \in R, f[r] = f[s] PROVE r = s
  <2>1. Rank(R, E, r) = Rank(R, E, s)
    BY <1>1, <1>2, <1>3, RanksAreApart
  <2> QED
    BY <2>1, RanksAreApart
<1>4. f \in Injection(R, 1 .. n)
  BY <1>2, <1>3 DEF Injection, IsInjective
<1>5. IsFiniteSet(1 .. n) /\ Cardinality(1 .. n) = n
  BY <1>1, FS_Interval
<1>6. f \in Surjection(R, 1 .. n)
  BY <1>4, <1>5, FS_Injection
<1>7. \E r \in R : f[r] = k
  BY <1>6 DEF Surjection
<1> QED
  BY <1>1, <1>2, <1>7, RanksAreApart

(* ... and the list of the ranks is sorted.                                *)
LEMMA RankedIsSorted ==
  ASSUME NEW R, IsFiniteSet(R), NEW E, Orders(R, E),
         NEW l, l = [k \in 1 .. Cardinality(R) |-> CHOOSE r \in R : Rank(R, E, r) = k - 1]
  PROVE  /\ l \in [1 .. Cardinality(R) -> R] /\ Sorted(l, E)
         /\ \A k \in 1 .. Cardinality(R) : Rank(R, E, l[k]) = k - 1
<1> DEFINE n == Cardinality(R)
<1>1. n \in Nat
  BY FS_CardinalityType
<1>2. \A k \in 1 .. n : l[k] = CHOOSE r \in R : Rank(R, E, r) = k - 1
  BY Zenon
<1>3. ASSUME NEW k \in 1 .. n PROVE l[k] \in R /\ Rank(R, E, l[k]) = k - 1
  BY <1>2, EveryRankIsTaken, Zenon
<1>4. l \in [1 .. n -> R]
  BY <1>3
<1>5. ASSUME NEW i \in 1 .. n, NEW j \in 1 .. n, i < j PROVE <<l[i], l[j]>> \in E
  <2>1. Rank(R, E, l[i]) = i - 1 /\ Rank(R, E, l[j]) = j - 1 /\ l[i] \in R /\ l[j] \in R
    BY <1>3
  <2>2. l[i] # l[j] /\ ~(Rank(R, E, l[j]) < Rank(R, E, l[i]))
    BY <1>1, <1>5, <2>1
  <2>3. ~(<<l[j], l[i]>> \in E)
    BY <2>1, <2>2, RanksAreApart
  <2> QED
    BY <2>1, <2>2, <2>3 DEF Orders
<1> QED
  BY <1>3, <1>4, <1>5 DEF Sorted

(* No other list is sorted.                                                *)
LEMMA SortedIsRanked ==
  ASSUME NEW R, IsFiniteSet(R), NEW E, Orders(R, E),
         NEW l \in [1 .. Cardinality(R) -> R], Sorted(l, E)
  PROVE  l = [k \in 1 .. Cardinality(R) |-> CHOOSE r \in R : Rank(R, E, r) = k - 1]
<1> DEFINE n == Cardinality(R)
           rank == [k \in 1 .. n |-> Rank(R, E, l[k])]
<1>1. n \in Nat
  BY FS_CardinalityType
<1>2. \A k \in 1 .. n : rank[k] = Rank(R, E, l[k]) /\ rank[k] \in 0 .. n - 1
  BY RanksAreApart
<1>3. \A k \in 1 .. n - 1 : rank[k] < rank[k + 1]
  <2> SUFFICES ASSUME NEW k \in 1 .. n - 1 PROVE rank[k] < rank[k + 1]
    OBVIOUS
  <2>1. k \in 1 .. n /\ k + 1 \in 1 .. n /\ k < k + 1
    BY <1>1
  <2>2. <<l[k], l[k + 1]>> \in E /\ l[k] \in R /\ l[k + 1] \in R
    BY <2>1 DEF Sorted
  <2> QED
    BY <1>2, <2>1, <2>2, RanksAreApart
<1> HIDE DEF rank, n
<1> DEFINE Up == {k \in Nat : k \in 1 .. n => rank[k] >= k - 1}
           Down == {d \in Nat : n - d \in 1 .. n => rank[n - d] <= n - d - 1}
<1>4. Nat \subseteq Up
  <2>1. 0 \in Up
    OBVIOUS
  <2>2. ASSUME NEW k \in Nat, k \in Up PROVE k + 1 \in Up
    <3> SUFFICES ASSUME k + 1 \in 1 .. n PROVE rank[k + 1] >= k + 1 - 1
      OBVIOUS
    <3>1. rank[k + 1] \in 0 .. n - 1
      BY <1>2
    <3>2. CASE k = 0
      BY <1>1, <3>1, <3>2
    <3>3. CASE k # 0
      <4>1. k \in 1 .. n - 1 /\ k \in 1 .. n
        BY <1>1, <3>3
      <4>2. rank[k] >= k - 1 /\ rank[k] < rank[k + 1] /\ rank[k] \in 0 .. n - 1
        BY <1>2, <1>3, <2>2, <4>1
      <4> QED
        BY <1>1, <3>1, <4>2
    <3> QED
      BY <3>2, <3>3
  <2> HIDE DEF Up
  <2> QED
    BY <2>1, <2>2, Induction
<1>5. Nat \subseteq Down
  <2>1. 0 \in Down
    BY <1>1, <1>2
  <2>2. ASSUME NEW d \in Nat, d \in Down PROVE d + 1 \in Down
    <3> SUFFICES ASSUME n - (d + 1) \in 1 .. n PROVE rank[n - (d + 1)] <= n - (d + 1) - 1
      OBVIOUS
    <3> DEFINE k == n - (d + 1)
    <3>1. k \in 1 .. n /\ k \in 1 .. n - 1 /\ k + 1 = n - d /\ k + 1 \in 1 .. n
      BY <1>1
    <3> HIDE DEF k
    <3>2. rank[k] < rank[k + 1] /\ rank[k] \in 0 .. n - 1 /\ rank[k + 1] \in 0 .. n - 1
      BY <1>2, <1>3, <3>1
    <3>3. rank[k + 1] <= k
      BY <1>1, <2>2, <3>1
    <3>4. rank[k] <= k - 1
      BY <1>1, <3>1, <3>2, <3>3
    <3> QED
      BY <3>4 DEF k
  <2> HIDE DEF Down
  <2> QED
    BY <2>1, <2>2, Induction
<1>6. ASSUME NEW k \in 1 .. n PROVE Rank(R, E, l[k]) = k - 1 /\ l[k] \in R
  <2>1. k \in Up /\ n - k \in Down
    <3> HIDE DEF Up, Down
    <3> QED
      BY <1>1, <1>4, <1>5
  <2>2. rank[k] >= k - 1 /\ rank[k] <= k - 1
    BY <1>1, <2>1
  <2> QED
    BY <1>2, <2>2 DEF n
<1>7. ASSUME NEW k \in 1 .. n PROVE l[k] = CHOOSE r \in R : Rank(R, E, r) = k - 1
  <2>1. \A r \in R : Rank(R, E, r) = k - 1 => r = l[k]
    BY <1>6, RanksAreApart
  <2> QED
    BY <1>6, <2>1
<1> QED
  BY <1>7 DEF n
=============================================================================
