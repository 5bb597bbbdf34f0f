---------------------------- MODULE ChatDataProofs ----------------------------
(***************************************************************************)
(* What Boat Chat computes, for every value of the constants: the lines of *)
(* a document that the memory index finds, for documents of any length;    *)
(* the engine summaries of a window, for any rows and bands; the path from *)
(* a question to an answer, for any records, sizes and providers; and the  *)
(* solar bookkeeping, for any observations, windows and interleaving of    *)
(* its two jobs.                                                           *)
(*                                                                         *)
(* These are facts about data: they rest on induction over the numbers and *)
(* over finite sets, stated here with sets, for no prover can instantiate  *)
(* an induction theorem that takes an operator.                            *)
(***************************************************************************)
EXTENDS MemoryIndex, EngineHistory, ChatAnswer, PowerTracking, FiniteSetTheorems, WellFoundedInduction, TLAPS

-----------------------------------------------------------------------------
(* Induction: a set of natural numbers has a least one; a property of the    *)
(* empty set that one more element keeps is a property of every finite set.  *)

\* A set of natural numbers has a least one.
LEMMA LeastNat ==
  ASSUME NEW T \in SUBSET Nat, T # {}
  PROVE  \E x \in T : \A y \in T : x <= y
  <1> DEFINE R == {ss \in Nat \X Nat : ss[1] < ss[2]}
  <1>1. R = OpToRel(<, Nat) BY DEF OpToRel
  <1>2. IsWellFoundedOn(R, Nat) BY <1>1, NatLessThanWellFounded
  <1> HIDE DEF R
  <1>3. PICK x \in T : \A y \in T : ~ (<<y, x>> \in R) BY <1>2, WFMin
  <1> USE DEF R
  <1>4. \A y \in T : ~ (y < x) BY <1>3
  <1> QED BY <1>4

\* What holds of 0 and of the successor holds of every natural number.
LEMMA NatSteps ==
  ASSUME NEW U, 0 \in U, \A n \in Nat : n \in U => n + 1 \in U
  PROVE  Nat \subseteq U
  <1> SUFFICES ASSUME Nat \ U # {} PROVE FALSE OBVIOUS
  <1>1. PICK n \in Nat \ U : \A m \in Nat \ U : n <= m BY LeastNat
  <1>2. n # 0 /\ n - 1 \in Nat /\ (n - 1) + 1 = n BY <1>1
  <1>3. n - 1 \in U BY <1>1, <1>2
  <1> QED BY <1>1, <1>2, <1>3

\* What holds of {} and of a set with one element more holds of every finite set.
LEMMA FiniteSteps ==
  ASSUME NEW S, IsFiniteSet(S), NEW U, {} \in U,
         \A T \in SUBSET S : \A x \in S \ T : T \in U => T \cup {x} \in U
  PROVE  S \in U
  <1> DEFINE Left == {Cardinality(S \ T) : T \in U \cap SUBSET S}
  <1>1. \A T \in SUBSET S : IsFiniteSet(S \ T) /\ Cardinality(S \ T) \in Nat
    BY FS_Subset, FS_CardinalityType
  <1>2. Left \in SUBSET Nat /\ Left # {} BY <1>1
  <1>3. PICK n \in Left : \A m \in Left : n <= m BY <1>2, LeastNat
  <1>4. PICK T \in U \cap SUBSET S : n = Cardinality(S \ T) BY <1>3
  <1>5. CASE S \ T = {}
    <2>1. T = S BY <1>5
    <2> QED BY <2>1
  <1>6. CASE S \ T # {}
    <2>1. PICK x \in S \ T : TRUE BY <1>6
    <2>2. T \cup {x} \in U \cap SUBSET S BY <2>1
    <2>3. Cardinality(S \ (T \cup {x})) \in Left BY <2>2
    <2>4. (S \ T) \ {x} = S \ (T \cup {x}) OBVIOUS
    <2>5. Cardinality((S \ T) \ {x}) = n - 1 BY <1>1, <1>4, <2>1, FS_RemoveElement
    <2>6. n \in Nat BY <1>2
    <2>7. n - 1 \in Left BY <2>3, <2>4, <2>5
    <2> HIDE DEF Left
    <2> QED BY <1>3, <2>6, <2>7
  <1> QED BY <1>5, <1>6

-----------------------------------------------------------------------------
(* Sums over a finite set.                                                   *)

\* What the community modules' SumFunctionOnSet(f, S) chooses: the sums of all subsets of S.
SumStep(f, g, s) == IF s = {} THEN 0 ELSE f[CHOOSE y \in s : TRUE] + g[s \ {CHOOSE y \in s : TRUE}]
Ints(f, S) == \A x \in S : f[x] \in Int
IsSum(f, S, g) == g = [s \in SUBSET S |-> SumStep(f, g, s)]

LEMMA SumFolds ==
  ASSUME NEW f, NEW S
  PROVE  SumFunctionOnSet(f, S) = (CHOOSE g : IsSum(f, S, g))[S]
  BY DEF SumFunctionOnSet, FoldFunctionOnSet, MapThenFoldSet, IsSum, SumStep

LEMMA SumExists ==
  ASSUME NEW f, NEW S, IsFiniteSet(S)
  PROVE  \E g : IsSum(f, S, g)
  <1> DEFINE Small(n) == {s \in SUBSET S : Cardinality(s) <= n}
             Solved(n) == \E g : g = [s \in Small(n) |-> SumStep(f, g, s)]
             Good == {n \in Nat : Solved(n)}
  <1>1. \A s \in SUBSET S : IsFiniteSet(s) /\ Cardinality(s) \in Nat /\ Cardinality(s) <= Cardinality(S)
    BY FS_Subset, FS_CardinalityType
  <1>2. 0 \in Good
    <2> DEFINE g == [s \in Small(0) |-> 0]
    <2>1. \A s \in Small(0) : s = {} BY <1>1, FS_EmptySet
    <2>2. g = [s \in Small(0) |-> SumStep(f, g, s)] BY <2>1 DEF SumStep
    <2> QED BY <2>2
  <1>3. ASSUME NEW n \in Nat, n \in Good PROVE n + 1 \in Good
    <2>1. PICK g : g = [s \in Small(n) |-> SumStep(f, g, s)] BY <1>3
    <2> DEFINE h == [s \in Small(n + 1) |-> SumStep(f, g, s)]
    <2>2. ASSUME NEW s \in Small(n + 1), s # {} PROVE SumStep(f, g, s) = SumStep(f, h, s)
      <3> DEFINE x == CHOOSE y \in s : TRUE
                 r == s \ {x}
      <3>1. x \in s BY <2>2
      <3>2. r \in SUBSET S /\ Cardinality(r) = Cardinality(s) - 1 BY <1>1, <3>1, FS_RemoveElement
      <3>3. r \in Small(n) /\ r \in Small(n + 1) BY <1>1, <3>2
      <3>4. g[r] = SumStep(f, g, r) BY <2>1, <3>3
      <3>5. h[r] = g[r] BY <3>3, <3>4
      <3> QED BY <2>2, <3>5 DEF SumStep
    <2>3. \A s : s = {} => SumStep(f, g, s) = SumStep(f, h, s) BY DEF SumStep
    <2>4. h = [s \in Small(n + 1) |-> SumStep(f, h, s)] BY <2>2, <2>3
    <2>5. Solved(n + 1)
      <3> HIDE DEF h, Small
      <3> QED BY <2>4
    <2> HIDE DEF Solved
    <2> QED BY <2>5
  <1> HIDE DEF Good
  <1>4. Nat \subseteq Good BY <1>2, <1>3, NatSteps
  <1>5. Cardinality(S) \in Good BY <1>1, <1>4
  <1>6. Small(Cardinality(S)) = SUBSET S BY <1>1
  <1> USE DEF Good
  <1> QED BY <1>5, <1>6 DEF IsSum

LEMMA SumRemoves ==
  ASSUME NEW f, NEW S, IsFiniteSet(S), NEW g, IsSum(f, S, g), Ints(f, S)
  PROVE  \A T \in SUBSET S : g[T] \in Int /\ \A x \in T : g[T] = f[x] + g[T \ {x}]
  <1> DEFINE Right(T) == g[T] \in Int /\ \A x \in T : g[T] = f[x] + g[T \ {x}]
             Good == {n \in Nat : \A T \in SUBSET S : Cardinality(T) <= n => Right(T)}
  <1>1. \A s \in SUBSET S : IsFiniteSet(s) /\ Cardinality(s) \in Nat /\ Cardinality(s) <= Cardinality(S)
    BY FS_Subset, FS_CardinalityType
  <1>2. 0 \in Good
    <2>1. \A T \in SUBSET S : Cardinality(T) <= 0 => T = {} BY <1>1, FS_EmptySet
    <2>2. g[{}] = 0 BY DEF IsSum, SumStep
    <2>3. Right({}) BY <2>2
    <2> HIDE DEF Right
    <2> QED BY <2>1, <2>3
  <1>3. ASSUME NEW n \in Nat, n \in Good PROVE n + 1 \in Good
    <2> SUFFICES ASSUME NEW T \in SUBSET S, Cardinality(T) <= n + 1, T # {} PROVE Right(T)
      BY <1>1, <1>2, FS_EmptySet
    <2> DEFINE c == CHOOSE y \in T : TRUE
    <2>1. c \in T /\ f[c] \in Int BY DEF Ints
    <2>2. ASSUME NEW x \in T PROVE T \ {x} \in SUBSET S /\ Cardinality(T \ {x}) <= n /\ Right(T \ {x})
      <3>1. Cardinality(T \ {x}) = Cardinality(T) - 1 BY <1>1, FS_RemoveElement
      <3>2. T \ {x} \in SUBSET S /\ Cardinality(T) \in Nat BY <1>1
      <3>3. Cardinality(T \ {x}) <= n BY <3>1, <3>2
      <3> HIDE DEF Right
      <3> QED BY <1>3, <3>2, <3>3
    <2>3. g[T] = f[c] + g[T \ {c}] BY DEF IsSum, SumStep
    <2>4. g[T] \in Int
      <3>1. g[T \ {c}] \in Int BY <2>1, <2>2
      <3> QED BY <2>1, <2>3, <3>1
    <2>5. ASSUME NEW x \in T, x # c PROVE g[T] = f[x] + g[T \ {x}]
      <3>1. x \in T \ {c} /\ c \in T \ {x} /\ (T \ {c}) \ {x} = (T \ {x}) \ {c} BY <2>1, <2>5
      <3>2. g[T \ {c}] = f[x] + g[(T \ {c}) \ {x}] BY <2>1, <2>2, <3>1
      <3>3. g[T \ {x}] = f[c] + g[(T \ {x}) \ {c}] BY <2>2, <3>1
      <3>4. (T \ {x}) \ {c} \in SUBSET S /\ Cardinality((T \ {x}) \ {c}) <= n
        <4>1. Cardinality((T \ {x}) \ {c}) = Cardinality(T \ {x}) - 1 BY <1>1, <2>2, <3>1, FS_RemoveElement
        <4>2. Cardinality(T \ {x}) \in Nat /\ Cardinality(T \ {x}) <= n BY <1>1, <2>2
        <4> QED BY <4>1, <4>2
      <3>5. g[(T \ {x}) \ {c}] \in Int BY <1>3, <3>4
      <3>6. f[x] \in Int BY DEF Ints
      <3> QED BY <2>1, <2>3, <3>1, <3>2, <3>3, <3>5, <3>6
    <2> QED BY <2>3, <2>4, <2>5
  <1> HIDE DEF Good
  <1>4. Nat \subseteq Good BY <1>2, <1>3, NatSteps
  <1> USE DEF Good
  <1> QED BY <1>1, <1>4

LEMMA SumOfSubset ==
  ASSUME NEW f, NEW S, IsFiniteSet(S), NEW g, IsSum(f, S, g), NEW T \in SUBSET S
  PROVE  SumFunctionOnSet(f, T) = g[T]
  <1>1. IsFiniteSet(T) BY FS_Subset
  <1>2. PICK h : h = (CHOOSE j : IsSum(f, T, j)) /\ IsSum(f, T, h) BY <1>1, SumExists
  <1> DEFINE Bad == {s \in SUBSET T : g[s] # h[s]}
             Gone == {Cardinality(s) : s \in Bad}
  <1>3. \A s \in SUBSET T : IsFiniteSet(s) /\ Cardinality(s) \in Nat BY <1>1, FS_Subset, FS_CardinalityType
  <1>4. ASSUME Gone # {} PROVE FALSE
    <2>0. Gone \in SUBSET Nat BY <1>3
    <2>1. PICK n \in Gone : \A m \in Gone : n <= m BY <2>0, <1>4, LeastNat
    <2>2. PICK s \in Bad : n = Cardinality(s) BY <2>1
    <2> DEFINE c == CHOOSE y \in s : TRUE
               r == s \ {c}
    <2>3. g[s] = SumStep(f, g, s) /\ h[s] = SumStep(f, h, s) BY <1>2 DEF IsSum
    <2>4. s # {} BY <2>2, <2>3 DEF SumStep
    <2>5. c \in s /\ r \in SUBSET T /\ Cardinality(r) = n - 1 BY <1>3, <2>2, <2>4, FS_RemoveElement
    <2>6. n \in Nat BY <1>3, <2>2
    <2>7. g[r] = h[r]
      <3> SUFFICES ASSUME r \in Bad PROVE FALSE BY <2>5
      <3>1. n - 1 \in Gone BY <2>5
      <3> QED BY <2>1, <2>6, <3>1
    <2> QED BY <2>2, <2>3, <2>4, <2>7 DEF SumStep
  <1>5. g[T] = h[T] BY <1>4
  <1> QED BY <1>2, <1>5, SumFolds

LEMMA SumEmpty == ASSUME NEW f PROVE SumFunctionOnSet(f, {}) = 0
  <1>1. PICK g : IsSum(f, {}, g) BY SumExists, FS_EmptySet
  <1>2. SumFunctionOnSet(f, {}) = g[{}] BY <1>1, SumOfSubset, FS_EmptySet
  <1> QED BY <1>1, <1>2 DEF IsSum, SumStep

LEMMA SumRemove ==
  ASSUME NEW f, NEW S, IsFiniteSet(S), Ints(f, S)
  PROVE  /\ SumFunctionOnSet(f, S) \in Int
         /\ \A x \in S : SumFunctionOnSet(f, S) = f[x] + SumFunctionOnSet(f, S \ {x})
  <1>1. PICK g : IsSum(f, S, g) BY SumExists
  <1>2. \A T \in SUBSET S : SumFunctionOnSet(f, T) = g[T] BY <1>1, SumOfSubset
  <1>5. S \in SUBSET S OBVIOUS
  <1>6. \A T \in SUBSET S : g[T] \in Int /\ \A x \in T : g[T] = f[x] + g[T \ {x}] BY <1>1, SumRemoves
  <1>3. g[S] \in Int /\ \A x \in S : g[S] = f[x] + g[S \ {x}] BY <1>5, <1>6
  <1>4. \A x \in S : S \ {x} \in SUBSET S OBVIOUS
  <1> QED BY <1>2, <1>3, <1>4, <1>5

\* One element more, one term more.
LEMMA SumGrows ==
  ASSUME NEW f, NEW S, IsFiniteSet(S), Ints(f, S), NEW T \in SUBSET S
  PROVE  /\ SumFunctionOnSet(f, T) \in Int
         /\ \A x \in S \ T : SumFunctionOnSet(f, T \cup {x}) = SumFunctionOnSet(f, T) + f[x]
  <1>1. IsFiniteSet(T) /\ Ints(f, T) BY FS_Subset DEF Ints
  <1>2. SumFunctionOnSet(f, T) \in Int BY <1>1, SumRemove
  <1>3. ASSUME NEW x \in S \ T PROVE SumFunctionOnSet(f, T \cup {x}) = SumFunctionOnSet(f, T) + f[x]
    <2> DEFINE W == T \cup {x}
    <2>1. IsFiniteSet(W) /\ Ints(f, W) /\ x \in W /\ W \ {x} = T BY FS_Subset DEF Ints
    <2> HIDE DEF W
    <2>2. \A y \in W : SumFunctionOnSet(f, W) = f[y] + SumFunctionOnSet(f, W \ {y}) BY <2>1, SumRemove
    <2>3. SumFunctionOnSet(f, W) = f[x] + SumFunctionOnSet(f, T) BY <2>1, <2>2
    <2>4. f[x] \in Int BY DEF Ints
    <2> USE DEF W
    <2> QED BY <1>2, <2>3, <2>4
  <1> QED BY <1>2, <1>3

\* A sum of sums, term by term.
LEMMA SumTerms ==
  ASSUME NEW f, NEW g, NEW h, NEW S, IsFiniteSet(S), Ints(f, S), Ints(g, S), Ints(h, S),
         \A x \in S : h[x] = f[x] + g[x]
  PROVE  SumFunctionOnSet(h, S) = SumFunctionOnSet(f, S) + SumFunctionOnSet(g, S)
  <1> DEFINE Good(T) == SumFunctionOnSet(h, T) = SumFunctionOnSet(f, T) + SumFunctionOnSet(g, T)
             U == {T \in SUBSET S : Good(T)}
  <1>1. Good({}) BY SumEmpty
  <1>2. ASSUME NEW T \in SUBSET S, NEW x \in S \ T, Good(T) PROVE Good(T \cup {x})
    <2>1. /\ SumFunctionOnSet(h, T \cup {x}) = SumFunctionOnSet(h, T) + h[x]
          /\ SumFunctionOnSet(f, T \cup {x}) = SumFunctionOnSet(f, T) + f[x]
          /\ SumFunctionOnSet(g, T \cup {x}) = SumFunctionOnSet(g, T) + g[x]
          /\ SumFunctionOnSet(f, T) \in Int /\ SumFunctionOnSet(g, T) \in Int
      BY SumGrows
    <2>2. h[x] = f[x] + g[x] /\ f[x] \in Int /\ g[x] \in Int BY DEF Ints
    <2> QED BY <1>2, <2>1, <2>2
  <1> HIDE DEF Good
  <1>3. {} \in U /\ \A T \in SUBSET S : \A x \in S \ T : T \in U => T \cup {x} \in U BY <1>1, <1>2
  <1>4. S \in U
    <2> HIDE DEF U
    <2> QED BY <1>3, FiniteSteps
  <1> QED BY <1>4 DEF Good

LEMMA SumOrder ==
  ASSUME NEW f, NEW h, NEW S, IsFiniteSet(S), Ints(f, S), Ints(h, S), \A x \in S : f[x] <= h[x]
  PROVE  SumFunctionOnSet(f, S) <= SumFunctionOnSet(h, S)
  <1> DEFINE Good(T) == SumFunctionOnSet(f, T) <= SumFunctionOnSet(h, T)
             U == {T \in SUBSET S : Good(T)}
  <1>1. Good({}) BY SumEmpty
  <1>2. ASSUME NEW T \in SUBSET S, NEW x \in S \ T, Good(T) PROVE Good(T \cup {x})
    <2>1. /\ SumFunctionOnSet(h, T \cup {x}) = SumFunctionOnSet(h, T) + h[x]
          /\ SumFunctionOnSet(f, T \cup {x}) = SumFunctionOnSet(f, T) + f[x]
          /\ SumFunctionOnSet(f, T) \in Int /\ SumFunctionOnSet(h, T) \in Int
      BY SumGrows
    <2>2. f[x] <= h[x] /\ f[x] \in Int /\ h[x] \in Int BY DEF Ints
    <2> QED BY <1>2, <2>1, <2>2
  <1> HIDE DEF Good
  <1>3. {} \in U /\ \A T \in SUBSET S : \A x \in S \ T : T \in U => T \cup {x} \in U BY <1>1, <1>2
  <1>4. S \in U
    <2> HIDE DEF U
    <2> QED BY <1>3, FiniteSteps
  <1> QED BY <1>4 DEF Good

LEMMA SumSame ==
  ASSUME NEW f, NEW h, NEW S, IsFiniteSet(S), Ints(f, S), \A x \in S : f[x] = h[x]
  PROVE  SumFunctionOnSet(f, S) = SumFunctionOnSet(h, S)
  <1>1. Ints(h, S) /\ (\A x \in S : f[x] <= h[x]) /\ (\A x \in S : h[x] <= f[x]) BY DEF Ints
  <1>2. SumFunctionOnSet(f, S) <= SumFunctionOnSet(h, S) BY <1>1, SumOrder
  <1>3. SumFunctionOnSet(h, S) <= SumFunctionOnSet(f, S) BY <1>1, SumOrder
  <1>4. SumFunctionOnSet(h, S) \in Int /\ SumFunctionOnSet(f, S) \in Int BY <1>1, SumRemove
  <1> QED BY <1>2, <1>3, <1>4

LEMMA SumParts ==
  ASSUME NEW f, NEW A, NEW B, IsFiniteSet(A), IsFiniteSet(B), A \cap B = {}, Ints(f, A \cup B)
  PROVE  SumFunctionOnSet(f, A \cup B) = SumFunctionOnSet(f, A) + SumFunctionOnSet(f, B)
  <1> DEFINE Good(T) == SumFunctionOnSet(f, A \cup T) = SumFunctionOnSet(f, A) + SumFunctionOnSet(f, T)
             U == {T \in SUBSET B : Good(T)}
  <1>1. IsFiniteSet(A \cup B) BY FS_Union
  <1>2. \A T \in SUBSET (A \cup B) : SumFunctionOnSet(f, T) \in Int BY <1>1, SumGrows
  <1>3. \A T \in SUBSET (A \cup B) : \A x \in (A \cup B) \ T :
          SumFunctionOnSet(f, T \cup {x}) = SumFunctionOnSet(f, T) + f[x] BY <1>1, SumGrows
  <1>4. Good({})
    <2>1. A \cup {} = A OBVIOUS
    <2>2. SumFunctionOnSet(f, A) \in Int BY <1>2
    <2> QED BY <2>1, <2>2, SumEmpty
  <1>5. ASSUME NEW T \in SUBSET B, NEW x \in B \ T, Good(T) PROVE Good(T \cup {x})
    <2>1. A \cup (T \cup {x}) = (A \cup T) \cup {x} OBVIOUS
    <2>2. A \cup T \in SUBSET (A \cup B) /\ T \in SUBSET (A \cup B) /\ x \in A \cup B /\ x \notin A \cup T OBVIOUS
    <2>3. SumFunctionOnSet(f, (A \cup T) \cup {x}) = SumFunctionOnSet(f, A \cup T) + f[x] BY <1>3, <2>2
    <2>4. SumFunctionOnSet(f, T \cup {x}) = SumFunctionOnSet(f, T) + f[x] BY <1>3, <2>2
    <2>5. f[x] \in Int /\ SumFunctionOnSet(f, T) \in Int /\ SumFunctionOnSet(f, A) \in Int
      BY <1>2, <2>2 DEF Ints
    <2>6. SumFunctionOnSet(f, A \cup (T \cup {x})) = SumFunctionOnSet(f, A \cup T) + f[x] BY <2>1, <2>3
    <2>7. SumFunctionOnSet(f, A \cup T) = SumFunctionOnSet(f, A) + SumFunctionOnSet(f, T) BY <1>5
    <2>8. SumFunctionOnSet(f, A \cup (T \cup {x})) = SumFunctionOnSet(f, A) + SumFunctionOnSet(f, T \cup {x})
      BY <2>4, <2>5, <2>6, <2>7
    <2> QED BY <2>8
  <1> HIDE DEF Good
  <1>6. {} \in U /\ \A T \in SUBSET B : \A x \in B \ T : T \in U => T \cup {x} \in U BY <1>4, <1>5
  <1>7. B \in U
    <2> HIDE DEF U
    <2> QED BY <1>6, FiniteSteps
  <1> QED BY <1>7 DEF Good

LEMMA SumNat ==
  ASSUME NEW f, NEW S, IsFiniteSet(S), \A x \in S : f[x] \in Nat
  PROVE  SumFunctionOnSet(f, S) \in Nat
  <1> DEFINE U == {T \in SUBSET S : SumFunctionOnSet(f, T) \in Nat}
  <1>1. Ints(f, S) BY DEF Ints
  <1>2. {} \in U BY SumEmpty
  <1>3. ASSUME NEW T \in SUBSET S, NEW x \in S \ T, T \in U PROVE T \cup {x} \in U
    <2>1. SumFunctionOnSet(f, T \cup {x}) = SumFunctionOnSet(f, T) + f[x] BY <1>1, SumGrows
    <2>2. f[x] \in Nat OBVIOUS
    <2> QED BY <1>3, <2>1, <2>2
  <1> HIDE DEF U
  <1>4. S \in U BY <1>2, <1>3, FiniteSteps
  <1> QED BY <1>4 DEF U

LEMMA SumWithin ==
  ASSUME NEW f, NEW S, IsFiniteSet(S), \A x \in S : f[x] \in Nat, NEW T \in SUBSET S
  PROVE  SumFunctionOnSet(f, T) <= SumFunctionOnSet(f, S)
  <1>1. IsFiniteSet(T) /\ IsFiniteSet(S \ T) /\ T \cap (S \ T) = {} /\ T \cup (S \ T) = S /\ Ints(f, S)
    BY FS_Subset DEF Ints
  <1>2. SumFunctionOnSet(f, T) \in Nat /\ SumFunctionOnSet(f, S \ T) \in Nat BY <1>1, SumNat
  <1>3. SumFunctionOnSet(f, S) = SumFunctionOnSet(f, T) + SumFunctionOnSet(f, S \ T) BY <1>1, SumParts
  <1> QED BY <1>2, <1>3

\* The greatest and the least of a finite set of numbers.
LEMMA LeastOf ==
  ASSUME NEW W \in SUBSET Nat, W # {}
  PROVE  Min(W) \in W /\ \A x \in W : Min(W) <= x
  <1>1. \E x \in W : \A y \in W : x <= y BY LeastNat
  <1> QED BY <1>1 DEF Min

LEMMA GreatestOf ==
  ASSUME NEW n \in Nat, NEW W \in SUBSET (0 .. n), W # {}
  PROVE  Max(W) \in W /\ \A x \in W : x <= Max(W)
  <1> DEFINE T == {n - x : x \in W}
  <1>0. \A x \in W : n - x \in Nat OBVIOUS
  <1>1. T \in SUBSET Nat /\ T # {} BY <1>0
  <1>2. PICK t \in T : \A y \in T : t <= y BY <1>1, LeastNat
  <1>3. PICK x \in W : t = n - x BY <1>2
  <1>4. ASSUME NEW y \in W PROVE y <= x
    <2>1. n - y \in T OBVIOUS
    <2>2. t <= n - y BY <1>2, <2>1
    <2> QED BY <1>3, <2>2
  <1>5. \E z \in W : \A y \in W : z >= y BY <1>4
  <1> QED BY <1>5 DEF Max
\* Recursion along 0 .. N: the function that a step defines exists.
Stays(step, N, V) == \A n \in 1 .. N : \A v \in V : step[<<n, v>>] \in V
Recursion(g, N, base, step) == g = [n \in 0 .. N |-> IF n = 0 THEN base ELSE step[<<n, g[n - 1]>>]]

LEMMA StepsExist ==
  ASSUME NEW N \in Nat, NEW V, NEW base \in V, NEW step, Stays(step, N, V)
  PROVE  \E g \in [0 .. N -> V] : Recursion(g, N, base, step)
  <1> DEFINE Along(g, m) == \A n \in 0 .. m : g[n] = IF n = 0 THEN base ELSE step[<<n, g[n - 1]>>]
             Solved(m) == m <= N => \E g \in [0 .. m -> V] : Along(g, m)
             Good == {m \in Nat : Solved(m)}
  <1>1. 0 \in Good
    <2> DEFINE g == [n \in 0 .. 0 |-> base]
    <2>1. g \in [0 .. 0 -> V] /\ Along(g, 0) OBVIOUS
    <2>2. Solved(0) BY <2>1
    <2> HIDE DEF Solved
    <2> QED BY <2>2
  <1>2. ASSUME NEW m \in Nat, m \in Good PROVE m + 1 \in Good
    <2>1. Solved(m) BY <1>2
    <2>2. ASSUME m + 1 <= N PROVE \E g \in [0 .. m + 1 -> V] : Along(g, m + 1)
      <3>1. PICK g \in [0 .. m -> V] : Along(g, m) BY <2>1, <2>2
      <3> DEFINE h == [n \in 0 .. m + 1 |-> IF n <= m THEN g[n] ELSE step[<<n, g[n - 1]>>]]
      <3>2. h \in [0 .. m + 1 -> V]
        <4> SUFFICES ASSUME NEW n \in 0 .. m + 1 PROVE (IF n <= m THEN g[n] ELSE step[<<n, g[n - 1]>>]) \in V OBVIOUS
        <4>1. n <= m \/ n = m + 1 OBVIOUS
        <4>2. g[m] \in V /\ m + 1 \in 1 .. N /\ (m + 1) - 1 = m BY <2>2
        <4> QED BY <4>1, <4>2 DEF Stays
      <3>3. Along(h, m + 1)
        <4> SUFFICES ASSUME NEW n \in 0 .. m + 1 PROVE h[n] = IF n = 0 THEN base ELSE step[<<n, h[n - 1]>>] OBVIOUS
        <4>1. n # 0 => n - 1 \in 0 .. m /\ h[n - 1] = g[n - 1] OBVIOUS
        <4>2. n <= m => h[n] = g[n] /\ n \in 0 .. m OBVIOUS
        <4>3. n > m => n # 0 /\ h[n] = step[<<n, g[n - 1]>>] OBVIOUS
        <4> QED BY <3>1, <4>1, <4>2, <4>3
      <3> HIDE DEF h, Along
      <3> QED BY <3>2, <3>3
    <2>3. Solved(m + 1) BY <2>2
    <2> HIDE DEF Solved
    <2> QED BY <2>3
  <1> HIDE DEF Solved
  <1>3. Nat \subseteq Good BY <1>1, <1>2, NatSteps
  <1>4. Solved(N) BY <1>3
  <1> USE DEF Solved
  <1>5. PICK g \in [0 .. N -> V] : Along(g, N) BY <1>4
  <1>6. g = [n \in 0 .. N |-> IF n = 0 THEN base ELSE step[<<n, g[n - 1]>>]] BY <1>5
  <1> QED BY <1>5, <1>6 DEF Recursion

\* The larger and the smaller of two numbers; quotients.
LEMMA LargerOf ==
  ASSUME NEW a \in Int, NEW b \in Int
  PROVE  Max({a, b}) \in {a, b} /\ a <= Max({a, b}) /\ b <= Max({a, b})
  <1>1. \E x \in {a, b} : \A y \in {a, b} : x >= y OBVIOUS
  <1> QED BY <1>1 DEF Max

LEMMA SmallerOf == ASSUME NEW a \in Int, NEW b \in Int PROVE Min({a, b}) = IF a <= b THEN a ELSE b
  <1>1. \E x \in {a, b} : \A y \in {a, b} : x <= y OBVIOUS
  <1> QED BY <1>1 DEF Min

LEMMA Quotient ==
  ASSUME NEW a \in Nat, NEW b \in Nat \ {0}
  PROVE  a \div b \in Nat /\ b * (a \div b) <= a /\ a < b * (a \div b) + b
  OBVIOUS

-----------------------------------------------------------------------------
(* The memory index.                                                         *)

ChunkRecord == [line : Nat, title : Nat, first : Nat, last : Nat]
Scanned == [chunks : Seq(ChunkRecord), from : Nat, title : Nat]

\* What flush puts into the chunks: the lines collected, from the first word to the last.
LEMMA WordsEnds ==
  ASSUME NEW d, NEW from \in Nat, NEW to \in Nat, Words(d, from, to) # {}
  PROVE  /\ Min(Words(d, from, to)) \in Nat /\ Max(Words(d, from, to)) \in Nat
         /\ \A n \in Words(d, from, to) : n \in Min(Words(d, from, to)) .. Max(Words(d, from, to))
  <1> DEFINE W == Words(d, from, to)
  <1>1. W \in SUBSET (0 .. to) /\ W \in SUBSET Nat BY DEF Words
  <1> HIDE DEF W
  <1>2. W # {} BY DEF W
  <1>3. Min(W) \in W /\ \A x \in W : Min(W) <= x BY <1>1, <1>2, LeastOf
  <1>4. Max(W) \in W /\ \A x \in W : x <= Max(W) BY <1>1, <1>2, GreatestOf
  <1>5. \A n \in W : n \in Min(W) .. Max(W) BY <1>1, <1>3, <1>4
  <1>6. Min(W) \in Nat /\ Max(W) \in Nat BY <1>1, <1>3, <1>4
  <1> QED BY <1>5, <1>6 DEF W

\* Line n is in a chunk that search can find.
InChunks(chunks, n) == \E i \in DOMAIN chunks : n \in chunks[i].first .. chunks[i].last

LEMMA FlushFinds ==
  ASSUME NEW d, NEW acc \in Scanned, NEW to \in Nat
  PROVE  /\ Flush(d, acc, to) \in Scanned
         /\ \A n \in Words(d, acc.from, to) : InChunks(Flush(d, acc, to).chunks, n)
         /\ \A n \in Nat : InChunks(acc.chunks, n) => InChunks(Flush(d, acc, to).chunks, n)
         /\ acc.from <= to + 1 => Flush(d, acc, to).from <= to + 1
  <1> DEFINE written == Words(d, acc.from, to)
             chunk == [line |-> acc.from, title |-> acc.title, first |-> Min(written), last |-> Max(written)]
             from == Max({acc.from, to + 1 - Overlap})
             fl == Flush(d, acc, to)
  <1>1. acc.from \in Nat /\ acc.title \in Nat /\ acc.chunks \in Seq(ChunkRecord) BY DEF Scanned
  <1>2. from \in Nat /\ (acc.from <= to + 1 => from <= to + 1)
    <2>1. to + 1 - Overlap \in Int /\ to + 1 - Overlap <= to + 1 BY MemoryAssumption
    <2> DEFINE kept == to + 1 - Overlap
    <2> HIDE DEF kept
    <2>2. Max({acc.from, kept}) \in {acc.from, kept} /\ acc.from <= Max({acc.from, kept})
      <3>1. acc.from \in Int /\ kept \in Int BY <1>1, <2>1 DEF kept
      <3> QED BY <3>1, LargerOf
    <2>3. from \in {acc.from, to + 1 - Overlap} /\ acc.from <= from BY <2>2 DEF kept
    <2> HIDE DEF from
    <2> QED BY <1>1, <2>1, <2>3
  <1>3. /\ fl.from = from /\ fl.title = acc.title
        /\ written = {} => fl.chunks = acc.chunks
        /\ written # {} => fl.chunks = Append(acc.chunks, chunk)
        /\ fl = [chunks |-> fl.chunks, from |-> fl.from, title |-> fl.title]
    BY DEF Flush
  <1> HIDE DEF from, fl
  <1>4. CASE written = {}
    <2>1. fl \in Scanned BY <1>1, <1>2, <1>3, <1>4 DEF Scanned
    <2> QED BY <1>2, <1>3, <1>4, <2>1 DEF fl
  <1>5. CASE written # {}
    <2>1. chunk \in ChunkRecord /\ \A n \in written : n \in chunk.first .. chunk.last
      BY <1>1, <1>5, WordsEnds DEF ChunkRecord
    <2> HIDE DEF chunk, written
    <2>2. fl.chunks = Append(acc.chunks, chunk) BY <1>3, <1>5
    <2>3. /\ fl.chunks \in Seq(ChunkRecord) /\ DOMAIN acc.chunks \subseteq DOMAIN fl.chunks
          /\ \A i \in DOMAIN acc.chunks : fl.chunks[i] = acc.chunks[i]
          /\ Len(fl.chunks) \in DOMAIN fl.chunks /\ fl.chunks[Len(fl.chunks)] = chunk
      BY <1>1, <2>1, <2>2
    <2>4. fl \in Scanned BY <1>1, <1>2, <1>3, <2>3 DEF Scanned
    <2>5. \A n \in written : InChunks(fl.chunks, n) BY <2>1, <2>3 DEF InChunks
    <2>6. \A n \in Nat : InChunks(acc.chunks, n) => InChunks(fl.chunks, n) BY <2>3 DEF InChunks
    <2> QED BY <1>2, <1>3, <2>4, <2>5, <2>6 DEF fl, written
  <1> QED BY <1>4, <1>5

\* Between two lines: those read so far are in a chunk, or still collected.
Gathered(d, acc, n) ==
  /\ acc \in Scanned /\ acc.from <= n + 1
  /\ \A m \in Words(d, 1, n) : m >= acc.from \/ InChunks(acc.chunks, m)

LEMMA FlushKeeps ==
  ASSUME NEW d, NEW n \in Nat, NEW acc, Gathered(d, acc, n)
  PROVE  Gathered(d, Flush(d, acc, n), n)
  <1>1. acc \in Scanned BY DEF Gathered
  <1>2. /\ Flush(d, acc, n) \in Scanned
        /\ \A m \in Words(d, acc.from, n) : InChunks(Flush(d, acc, n).chunks, m)
        /\ \A m \in Nat : InChunks(acc.chunks, m) => InChunks(Flush(d, acc, n).chunks, m)
        /\ acc.from <= n + 1 => Flush(d, acc, n).from <= n + 1
    BY <1>1, FlushFinds
  <1>3. ASSUME NEW m \in Words(d, 1, n) PROVE InChunks(Flush(d, acc, n).chunks, m)
    <2>1. m \in Nat /\ acc.from \in Nat BY <1>1 DEF Words, Scanned
    <2>2. m >= acc.from => m \in Words(d, acc.from, n) BY <2>1 DEF Words
    <2> QED BY <1>2, <2>1, <2>2 DEF Gathered
  <1> QED BY <1>2, <1>3 DEF Gathered

LEMMA AddKeeps ==
  ASSUME NEW d, NEW n \in Nat \ {0}, NEW acc, Gathered(d, acc, n - 1)
  PROVE  Gathered(d, AddLine(d, acc, n), n)
  <1> DEFINE heading == d[n].kind = "head"
             before == IF heading /\ acc.from < n /\ Total(d, acc.from, n - 1, 0) >= Section THEN Flush(d, acc, n - 1) ELSE acc
             titled == IF heading THEN [before EXCEPT !.title = n] ELSE before
  <1>1. n - 1 \in Nat /\ (n - 1) + 1 = n OBVIOUS
  <1>2. Gathered(d, before, n - 1) BY <1>1, FlushKeeps
  <1>3. titled \in Scanned /\ titled.from = before.from /\ titled.chunks = before.chunks
    BY <1>2 DEF Gathered, Scanned
  <1> HIDE DEF before
  <1>4. Gathered(d, titled, n)
    <2>1. before.from \in Nat /\ before.from <= n BY <1>1, <1>2 DEF Gathered, Scanned
    <2>2. ASSUME NEW m \in Words(d, 1, n) PROVE m >= before.from \/ InChunks(before.chunks, m)
      <3>1. m = n \/ m \in Words(d, 1, n - 1) BY <1>1 DEF Words
      <3> QED BY <1>2, <2>1, <3>1 DEF Gathered
    <2> HIDE DEF titled
    <2> QED BY <1>3, <2>1, <2>2 DEF Gathered
  <1> HIDE DEF titled
  <1>5. Gathered(d, Flush(d, titled, n), n) BY <1>4, FlushKeeps
  <1> QED BY <1>4, <1>5 DEF AddLine, before, titled

LEMMA AddTyped ==
  ASSUME NEW d, NEW n \in Nat \ {0}, NEW acc \in Scanned
  PROVE  AddLine(d, acc, n) \in Scanned
  <1> DEFINE heading == d[n].kind = "head"
             before == IF heading /\ acc.from < n /\ Total(d, acc.from, n - 1, 0) >= Section THEN Flush(d, acc, n - 1) ELSE acc
             titled == IF heading THEN [before EXCEPT !.title = n] ELSE before
  <1>1. n - 1 \in Nat OBVIOUS
  <1>2. before \in Scanned BY <1>1, FlushFinds
  <1> HIDE DEF before
  <1>3. titled \in Scanned BY <1>2 DEF Scanned
  <1> HIDE DEF titled
  <1>4. Flush(d, titled, n) \in Scanned BY <1>3, FlushFinds
  <1> QED BY <1>3, <1>4 DEF AddLine, before, titled

\* The scan of chunk_markdown exists and keeps what it read.
LEMMA ScanKeeps ==
  ASSUME NEW d, Len(d) \in Nat
  PROVE  \E acc : Gathered(d, acc, Len(d)) /\ Chunks(d) = Rest(d, acc)
  <1> DEFINE base == [chunks |-> <<>>, from |-> 1, title |-> 0]
             step == [p \in (1 .. Len(d)) \X Scanned |-> AddLine(d, p[2], p[1])]
             Scan(g) == g = [n \in 0 .. Len(d) |-> IF n = 0 THEN base ELSE AddLine(d, g[n - 1], n)]
             scan == CHOOSE g : Scan(g)
  <1>1. base \in Scanned
    <2>1. <<>> \in Seq(ChunkRecord) OBVIOUS
    <2> QED BY <2>1 DEF Scanned
  <1>2. \A n \in 1 .. Len(d) : \A v \in Scanned : step[<<n, v>>] = AddLine(d, v, n) OBVIOUS
  <1>3. \A n \in 1 .. Len(d) : \A v \in Scanned : step[<<n, v>>] \in Scanned
    <2>1. ASSUME NEW n \in 1 .. Len(d), NEW v \in Scanned PROVE step[<<n, v>>] \in Scanned
      <3>1. n \in Nat \ {0} OBVIOUS
      <3>2. AddLine(d, v, n) \in Scanned BY <3>1, AddTyped
      <3> HIDE DEF step
      <3> QED BY <1>2, <3>2
    <2> HIDE DEF step
    <2> QED BY <2>1
  <1> HIDE DEF base, step
  <1>4. PICK g \in [0 .. Len(d) -> Scanned] : Recursion(g, Len(d), base, step)
    <2>1. Stays(step, Len(d), Scanned) BY <1>3 DEF Stays
    <2> QED BY <1>1, <2>1, StepsExist
  <1>5. Scan(g)
    <2>1. ASSUME NEW n \in 0 .. Len(d), n # 0 PROVE step[<<n, g[n - 1]>>] = AddLine(d, g[n - 1], n)
      <3>1. n \in 1 .. Len(d) /\ n - 1 \in 0 .. Len(d) BY <2>1
      <3> QED BY <1>2, <3>1
    <2> QED BY <1>4, <2>1 DEF Recursion
  <1>6. Scan(scan)
    <2> HIDE DEF Scan
    <2> QED BY <1>5
  <1>7. Chunks(d) = Rest(d, scan[Len(d)]) BY DEF Chunks, base
  <1> HIDE DEF scan
  <1>8. scan[0] = base /\ \A n \in 1 .. Len(d) : scan[n] = AddLine(d, scan[n - 1], n) BY <1>6
  <1> HIDE DEF Scan
  <1> DEFINE Good == {n \in Nat : n <= Len(d) => Gathered(d, scan[n], n)}
  <1>9. 0 \in Good
    <2>1. Words(d, 1, 0) = {} BY DEF Words
    <2> QED BY <1>1, <1>8, <2>1 DEF Gathered, base
  <1>10. ASSUME NEW n \in Nat, n \in Good PROVE n + 1 \in Good
    <2> SUFFICES ASSUME n + 1 <= Len(d) PROVE Gathered(d, scan[n + 1], n + 1) OBVIOUS
    <2>1. n + 1 \in 1 .. Len(d) /\ (n + 1) - 1 = n /\ Gathered(d, scan[n], n) BY <1>10
    <2>2. scan[n + 1] = AddLine(d, scan[n], n + 1) BY <1>8, <2>1
    <2>3. n + 1 \in Nat \ {0} OBVIOUS
    <2>4. Gathered(d, AddLine(d, scan[n], n + 1), n + 1) BY <2>1, <2>3, AddKeeps
    <2> QED BY <2>2, <2>4
  <1>11. Nat \subseteq Good
    <2> HIDE DEF Good
    <2> QED BY <1>9, <1>10, NatSteps
  <1> QED BY <1>7, <1>11

LEMMA ChunksFind ==
  ASSUME NEW d, Len(d) \in Nat
  PROVE  \A n \in Words(d, 1, Len(d)) : InChunks(Chunks(d), n)
  <1>1. PICK acc : Gathered(d, acc, Len(d)) /\ Chunks(d) = Rest(d, acc) BY ScanKeeps
  <1> DEFINE written == Words(d, acc.from, Len(d))
             last == acc.chunks[Len(acc.chunks)]
  <1>2. acc \in Scanned /\ acc.from \in Nat /\ acc.chunks \in Seq(ChunkRecord) BY <1>1 DEF Gathered, Scanned
  <1>3. SUFFICES ASSUME NEW n \in Words(d, 1, Len(d)) PROVE InChunks(Rest(d, acc), n) BY <1>1
  <1>4. n \in Nat /\ (n \in written \/ InChunks(acc.chunks, n)) BY <1>1, <1>2 DEF Gathered, Words
  <1>5. \/ Rest(d, acc) = Flush(d, acc, Len(d)).chunks
        \/ Rest(d, acc) = acc.chunks /\ (written = {} \/ (acc.chunks # <<>> /\ last.first = Min(written) /\ last.last = Max(written)))
    BY DEF Rest
  <1>6. CASE Rest(d, acc) = Flush(d, acc, Len(d)).chunks
    BY <1>2, <1>4, <1>6, FlushFinds
  <1>7. CASE Rest(d, acc) = acc.chunks /\ acc.chunks # <<>> /\ last.first = Min(written) /\ last.last = Max(written) /\ n \in written
    <2>1. Len(acc.chunks) \in DOMAIN acc.chunks BY <1>2, <1>7
    <2>2. n \in Min(written) .. Max(written) BY <1>2, <1>7, WordsEnds
    <2> QED BY <1>7, <2>1, <2>2 DEF InChunks
  <1> QED BY <1>4, <1>5, <1>6, <1>7

\* The index that is stored is the one of the documents it says it is of.
MemoryInv ==
  /\ doc \in Documents \cup Edits
  /\ DOMAIN rebuild = Actors
  /\ \A a \in Actors : rebuild[a] # NoRebuild /\ rebuild[a].pc = "store" => rebuild[a].chunks = Chunks(rebuild[a].saw)
  /\ index # NoIndex /\ ~index.mixed => index.chunks = Chunks(index.hash)
  /\ sure = doc => index.hash = doc /\ (~index.mixed => index.chunks = Chunks(doc))

LEMMA MemoryInitInv == ASSUME MemoryInit PROVE MemoryInv
  <1>1. doc \in Documents \cup Edits /\ sure # doc BY MemoryAssumption DEF MemoryInit
  <1>2. \A a \in Actors : rebuild[a] = NoRebuild BY DEF MemoryInit
  <1> QED BY <1>1, <1>2 DEF MemoryInit, MemoryInv

LEMMA EnsureInv == ASSUME MemoryInv, NEW a \in Actors, Ensure(a) PROVE MemoryInv'
  <1>1. /\ doc' = doc /\ index' = index /\ DOMAIN rebuild' = Actors
        /\ \A b \in Actors : rebuild'[b] = rebuild[b] \/ rebuild'[b].pc = "read"
    BY DEF Ensure, Starts, MemoryInv
  <1>2. sure' = doc => index.hash = doc /\ (~index.mixed => index.chunks = Chunks(doc))
    <2>1. CASE Outdated
      <3>1. sure' = sure BY <2>1 DEF Ensure
      <3> QED BY <3>1 DEF MemoryInv
    <2>2. CASE ~Outdated
      <3>1. index # NoIndex /\ index.hash = doc BY <2>2 DEF Outdated
      <3> QED BY <3>1 DEF MemoryInv
    <2> QED BY <2>1, <2>2
  <1> QED BY <1>1, <1>2 DEF MemoryInv

LEMMA StoreInv == ASSUME MemoryInv, NEW a \in Actors, Store(a) PROVE MemoryInv'
  <1> DEFINE chunks == rebuild[a].chunks
             new == [hash |-> doc, chunks |-> chunks, mixed |-> rebuild[a].saw # doc]
  <1>1. /\ doc' = doc /\ DOMAIN rebuild' = Actors
        /\ \A b \in Actors : rebuild'[b] = rebuild[b] \/ rebuild'[b] = NoRebuild
    BY DEF Store, MemoryInv
  <1>2. chunks = Chunks(rebuild[a].saw) BY DEF Store, MemoryInv
  <1>3. new.hash = doc /\ (~new.mixed => new.chunks = Chunks(doc)) BY <1>2
  <1>4. \/ index' = new
        \/ index' = index /\ sure' = sure
    BY DEF Store
  <1> HIDE DEF new
  <1> QED BY <1>1, <1>3, <1>4 DEF MemoryInv

\* For documents of any length, edits, rebuilds and failures: what is stored is the index of what was read.
THEOREM MemoryInvariant == MemorySpec => []MemoryInv
  <1>1. ASSUME MemoryInv, [MemoryNext]_memoryVars PROVE MemoryInv'
    <2>1. ASSUME NEW d \in Edits, EditDocument(d) PROVE MemoryInv'
      BY <1>1, <2>1, MemoryAssumption DEF EditDocument, MemoryInv
    <2>2. ASSUME Rebuild PROVE MemoryInv'
      <3>1. /\ UNCHANGED <<doc, index, sure>> /\ DOMAIN rebuild' = Actors
            /\ \A b \in Actors : rebuild'[b] = rebuild[b] \/ rebuild'[b].pc = "read"
        BY <1>1, <2>2 DEF Rebuild, Starts, MemoryInv, Actors
      <3> QED BY <1>1, <3>1 DEF MemoryInv
    <2>3. ASSUME NEW a \in Actors, ReadDocuments(a) PROVE MemoryInv'
      <3> DEFINE job == [pc |-> "store", ensuring |-> rebuild[a].ensuring, saw |-> doc, chunks |-> Chunks(doc)]
      <3>1. job.chunks = Chunks(job.saw) OBVIOUS
      <3>2. UNCHANGED <<doc, index, sure>> /\ rebuild' = [rebuild EXCEPT ![a] = job] BY <2>3 DEF ReadDocuments
      <3> HIDE DEF job
      <3> QED BY <1>1, <3>1, <3>2 DEF MemoryInv
    <2>4. ASSUME UNCHANGED memoryVars PROVE MemoryInv'
      BY <1>1, <2>4 DEF memoryVars, MemoryInv
    <2> QED BY <1>1, <2>1, <2>2, <2>3, <2>4, EnsureInv, StoreInv DEF MemoryNext
  <1> QED BY <1>1, MemoryInitInv, PTL DEF MemorySpec

\* For documents of any length, any chunk size and overlap: once ensure() has returned for the
\* documents as they are, and no edit fell between reading them
\* and taking their hash, every line with words is in a chunk of the index.
THEOREM LinesFound == MemorySpec => []EveryLineFound
  <1>1. MemoryInv => EveryLineFound
    <2> SUFFICES ASSUME MemoryInv, sure = doc, ~index.mixed PROVE EveryLineFound BY DEF EveryLineFound
    <2>1. Len(doc) \in Nat BY MemoryAssumption DEF MemoryInv
    <2>2. index.chunks = Chunks(doc) BY DEF MemoryInv
    <2>3. \A n \in Words(doc, 1, Len(doc)) : InChunks(Chunks(doc), n) BY <2>1, ChunksFind
    <2> QED BY <2>2, <2>3 DEF EveryLineFound, InChunks
  <1> QED BY <1>1, MemoryInvariant, PTL

-----------------------------------------------------------------------------
(* The engine summaries.                                                     *)

Measured(v) == v = Unmeasured \/ v \in Int
\* The rows are rows.
EnginesInv ==
  /\ Len(rows) \in Nat
  /\ \A m \in Minutes : /\ Measured(rows[m].port) /\ Measured(rows[m].starboard)
                        /\ Measured(rows[m].portFuel) /\ Measured(rows[m].starboardFuel) /\ Measured(rows[m].speed)

\* For any number of minutes: each row is what the recorder may have stored.
THEOREM EnginesInvariant == EnginesSpec => []EnginesInv
  <1> DEFINE Inv == rows \in Seq(Rows)
  <1>1. Inv => EnginesInv
    <2> SUFFICES ASSUME Inv, NEW m \in Minutes PROVE rows[m] \in Rows
      BY EnginesAssumption DEF EnginesInv, Measured, Minutes
    <2> QED BY DEF Minutes
  <1>2. EnginesInit => Inv BY DEF EnginesInit
  <1>3. Inv /\ [EnginesNext]_enginesVars => Inv' BY DEF EnginesNext, Minute, enginesVars
  <1> QED BY <1>1, <1>2, <1>3, PTL DEF EnginesSpec

LEMMA Or0Int == ASSUME NEW v, Measured(v) PROVE Or0(v) \in Int /\ (v # Unmeasured => v \in Int /\ Or0(v) = v)
  BY DEF Measured, Or0

LEMMA MatchedRows ==
  ASSUME EnginesInv, NEW m \in Minutes, Matched(rows[m])
  PROVE  /\ rows[m].portFuel \in Nat /\ rows[m].starboardFuel \in Nat /\ rows[m].speed \in Nat
         /\ rows[m].port \in Nat /\ rows[m].starboard \in Nat
         /\ rows[m].portFuel # Unmeasured /\ rows[m].starboardFuel # Unmeasured /\ rows[m].speed # Unmeasured
         /\ rows[m].port # Unmeasured /\ rows[m].starboard # Unmeasured
         /\ Running(rows[m])
  <1> DEFINE r == rows[m]
  <1>1. \A v \in {r.port, r.starboard, r.portFuel, r.starboardFuel, r.speed} : v # Unmeasured /\ v >= 0
    BY DEF Matched
  <1>2. \A v \in {r.port, r.starboard, r.portFuel, r.starboardFuel, r.speed} : v \in Int
    BY <1>1 DEF EnginesInv, Measured
  <1>3. \A v \in {r.port, r.starboard, r.portFuel, r.starboardFuel, r.speed} : v \in Nat /\ v # Unmeasured BY <1>1, <1>2
  <1>4. r.port >= Threshold \/ r.starboard >= Threshold BY DEF Matched
  <1>5. Running(r) BY <1>3, <1>4 DEF Running, Or0
  <1> QED BY <1>3, <1>5

LEMMA RunsUsed == ASSUME EnginesInv PROVE Runs = Used
  <1>1. ASSUME NEW m \in Minutes PROVE (\E rpm \in Revs(m) : rpm >= Threshold) <=> Running(rows[m])
    <2> DEFINE p == rows[m].port  s == rows[m].starboard
    <2>1. Measured(p) /\ Measured(s) BY DEF EnginesInv
    <2>2. ASSUME NEW v, Measured(v) PROVE Or0(v) >= Threshold <=> v # Unmeasured /\ v >= Threshold
      BY <2>2, EnginesAssumption DEF Measured, Or0
    <2>3. Revs(m) = {p, s} \ {Unmeasured} BY DEF Revs
    <2>4. (\E rpm \in Revs(m) : rpm >= Threshold) <=> (p # Unmeasured /\ p >= Threshold) \/ (s # Unmeasured /\ s >= Threshold)
      BY <2>3
    <2> QED BY <2>1, <2>2, <2>4 DEF Running
  <1> QED BY <1>1 DEF Runs, Used

\* The fuel of the matched minutes and of the others is what both engines used.
LEMMA FuelAdds ==
  ASSUME EnginesInv, NEW S \in SUBSET Used, \A m \in S : Matched(rows[m])
  PROVE  SumFunction([m \in S |-> rows[m].portFuel + rows[m].starboardFuel])
           + SumFunction([m \in Used \ S |-> Or0(rows[m].portFuel) + Or0(rows[m].starboardFuel)])
         = PortUsed + StarboardUsed
  <1> DEFINE port == [m \in Used |-> Or0(rows[m].portFuel)]
             starboard == [m \in Used |-> Or0(rows[m].starboardFuel)]
             both == [m \in Used |-> Or0(rows[m].portFuel) + Or0(rows[m].starboardFuel)]
             matched == [m \in S |-> rows[m].portFuel + rows[m].starboardFuel]
             left == [m \in Used \ S |-> Or0(rows[m].portFuel) + Or0(rows[m].starboardFuel)]
  <1>1. /\ IsFiniteSet(Used) /\ IsFiniteSet(S) /\ IsFiniteSet(Used \ S)
        /\ S \cap (Used \ S) = {} /\ S \cup (Used \ S) = Used /\ Used \subseteq Minutes
    <2>1. IsFiniteSet(Minutes) BY FS_Interval DEF EnginesInv, Minutes
    <2> QED BY <2>1, FS_Subset DEF Used
  <1>2. \A m \in Used : Or0(rows[m].portFuel) \in Int /\ Or0(rows[m].starboardFuel) \in Int
    BY <1>1, Or0Int DEF EnginesInv
  <1>3. \A m \in S : rows[m].portFuel = Or0(rows[m].portFuel) /\ rows[m].starboardFuel = Or0(rows[m].starboardFuel)
    BY <1>1, MatchedRows DEF Or0
  <1>4. /\ Ints(port, Used) /\ Ints(starboard, Used) /\ Ints(both, Used) /\ Ints(both, S) /\ Ints(both, Used \ S)
        /\ \A m \in Used : both[m] = port[m] + starboard[m]
        /\ \A m \in S : both[m] = matched[m]
        /\ \A m \in Used \ S : both[m] = left[m]
    BY <1>2, <1>3 DEF Ints
  <1>5. /\ PortUsed = SumFunctionOnSet(port, Used) /\ StarboardUsed = SumFunctionOnSet(starboard, Used)
        /\ SumFunction(matched) = SumFunctionOnSet(matched, S) /\ SumFunction(left) = SumFunctionOnSet(left, Used \ S)
    BY DEF PortUsed, StarboardUsed, SumFunction
  <1> HIDE DEF port, starboard, both, matched, left
  <1>6. SumFunctionOnSet(both, Used) = SumFunctionOnSet(port, Used) + SumFunctionOnSet(starboard, Used)
    BY <1>1, <1>4, SumTerms
  <1>7. SumFunctionOnSet(both, S \cup (Used \ S)) = SumFunctionOnSet(both, S) + SumFunctionOnSet(both, Used \ S)
    BY <1>1, <1>4, SumParts
  <1>8. SumFunctionOnSet(both, S) = SumFunctionOnSet(matched, S) BY <1>1, <1>4, SumSame
  <1>9. SumFunctionOnSet(both, Used \ S) = SumFunctionOnSet(left, Used \ S) BY <1>1, <1>4, SumSame
  <1>10. SumFunction(matched) + SumFunction(left) = PortUsed + StarboardUsed
    BY <1>1, <1>5, <1>6, <1>7, <1>8, <1>9
  <1> QED BY <1>10 DEF matched, left

LEMMA BalanceIs ==
  ASSUME EnginesInv, Balanced = Used
  PROVE  Balance = StarboardUsed - PortUsed
  <1> DEFINE port == [m \in Used |-> Or0(rows[m].portFuel)]
             starboard == [m \in Used |-> Or0(rows[m].starboardFuel)]
             more == [m \in Used |-> rows[m].starboardFuel - rows[m].portFuel]
  <1>1. IsFiniteSet(Used) /\ Used \subseteq Minutes
    <2>1. IsFiniteSet(Minutes) BY FS_Interval DEF EnginesInv, Minutes
    <2> QED BY <2>1, FS_Subset DEF Used
  <1>2. \A m \in Used : /\ rows[m].portFuel = Or0(rows[m].portFuel) /\ rows[m].portFuel \in Int
                        /\ rows[m].starboardFuel = Or0(rows[m].starboardFuel) /\ rows[m].starboardFuel \in Int
    <2> SUFFICES ASSUME NEW m \in Used PROVE
           /\ rows[m].portFuel = Or0(rows[m].portFuel) /\ rows[m].portFuel \in Int
           /\ rows[m].starboardFuel = Or0(rows[m].starboardFuel) /\ rows[m].starboardFuel \in Int
      OBVIOUS
    <2>1. m \in Minutes /\ rows[m].portFuel # Unmeasured /\ rows[m].starboardFuel # Unmeasured BY <1>1 DEF Balanced
    <2>2. Measured(rows[m].portFuel) /\ Measured(rows[m].starboardFuel) BY <2>1 DEF EnginesInv
    <2> QED BY <2>1, <2>2, Or0Int
  <1>3. /\ Ints(port, Used) /\ Ints(starboard, Used) /\ Ints(more, Used)
        /\ \A m \in Used : starboard[m] = port[m] + more[m]
    BY <1>2 DEF Ints
  <1>4. /\ PortUsed = SumFunctionOnSet(port, Used) /\ StarboardUsed = SumFunctionOnSet(starboard, Used)
        /\ Balance = SumFunctionOnSet(more, Used)
    BY DEF PortUsed, StarboardUsed, SumFunction, Balance
  <1> HIDE DEF port, starboard, more
  <1>5. SumFunctionOnSet(starboard, Used) = SumFunctionOnSet(port, Used) + SumFunctionOnSet(more, Used)
    BY <1>1, <1>3, SumTerms
  <1>6. SumFunctionOnSet(port, Used) \in Int /\ SumFunctionOnSet(more, Used) \in Int BY <1>1, <1>3, SumRemove
  <1> QED BY <1>4, <1>5, <1>6

\* A narrower question counts no more fuel.
LEMMA FuelWithin ==
  ASSUME EnginesInv, NEW S \in SUBSET Minutes, \A m \in S : Matched(rows[m]), NEW T \in SUBSET S
  PROVE  SumFunction([m \in T |-> rows[m].portFuel + rows[m].starboardFuel])
           <= SumFunction([m \in S |-> rows[m].portFuel + rows[m].starboardFuel])
  <1> DEFINE wide == [m \in S |-> rows[m].portFuel + rows[m].starboardFuel]
             narrow == [m \in T |-> rows[m].portFuel + rows[m].starboardFuel]
  <1>1. IsFiniteSet(S) /\ IsFiniteSet(T)
    <2>1. IsFiniteSet(Minutes) BY FS_Interval DEF EnginesInv, Minutes
    <2> QED BY <2>1, FS_Subset
  <1>2. \A m \in S : rows[m].portFuel + rows[m].starboardFuel \in Nat
    <2> SUFFICES ASSUME NEW m \in S PROVE rows[m].portFuel + rows[m].starboardFuel \in Nat OBVIOUS
    <2>1. rows[m].portFuel \in Nat /\ rows[m].starboardFuel \in Nat BY MatchedRows
    <2> QED BY <2>1
  <1>3. (\A m \in S : wide[m] \in Nat) /\ Ints(narrow, T) /\ \A m \in T : narrow[m] = wide[m] BY <1>2 DEF Ints
  <1>4. SumFunction(wide) = SumFunctionOnSet(wide, S) /\ SumFunction(narrow) = SumFunctionOnSet(narrow, T)
    BY DEF SumFunction
  <1> HIDE DEF wide, narrow
  <1>5. SumFunctionOnSet(wide, T) <= SumFunctionOnSet(wide, S) BY <1>1, <1>3, SumWithin
  <1>6. SumFunctionOnSet(narrow, T) = SumFunctionOnSet(wide, T) BY <1>1, <1>3, SumSame
  <1>7. SumFunction(narrow) <= SumFunction(wide) BY <1>4, <1>5, <1>6
  <1> QED BY <1>7 DEF wide, narrow

LEMMA Agree == ASSUME EnginesInv PROVE SummariesAgree
  <1> DEFINE all == Economy(Unmeasured, FALSE)
  <1>1. \A band, both : /\ Economy(band, both).minutes = {m \in Minutes : Wanted(m, band, both)}
                        /\ Economy(band, both).matched = {m \in Minutes : Wanted(m, band, both) /\ Matched(rows[m])}
                        /\ Economy(band, both).fuel =
                             SumFunction([m \in Economy(band, both).matched |-> rows[m].portFuel + rows[m].starboardFuel])
    BY DEF Economy
  <1>2. all.minutes = Used BY DEF Economy, Wanted, Used
  <1>3. all.matched \in SUBSET Used /\ \A m \in all.matched : Matched(rows[m]) BY DEF Economy, Wanted, Used
  <1>4. all.fuel + SumFunction([m \in Used \ all.matched |-> Or0(rows[m].portFuel) + Or0(rows[m].starboardFuel)])
          = PortUsed + StarboardUsed
    <2> DEFINE S == all.matched
    <2> HIDE DEF S
    <2>1. SumFunction([m \in S |-> rows[m].portFuel + rows[m].starboardFuel])
            + SumFunction([m \in Used \ S |-> Or0(rows[m].portFuel) + Or0(rows[m].starboardFuel)])
          = PortUsed + StarboardUsed
      BY <1>3, FuelAdds DEF S
    <2> QED BY <1>1, <2>1 DEF S
  <1>5. all.matched \subseteq Balanced BY <1>3, MatchedRows DEF Balanced, Used
  <1>6. ASSUME NEW band \in Bands
        PROVE  /\ Economy(band, TRUE).minutes \subseteq Economy(band, FALSE).minutes
               /\ Economy(band, FALSE).matched \subseteq all.matched
               /\ Economy(band, TRUE).fuel <= Economy(band, FALSE).fuel
               /\ Economy(band, TRUE).minutes \subseteq Economy(Unmeasured, TRUE).minutes
    <2>1. \A m \in Minutes : /\ Wanted(m, band, TRUE) => Wanted(m, band, FALSE) /\ Wanted(m, Unmeasured, TRUE)
                             /\ Wanted(m, band, FALSE) => Wanted(m, Unmeasured, FALSE)
      BY DEF Wanted, InBand
    <2> DEFINE S == Economy(band, FALSE).matched  T == Economy(band, TRUE).matched
    <2>2. S \in SUBSET Minutes /\ T \in SUBSET S /\ \A m \in S : Matched(rows[m]) BY <2>1 DEF Economy
    <2>3. Economy(band, FALSE).fuel = SumFunction([m \in S |-> rows[m].portFuel + rows[m].starboardFuel])
          /\ Economy(band, TRUE).fuel = SumFunction([m \in T |-> rows[m].portFuel + rows[m].starboardFuel]) BY <1>1
    <2>4. Economy(band, TRUE).fuel <= Economy(band, FALSE).fuel
      <3> HIDE DEF S, T
      <3> QED BY <2>2, <2>3, FuelWithin
    <2> QED BY <1>1, <2>1, <2>4
  <1> HIDE DEF all
  <1> QED BY <1>2, <1>4, <1>5, <1>6, RunsUsed, BalanceIs DEF SummariesAgree, all

\* A band number i: the band's limits and the speed in it.
LEMMA BandLimits ==
  ASSUME NEW speed \in Int, SlowBand <= speed, speed <= FastBand
  PROVE  LET i == Min({(speed - SlowBand) \div BandStep, Count - 1})
             low == SlowBand + i * BandStep  high == Min({FastBand, low + BandStep}) IN
         i \in 0 .. Count - 1 /\ low <= speed /\ speed <= high /\ (speed = high => i = Count - 1)
  <1> DEFINE q == (speed - SlowBand) \div BandStep
             c == Count
             b == BandStep
             top == FastBand - SlowBand
             s == speed - SlowBand
             i == IF q <= c - 1 THEN q ELSE c - 1
  <1>1. b \in Nat /\ b >= 1 /\ top \in Nat /\ top >= 1 /\ s \in Nat /\ s <= top /\ SlowBand \in Nat /\ FastBand \in Nat
    BY EnginesAssumption
  <1>2. q \in Nat /\ b * q <= s /\ s < b * q + b
    <2> HIDE DEF b, s
    <2> QED BY <1>1, Quotient DEF b, s
  <1>3. c \in Nat /\ b * c <= top + b - 1 /\ top + b - 1 < b * c + b
    <2> DEFINE a == top + b - 1
    <2>1. a \in Nat /\ b \in Nat \ {0} BY <1>1
    <2>2. c = a \div b BY DEF Count
    <2> HIDE DEF a, b, c
    <2>3. c \in Nat /\ b * c <= a /\ a < b * c + b BY <2>1, <2>2, Quotient
    <2> QED BY <2>3 DEF a
  <1> HIDE DEF q, c, b, top, s
  <1>4. c >= 1 BY <1>1, <1>3
  <1>5. i \in 0 .. c - 1 BY <1>2, <1>3, <1>4
  <1>6. b * i <= s
    <2>1. CASE q <= c - 1 BY <1>2, <2>1
    <2>2. CASE q > c - 1
      <3>1. c - 1 <= q BY <1>2, <1>3, <2>2
      <3>2. b * (c - 1) <= b * q BY <1>1, <1>2, <1>3, <3>1
      <3> QED BY <1>1, <1>2, <1>3, <2>2, <3>2
    <2> QED BY <1>2, <1>3, <2>1, <2>2
  <1> DEFINE low == SlowBand + i * b
  <1>7. low \in Nat /\ low + b \in Nat /\ low <= speed
    <2>1. i \in Nat /\ i * b \in Nat /\ i * b = b * i BY <1>1, <1>2, <1>3, <1>5
    <2> HIDE DEF i
    <2> QED BY <1>1, <1>6, <2>1 DEF s
  <1>8. ASSUME i < c - 1 PROVE speed < low + b /\ speed # FastBand
    <2>1. i = q /\ q + 2 <= c BY <1>2, <1>3, <1>8
    <2>2. b * (q + 2) <= b * c BY <1>1, <1>2, <1>3, <2>1
    <2>3. b * (q + 2) = b * q + b + b BY <1>1, <1>2
    <2>4. b * q \in Nat /\ b * c \in Nat BY <1>1, <1>2, <1>3
    <2>5. s # top BY <1>1, <1>2, <1>3, <2>2, <2>3, <2>4
    <2>6. speed < low + b /\ speed # FastBand
      <3>1. i * b = b * q BY <1>1, <1>2, <2>1
      <3> HIDE DEF i
      <3> QED BY <1>1, <1>2, <2>4, <2>5, <3>1 DEF s, top
    <2> QED BY <2>6
  <1>9. ASSUME i = c - 1 PROVE speed <= low + b
    <2>1. top <= b * c /\ b * c \in Nat BY <1>1, <1>3
    <2>2. i * b + b = b * c BY <1>1, <1>3, <1>9
    <2>3. speed <= low + b
      <3>1. i \in Nat BY <1>4, <1>3, <1>9
      <3>2. i * b \in Nat BY <1>1, <3>1
      <3> HIDE DEF i
      <3> QED BY <1>1, <2>1, <2>2, <3>2 DEF s, top
    <2> QED BY <2>3
  <1>10. speed <= low + b /\ (i # c - 1 => speed < low + b /\ speed # FastBand)
    <2>1. i < c - 1 \/ i = c - 1 BY <1>3, <1>5
    <2> HIDE DEF i, low
    <2>2. CASE i < c - 1
      <3>1. speed < low + b /\ speed # FastBand BY <1>8, <2>2
      <3> QED BY <3>1, <1>7
    <2>3. CASE i = c - 1 BY <1>9, <2>3
    <2> QED BY <2>1, <2>2, <2>3
  <1>11. Min({q, c - 1}) = i BY <1>2, <1>3, SmallerOf
  <1>12. Min({FastBand, low + b}) = IF FastBand <= low + b THEN FastBand ELSE low + b
    <2> DEFINE e == low + b
    <2>1. e \in Int BY <1>7
    <2> HIDE DEF e
    <2>2. Min({FastBand, e}) = IF FastBand <= e THEN FastBand ELSE e BY <1>1, <2>1, SmallerOf
    <2> QED BY <2>2 DEF e
  <1> HIDE DEF i
  <1>13. LET high == Min({FastBand, low + b}) IN speed <= high /\ (speed = high => i = c - 1)
    <2> HIDE DEF low
    <2> QED BY <1>1, <1>7, <1>10, <1>12
  <1> QED BY <1>5, <1>7, <1>11, <1>13 DEF q, c, b

LEMMA BandsAre == ASSUME EnginesInv PROVE BandsHold
  <1>1. ASSUME NEW m \in Minutes, Cruising(rows[m])
        PROVE  LET i == BandOf(rows[m])
                   low == SlowBand + i * BandStep  high == Min({FastBand, low + BandStep}) IN
               i \in 0 .. Count - 1 /\ low <= rows[m].speed /\ rows[m].speed <= high /\ (rows[m].speed = high => i = Count - 1)
    <2>1. rows[m].speed \in Int /\ SlowBand <= rows[m].speed /\ rows[m].speed <= FastBand
      BY <1>1, MatchedRows DEF Cruising
    <2> QED BY <2>1, BandLimits DEF BandOf
  <1>2. {m \in Minutes : Cruising(rows[m])} = UNION {Group(i) : i \in 0 .. Count - 1}
    <2>1. \A m \in Minutes : Cruising(rows[m]) => BandOf(rows[m]) \in 0 .. Count - 1 BY <1>1
    <2> QED BY <2>1 DEF Group
  <1> QED BY <1>1, <1>2 DEF BandsHold, Group

\* For any rows, measured or not, thresholds and bands: the summaries of one window agree, and each
\* cruising minute is in its band and in no other.
THEOREM SummariesHold == EnginesSpec => []SummariesTrue
  <1>1. EnginesInv => SummariesTrue BY Agree, BandsAre DEF SummariesTrue
  <1> QED BY <1>1, EnginesInvariant, PTL

-----------------------------------------------------------------------------
(* From a question to an answer.                                             *)

LEMMA RecordsFinite == IsFiniteSet(Records) /\ Sections \subseteq Records
  <1>1. \A a, b : IsFiniteSet({a, b})
    <2> SUFFICES ASSUME NEW a, NEW b PROVE IsFiniteSet({a, b}) OBVIOUS
    <2>1. {a, b} = {a} \cup {b} OBVIOUS
    <2>2. IsFiniteSet({a}) /\ IsFiniteSet({b}) BY FS_Singleton
    <2> QED BY <2>1, <2>2, FS_Union
  <1>2. \A a, b, c, d : IsFiniteSet({a, b, c, d})
    <2> SUFFICES ASSUME NEW a, NEW b, NEW c, NEW d PROVE IsFiniteSet({a, b, c, d}) OBVIOUS
    <2>1. {a, b, c, d} = {a, b} \cup {c, d} OBVIOUS
    <2>2. IsFiniteSet({a, b}) /\ IsFiniteSet({c, d}) BY <1>1
    <2> QED BY <2>1, <2>2, FS_Union
  <1>3. IsFiniteSet(Sections)
    <2> DEFINE A == {"engine_run_history", "fuel_usage", "fuel_economy", "shore_power_history"}
               B == {"solar_inference", "battery_voltage", "ha_telemetry", "influx_history"}
               C == {"ha_event_history", "fuel_balance", "current_telemetry", "ha_states"}
               D == {"local_docs", "outing_brief"}
    <2>1. Sections = (A \cup B) \cup (C \cup D) BY DEF Sections
    <2>2. IsFiniteSet(A) /\ IsFiniteSet(B) /\ IsFiniteSet(C) /\ IsFiniteSet(D) BY <1>1, <1>2
    <2> HIDE DEF A, B, C, D
    <2> QED BY <2>1, <2>2, FS_Union
  <1>4. Records = Sections \cup ({"boat_facts", "query_plan", "computed_answer", "conversation"}
                                  \cup {"interpreted_question", "prior_query_plan"})
    BY DEF Records
  <1> QED BY <1>1, <1>2, <1>3, <1>4, FS_Union

\* Sizes of sets of records: what is added up are natural numbers.
LEMMA SizesNat ==
  ASSUME NEW whole \in BOOLEAN, NEW S \in SUBSET Records
  PROVE  /\ Size(S, whole) \in Nat
         /\ \A T \in SUBSET S : Size(T, whole) <= Size(S, whole)
  <1>1. IsFiniteSet(S) BY RecordsFinite, FS_Subset
  <1>2. \A key \in S : SizeOf(whole)[key] \in Nat BY AnswerAssumption DEF SizeOf
  <1>3. SumFunctionOnSet(SizeOf(whole), S) \in Nat BY <1>1, <1>2, SumNat
  <1>4. \A T \in SUBSET S : SumFunctionOnSet(SizeOf(whole), T) <= SumFunctionOnSet(SizeOf(whole), S)
    BY <1>1, <1>2, SumWithin
  <1> QED BY <1>3, <1>4 DEF Size

LEMMA SizeEmpty == ASSUME NEW whole PROVE Size({}, whole) = 0
  BY SumEmpty DEF Size

LEMMA SizeOfOne == Size({"computed_answer"}, FALSE) = Summary["computed_answer"]
  <1> DEFINE f == SizeOf(FALSE)  c == "computed_answer"
  <1>1. f[c] = Summary[c] /\ f[c] \in Int
    <2>1. c \in DOMAIN Summary BY AnswerAssumption DEF Records
    <2> QED BY <2>1, AnswerAssumption DEF SizeOf
  <1>0. Size({c}, FALSE) = SumFunctionOnSet(f, {c}) BY DEF Size
  <1> HIDE DEF f, c
  <1>2. Ints(f, {c}) /\ IsFiniteSet({c}) BY <1>1, FS_Singleton DEF Ints
  <1>3. \A x \in {c} : SumFunctionOnSet(f, {c}) = f[x] + SumFunctionOnSet(f, {c} \ {x}) BY <1>2, SumRemove
  <1>4. {c} \ {c} = {} OBVIOUS
  <1>5. SumFunctionOnSet(f, {c}) = f[c] + 0 BY <1>3, <1>4, SumEmpty
  <1>6. f[c] + 0 = Summary[c] BY <1>1
  <1>7. Size({c}, FALSE) = Summary[c] BY <1>0, <1>5, <1>6, Zenon
  <1> QED BY <1>7 DEF c

\* What is left of the records holds the answer, if they did.
LEMMA RemainingIs ==
  ASSUME NEW keys \in SUBSET Records, NEW max
  PROVE  Remaining(keys, max) \in SUBSET keys /\ ("computed_answer" \in keys => "computed_answer" \in Remaining(keys, max))
  <1> DEFINE V == {ks \in SUBSET keys : "computed_answer" \in keys => "computed_answer" \in ks}
             N == Len(Supporting)
             next(ks, n) == IF Size(ks, TRUE) <= max THEN ks ELSE ks \ {Supporting[n]}
             step == [p \in (1 .. N) \X V |-> next(p[2], p[1])]
             Kept(g) == g = [n \in 0 .. N |-> IF n = 0 THEN keys ELSE next(g[n - 1], n)]
             kept == CHOOSE g : Kept(g)
  <1>1. N \in Nat /\ \A n \in 1 .. N : Supporting[n] # "computed_answer" BY DEF Supporting
  <1> HIDE DEF N
  <1>2. keys \in V OBVIOUS
  <1>3. \A n \in 1 .. N : \A ks \in V : next(ks, n) \in V BY <1>1
  <1>4. \A n \in 1 .. N : \A ks \in V : step[<<n, ks>>] = next(ks, n) OBVIOUS
  <1> HIDE DEF V, step, next
  <1>5. PICK g \in [0 .. N -> V] : Recursion(g, N, keys, step)
    <2>1. Stays(step, N, V) BY <1>3, <1>4 DEF Stays
    <2> QED BY <1>1, <1>2, <2>1, StepsExist
  <1>6. Kept(g)
    <2>1. ASSUME NEW n \in 0 .. N, n # 0 PROVE step[<<n, g[n - 1]>>] = next(g[n - 1], n)
      <3>1. n \in 1 .. N /\ n - 1 \in 0 .. N BY <1>1, <2>1
      <3> QED BY <1>4, <3>1
    <2> QED BY <1>5, <2>1 DEF Recursion
  <1>7. Kept(kept)
    <2> HIDE DEF Kept
    <2> QED BY <1>6
  <1>8. Remaining(keys, max) = kept[N] BY DEF Remaining, N, next
  <1> HIDE DEF kept
  <1>9. kept[0] = keys /\ \A n \in 1 .. N : kept[n] = next(kept[n - 1], n) BY <1>1, <1>7
  <1> HIDE DEF Kept
  <1> DEFINE Good == {n \in Nat : n <= N => kept[n] \in V}
  <1>10. 0 \in Good BY <1>2, <1>9
  <1>11. ASSUME NEW n \in Nat, n \in Good PROVE n + 1 \in Good
    <2> SUFFICES ASSUME n + 1 <= N PROVE kept[n + 1] \in V OBVIOUS
    <2>1. n + 1 \in 1 .. N /\ (n + 1) - 1 = n /\ kept[n] \in V BY <1>1, <1>11
    <2> QED BY <1>3, <1>9, <2>1
  <1>12. Nat \subseteq Good
    <2> HIDE DEF Good
    <2> QED BY <1>10, <1>11, NatSteps
  <1>13. kept[N] \in V BY <1>1, <1>12
  <1> QED BY <1>8, <1>13 DEF V

\* What is selected has room, and the first record of the order is in it if it has room by itself.
LEMMA SelectedIs ==
  ASSUME NEW keys \in SUBSET Records, NEW whole \in BOOLEAN, NEW order, Len(order) \in Nat \ {0}, NEW max \in Int
  PROVE  LET s == Selected(keys, whole, order, max) IN
         /\ s \in SUBSET keys /\ (s = {} \/ Size(s, whole) <= max)
         /\ order[1] \in keys /\ Size({order[1]}, whole) <= max => order[1] \in s
  <1> DEFINE first == order[1] \in keys /\ Size({order[1]}, whole) <= max
             V == {ks \in SUBSET keys : ks = {} \/ Size(ks, whole) <= max}
             N == Len(order)
             next(ks, n) == IF order[n] \in keys /\ Size(ks \cup {order[n]}, whole) <= max THEN ks \cup {order[n]} ELSE ks
             step == [p \in (1 .. N) \X V |-> next(p[2], p[1])]
             Taken(g) == g = [n \in 0 .. N |-> IF n = 0 THEN {} ELSE next(g[n - 1], n)]
             taken == CHOOSE g : Taken(g)
  <1>1. N \in Nat /\ N >= 1 OBVIOUS
  <1> HIDE DEF N
  <1>2. {} \in V OBVIOUS
  <1>3. \A n \in 1 .. N : \A ks \in V : next(ks, n) \in V OBVIOUS
  <1>4. \A n \in 1 .. N : \A ks \in V : step[<<n, ks>>] = next(ks, n) OBVIOUS
  <1>5. \A n, ks : ks \subseteq next(ks, n) OBVIOUS
  <1>6. first => order[1] \in next({}, 1)
    <2>1. {} \cup {order[1]} = {order[1]} OBVIOUS
    <2> QED BY <2>1
  <1> HIDE DEF V, step, next, first
  <1>7. PICK g \in [0 .. N -> V] : Recursion(g, N, {}, step)
    <2>1. Stays(step, N, V) BY <1>3, <1>4 DEF Stays
    <2> QED BY <1>1, <1>2, <2>1, StepsExist
  <1>8. Taken(g)
    <2>1. ASSUME NEW n \in 0 .. N, n # 0 PROVE step[<<n, g[n - 1]>>] = next(g[n - 1], n)
      <3>1. n \in 1 .. N /\ n - 1 \in 0 .. N BY <1>1, <2>1
      <3> QED BY <1>4, <3>1
    <2> QED BY <1>7, <2>1 DEF Recursion
  <1>9. Taken(taken)
    <2> HIDE DEF Taken
    <2> QED BY <1>8
  <1>10. Selected(keys, whole, order, max) = taken[N] BY DEF Selected, N, next
  <1> HIDE DEF taken
  <1>11. taken[0] = {} /\ \A n \in 1 .. N : taken[n] = next(taken[n - 1], n)
    <2>1. \A n \in 0 .. N : taken[n] = IF n = 0 THEN {} ELSE next(taken[n - 1], n) BY <1>9
    <2>2. 0 \in 0 .. N /\ \A n \in 1 .. N : n \in 0 .. N /\ n # 0 BY <1>1
    <2> HIDE DEF Taken
    <2> QED BY <2>1, <2>2
  <1> HIDE DEF Taken
  <1> DEFINE Good == {n \in Nat : n <= N => taken[n] \in V /\ (n >= 1 /\ first => order[1] \in taken[n])}
  <1>12. 0 \in Good
    <2>1. taken[0] \in V BY <1>2, <1>11
    <2>2. 0 \in Nat /\ ~(0 >= 1) OBVIOUS
    <2> QED BY <2>1, <2>2
  <1>13. ASSUME NEW n \in Nat, n \in Good PROVE n + 1 \in Good
    <2> SUFFICES ASSUME n + 1 <= N PROVE taken[n + 1] \in V /\ (first => order[1] \in taken[n + 1]) OBVIOUS
    <2>1. n + 1 \in 1 .. N /\ (n + 1) - 1 = n /\ taken[n] \in V /\ (n >= 1 /\ first => order[1] \in taken[n])
      BY <1>1, <1>13
    <2>2. taken[n + 1] = next(taken[n], n + 1) BY <1>11, <2>1
    <2>3. n = 0 => taken[n] = {} /\ n + 1 = 1 BY <1>11
    <2>4. taken[n + 1] \in V BY <1>3, <2>1, <2>2
    <2>5. CASE n = 0
      <3>1. taken[n + 1] = next({}, 1) BY <2>2, <2>3, <2>5
      <3> QED BY <1>6, <2>4, <3>1
    <2>6. CASE n >= 1
      <3>1. taken[n] \subseteq taken[n + 1] BY <1>5, <2>2
      <3> QED BY <2>1, <2>4, <2>6, <3>1
    <2> QED BY <2>5, <2>6
  <1>14. Nat \subseteq Good
    <2> HIDE DEF Good
    <2> QED BY <1>12, <1>13, NatSteps
  <1>15. taken[N] \in V /\ (first => order[1] \in taken[N]) BY <1>1, <1>14
  <1> QED BY <1>10, <1>15 DEF V, first

\* A prompt as it was made: its room, its size, and the answer in it.
PromptTrue(p) ==
  /\ p.max \in Int
  /\ Size(p.sent.keys, p.sent.whole) + (IF p.sent.marked THEN Marker ELSE 0) <= p.max \/ p.max < Marker
  /\ ~p.sent.marked => p.sent.keys = p.asked /\ p.sent.whole /\ p.cut \subseteq CutUnsaid

AnswerGiven(p) == "computed_answer" \in p.sent.keys \/ Summary["computed_answer"] > p.max - Reserve

LEMMA EvidenceIs ==
  ASSUME DOMAIN got \subseteq Sections
  PROVE  Evidence \in SUBSET Records /\ (computed # None => "computed_answer" \in Evidence)
  BY DEF Evidence, Records

LEMMA CutIs == Excerpts \subseteq CutUnsaid BY DEF Excerpts, CutUnsaid

LEMMA PromptIs ==
  ASSUME DOMAIN got \subseteq Sections, NEW max \in Int
  PROVE  PromptTrue(Prompt(max)) /\ (computed # None => AnswerGiven(Prompt(max)))
  <1> DEFINE all == [keys |-> Evidence, whole |-> TRUE, marked |-> FALSE]
             m == max - Reserve
             rest == Remaining(Evidence, m)
             whole == Size(rest, TRUE) <= m
             some == Fitted(Evidence, Priority, m)
             picked == Selected(rest, whole, Priority, m)
  <1>1. Evidence \in SUBSET Records /\ (computed # None => "computed_answer" \in Evidence) BY EvidenceIs
  <1>2. Prompt(max).max = max /\ Prompt(max).asked = Evidence /\ Prompt(max).cut = Excerpts
        /\ Prompt(max).sent = IF Size(Evidence, TRUE) <= max THEN all ELSE some
    BY DEF Prompt
  <1>3. Reserve \in Nat /\ Marker \in Nat /\ Marker <= Reserve BY AnswerAssumption
  <1>4. Size(Evidence, TRUE) \in Nat BY <1>1, SizesNat
  <1>5. CASE Size(Evidence, TRUE) <= max
    <2>1. Prompt(max).sent = all BY <1>2, <1>5
    <2> DEFINE p == Prompt(max)
    <2>2. p.sent.keys = Evidence /\ p.sent.whole = TRUE /\ p.sent.marked = FALSE /\ p.max = max /\ p.asked = Evidence
          /\ p.cut = Excerpts
      <3>1. all.keys = Evidence /\ all.whole = TRUE /\ all.marked = FALSE OBVIOUS
      <3> HIDE DEF all
      <3> QED BY <1>2, <2>1, <3>1, Zenon
    <2> HIDE DEF p
    <2>3. Size(p.sent.keys, p.sent.whole) + (IF p.sent.marked THEN Marker ELSE 0) <= p.max
      <3>1. Size(p.sent.keys, p.sent.whole) = Size(Evidence, TRUE) BY <2>2, Zenon
      <3>2. (IF p.sent.marked THEN Marker ELSE 0) = 0 BY <2>2, Zenon
      <3> DEFINE size == Size(Evidence, TRUE)
      <3>3. size + 0 <= max
        <4>1. size \in Nat /\ size <= max BY <1>4, <1>5
        <4> HIDE DEF size
        <4> QED BY <4>1
      <3> QED BY <2>2, <3>1, <3>2, <3>3, Zenon
    <2>4. PromptTrue(p)
      <3>1. p.cut \subseteq CutUnsaid BY <2>2, CutIs, Zenon
      <3> QED BY <2>2, <2>3, <3>1 DEF PromptTrue
    <2>5. computed # None => AnswerGiven(p) BY <1>1, <2>2 DEF AnswerGiven
    <2> QED BY <2>4, <2>5 DEF p
  <1>6. CASE ~(Size(Evidence, TRUE) <= max)
    <2>1. Prompt(max).sent = some BY <1>2, <1>6
    <2>2. some = [keys |-> picked, whole |-> whole, marked |-> TRUE] BY DEF Fitted
    <2>3. m \in Int BY <1>3
    <2> HIDE DEF m
    <2>4. rest \in SUBSET Records /\ (computed # None => "computed_answer" \in rest)
      <3>1. rest \in SUBSET Evidence /\ ("computed_answer" \in Evidence => "computed_answer" \in rest)
        BY <1>1, RemainingIs
      <3> QED BY <1>1, <3>1
    <2>5. Len(Priority) \in Nat \ {0} /\ Priority[1] = "computed_answer" BY DEF Priority
    <2>6. whole \in BOOLEAN OBVIOUS
    <2> DEFINE wh == whole
    <2> HIDE DEF rest, wh, whole
    <2>7. /\ picked \in SUBSET rest /\ (picked = {} \/ Size(picked, whole) <= m)
          /\ Priority[1] \in rest /\ Size({Priority[1]}, whole) <= m => Priority[1] \in picked
      BY <2>3, <2>4, <2>5, <2>6, SelectedIs
    <2> HIDE DEF picked, some, all
    <2>8. Size(picked, whole) + Marker <= max \/ max < Marker
      <3>1. CASE picked = {}
        <4>1. Size(picked, whole) = 0 BY <3>1, SizeEmpty
        <4> QED BY <1>3, <4>1
      <3>2. CASE Size(picked, whole) <= m
        <4>1. Size(picked, whole) \in Nat
          <5>1. picked \in SUBSET Records BY <2>4, <2>7
          <5> QED BY <2>6, <5>1, SizesNat
        <4> QED BY <1>3, <3>2, <4>1 DEF m
      <3> QED BY <2>7, <3>1, <3>2
    <2> DEFINE p == Prompt(max)
    <2>12. p.sent.keys = picked /\ p.sent.whole = whole /\ p.sent.marked = TRUE /\ p.max = max
      <3>1. some.keys = picked /\ some.whole = whole /\ some.marked = TRUE
        <4> HIDE DEF whole, picked, some
        <4> QED BY <2>2
      <3> HIDE DEF some
      <3> QED BY <1>2, <2>1, <3>1, Zenon
    <2> HIDE DEF p
    <2>9. PromptTrue(p) BY <2>8, <2>12 DEF PromptTrue
    <2>10. ASSUME computed # None, ~(Summary["computed_answer"] > m) PROVE "computed_answer" \in picked
      <3>1. "computed_answer" \in rest /\ {"computed_answer"} \in SUBSET rest BY <2>4, <2>10
      <3>2. Summary["computed_answer"] \in Nat BY AnswerAssumption DEF Records
      <3>3. Size({"computed_answer"}, whole) <= m
        <4>1. CASE whole
          <5>1. whole = TRUE BY <2>6, <4>1
          <5>2. Size(rest, TRUE) <= m BY <4>1 DEF whole
          <5>3. \A T \in SUBSET rest : Size(T, TRUE) <= Size(rest, TRUE) BY <2>4, SizesNat
          <5>4. Size({"computed_answer"}, TRUE) <= Size(rest, TRUE) BY <3>1, <5>3
          <5>5. Size(rest, TRUE) \in Nat /\ Size({"computed_answer"}, TRUE) \in Nat
            <6>1. {"computed_answer"} \in SUBSET Records BY <2>4, <3>1
            <6> QED BY <2>4, <6>1, SizesNat
          <5> QED
            <6> DEFINE one == Size({"computed_answer"}, TRUE)  all2 == Size(rest, TRUE)
            <6>1. one <= m
              <7>1. one \in Nat /\ all2 \in Nat /\ one <= all2 /\ all2 <= m BY <5>2, <5>4, <5>5
              <7> HIDE DEF one, all2
              <7> QED BY <2>3, <7>1
            <6> QED BY <5>1, <6>1, Zenon
        <4>2. CASE ~whole
          <5>1. whole = FALSE BY <2>6, <4>2
          <5>2. Summary["computed_answer"] <= m BY <2>3, <2>10, <3>2
          <5> QED BY <5>1, <5>2, SizeOfOne, Zenon
        <4> QED BY <4>1, <4>2
      <3> QED BY <2>5, <2>7, <3>1, <3>3
    <2>11. computed # None => AnswerGiven(p) BY <2>10, <2>12 DEF AnswerGiven, m
    <2> QED BY <2>9, <2>11 DEF p
  <1> QED BY <1>5, <1>6

\* A prompt was made of the records, and a model replies to a prompt alone.
AnswerInv ==
  /\ settings.chars \in Int /\ DOMAIN got \subseteq Sections
  /\ at \in {"reading", "read"} => prompt = None
  /\ prompt # None => PromptTrue(prompt) /\ (computed # None => AnswerGiven(prompt))
  /\ at = "idle" /\ computed # None => answer \in {"computed"} \cup ReadOutside \/ (answer = "model" /\ AnswerGiven(prompt))

\* How a call of a provider ends: it failed, or it replied, a model only to a prompt it was sent.
Answered(by) == at' = "idle" /\ answer' = by
NewPrompt == \E max \in Int : prompt' = Prompt(max)
Ended ==
  \/ computed = None /\ at' = "idle"
  \/ Answered("computed") \/ (\E provider \in ReadOutside : Answered(provider))
  \/ Answered("model") /\ NewPrompt

LEMMA CallEnds ==
  ASSUME settings.chars \in Int, NEW provider, NEW ACTION failed, CallProvider(provider, failed)
  PROVE  (UNCHANGED prompt \/ NewPrompt) /\ (failed \/ Ended)
  <1>1. \A p : Room(p) \in Int
    <2>1. Max({settings.chars, Complex}) \in Int BY AnswerAssumption, LargerOf
    <2> QED BY <2>1, AnswerAssumption DEF Room
  <1>2. ASSUME NEW p, Sent(p) PROVE NewPrompt BY <1>1, <1>2 DEF Sent, NewPrompt
  <1>3. ModelReplied("apology") => Ended BY DEF ModelReplied, ReplyBy, Ended, Answered
  <1>4. ModelReplied("model") => Answered("model") BY DEF ModelReplied, ReplyBy, Answered
  <1>5. \A p \in ReadOutside : Odd(p) => Ended BY DEF Odd, ReplyBy, Ended, Answered
  <1>6. ASSUME NEW p, Sent(p), Called(failed) \/ (p \in ReadOutside /\ Odd(p)) PROVE NewPrompt /\ (failed \/ Ended)
    BY <1>2, <1>4, <1>5, <1>6 DEF Called, Ended
  <1>7. Unset(failed) => UNCHANGED prompt /\ failed BY DEF Unset
  <1>8. CASE provider = "local" BY <1>3, <1>8 DEF CallProvider
  <1>9. CASE provider # "local"
    BY <1>6, <1>7, <1>9 DEF CallProvider, CallOpenai, CallCompatible, CallBedrock, CallGoogle, CallOllama, CallCodex,
      CallClaude, ReadOutside
  <1> QED BY <1>8, <1>9

\* What a call leaves: the prompt is the old one or a new one, which says as much.
LEMMA CallKeeps ==
  ASSUME AnswerInv, at # "idle", UNCHANGED <<settings, got, computed>>, UNCHANGED prompt \/ NewPrompt,
         at' \notin {"reading", "read"}, at' = "idle" => Ended
  PROVE  AnswerInv'
  <1>1. \A max \in Int : PromptTrue(Prompt(max)) /\ (computed # None => AnswerGiven(Prompt(max)))
    BY PromptIs DEF AnswerInv
  <1>2. NewPrompt => PromptTrue(prompt') /\ (computed # None => AnswerGiven(prompt')) BY <1>1 DEF NewPrompt
  <1>3. prompt' # None => PromptTrue(prompt') /\ (computed' # None => AnswerGiven(prompt'))
    BY <1>2 DEF AnswerInv
  <1>4. at' = "idle" /\ computed' # None =>
          answer' \in {"computed"} \cup ReadOutside \/ (answer' = "model" /\ AnswerGiven(prompt'))
    BY <1>2 DEF Ended, Answered
  <1> QED BY <1>3, <1>4 DEF AnswerInv, PromptTrue, AnswerGiven

\* For any questions, records, providers and failures: what is known of a prompt until the answer is given.
THEOREM AnswerInvariant == AnswerSpec => []AnswerInv
  <1> DEFINE Inv == AnswerInv /\ settings \in Settings
  <1>1. AnswerInit => Inv
    <2>1. DOMAIN None = {} BY DEF None
    <2> QED BY <2>1, AnswerAssumption DEF AnswerInit, AnswerInv
  <1>2. ASSUME Inv, [AnswerNext]_answerVars PROVE Inv'
    <2>1. CASE UNCHANGED answerVars
      BY <1>2, <2>1 DEF answerVars, AnswerInv, PromptTrue, AnswerGiven
    <2>2. CASE ChangeSettings
      <3>1. settings' \in Settings /\ settings'.chars \in Int BY <2>2, AnswerAssumption DEF ChangeSettings
      <3>2. UNCHANGED <<at, words, got, computed, prompt, answer>> BY <2>2 DEF ChangeSettings
      <3> QED BY <1>2, <3>1, <3>2 DEF AnswerInv, PromptTrue, AnswerGiven
    <2>3. ASSUME NEW w \in Questions, AskQuestion(w) PROVE Inv'
      <3>1. DOMAIN None = {} BY DEF None
      <3>2. at' = "reading" /\ got' = None /\ computed' = None /\ prompt' = None /\ UNCHANGED settings
        BY <2>3 DEF AskQuestion
      <3> QED BY <1>2, <3>1, <3>2 DEF AnswerInv
    <2>4. CASE CollectContext
      <3>1. DOMAIN got' \subseteq Sections BY <2>4 DEF CollectContext, Readings
      <3>2. at' = "read" /\ prompt = None /\ UNCHANGED <<settings, computed, prompt>> BY <1>2, <2>4 DEF CollectContext, AnswerInv
      <3> QED BY <1>2, <3>1, <3>2 DEF AnswerInv
    <2>5. CASE GenerateAnswer
      <3>1. prompt = None /\ prompt' = None /\ UNCHANGED <<settings, got>> BY <1>2, <2>5 DEF GenerateAnswer, AnswerInv
      <3>2. at' = "primary" \/ (at' = "idle" /\ answer' = "computed") BY <2>5 DEF GenerateAnswer, ReplyBy
      <3> QED BY <1>2, <3>1, <3>2 DEF AnswerInv
    <2>6. CASE CallPrimary
      <3>1. at # "idle" /\ UNCHANGED <<settings, got, computed>>
            /\ CallProvider(settings.provider, at' = "fallback" /\ UNCHANGED answer)
        BY <2>6 DEF CallPrimary
      <3>2. (UNCHANGED prompt \/ NewPrompt) /\ ((at' = "fallback" /\ UNCHANGED answer) \/ Ended)
        BY <1>2, <3>1, CallEnds DEF AnswerInv
      <3>3. AnswerInv' BY <1>2, <3>1, <3>2, CallKeeps DEF Ended, Answered
      <3> QED BY <1>2, <3>1, <3>3
    <2>7. CASE CallFallback
      <3>1. at # "idle" /\ UNCHANGED <<settings, got, computed>> BY <2>7 DEF CallFallback
      <3>2. ModelReplied("apology") => Ended BY DEF ModelReplied, ReplyBy, Ended, Answered
      <3>3. (UNCHANGED prompt \/ NewPrompt) /\ Ended
        <4>1. CASE settings.fallback = "" BY <2>7, <3>2, <4>1 DEF CallFallback
        <4>2. CASE settings.fallback # ""
          <5>1. CallProvider(settings.fallback, ModelReplied("apology")) BY <2>7, <4>2 DEF CallFallback
          <5>2. (UNCHANGED prompt \/ NewPrompt) /\ (ModelReplied("apology") \/ Ended)
            <6>1. settings.chars \in Int BY <1>2 DEF AnswerInv
            <6> DEFINE p == settings.fallback
            <6> HIDE DEF p
            <6> QED BY <5>1, <6>1, CallEnds DEF p
          <5> QED BY <3>2, <5>2
        <4> QED BY <4>1, <4>2
      <3>4. AnswerInv' BY <1>2, <3>1, <3>3, CallKeeps DEF Ended, Answered
      <3> QED BY <1>2, <3>1, <3>4
    <2> QED BY <1>2, <2>1, <2>2, <2>3, <2>4, <2>5, <2>6, <2>7 DEF AnswerNext
  <1> QED BY <1>1, <1>2, PTL DEF AnswerSpec

\* For any questions, sizes of records, models and failures of providers: a computed answer is not
\* lost but to a reply that openai's, bedrock's or ollama's call did not expect, and a prompt fits
\* its model and says when a record or its rows are missing from it; the cut of a document's text or
\* of a turn to an excerpt is the exception it does not say.
THEOREM AnswersAreHonest == AnswerSpec => []AnswersHonest
  <1>1. AnswerInv => AnswersHonest
    BY DEF AnswerInv, AnswersHonest, ComputedStands, PromptHonest, PromptTrue, AnswerGiven, CutUnsaid
  <1> QED BY <1>1, AnswerInvariant, PTL

-----------------------------------------------------------------------------
(* The solar bookkeeping: the energy of an interval.                         *)

Adds(F, f, n) == F[0] = 0 /\ \A j \in 0 .. n - 1 : f[j] \in Int /\ F[j + 1] = F[j] + f[j]

LEMMA SumUpTo ==
  ASSUME NEW f, NEW n \in Nat, NEW F, Adds(F, f, n)
  PROVE  SumFunctionOnSet(f, 0 .. n - 1) = F[n]
  <1> DEFINE S == 0 .. n - 1
             Good == {k \in Nat : k <= n => SumFunctionOnSet(f, 0 .. k - 1) = F[k]}
  <1>1. IsFiniteSet(S) /\ Ints(f, S) BY FS_Interval DEF Ints, Adds
  <1>2. 0 \in Good
    <2>1. 0 .. 0 - 1 = {} OBVIOUS
    <2> QED BY <2>1, SumEmpty DEF Adds
  <1>3. ASSUME NEW k \in Nat, k \in Good PROVE k + 1 \in Good
    <2> SUFFICES ASSUME k + 1 <= n PROVE SumFunctionOnSet(f, 0 .. (k + 1) - 1) = F[k + 1] OBVIOUS
    <2> DEFINE T == 0 .. k - 1
    <2>1. k \in S \ T /\ T \in SUBSET S /\ 0 .. (k + 1) - 1 = T \cup {k} OBVIOUS
    <2>2. SumFunctionOnSet(f, T) = F[k] BY <1>3
    <2> HIDE DEF S, T
    <2>3. \A x \in S \ T : SumFunctionOnSet(f, T \cup {x}) = SumFunctionOnSet(f, T) + f[x] BY <1>1, <2>1, SumGrows
    <2>4. SumFunctionOnSet(f, T \cup {k}) = SumFunctionOnSet(f, T) + f[k] BY <2>1, <2>3
    <2>5. k \in 0 .. n - 1 BY <2>1 DEF S
    <2> QED BY <2>1, <2>2, <2>4, <2>5 DEF Adds
  <1>4. Nat \subseteq Good
    <2> HIDE DEF Good
    <2> QED BY <1>2, <1>3, NatSteps
  <1> QED BY <1>4

\* What the provers need to be told of products.
LEMMA Products ==
  /\ \A a, b \in Int : a * b \in Int /\ a * b = b * a
  /\ \A a, b, c \in Int : (a + b) * c = a * c + b * c /\ (a - b) * c = a * c - b * c /\ a * (b * c) = (a * b) * c
  /\ \A a, b \in Nat : a * b \in Nat
  OBVIOUS

\* The area under the line from u to v, above 0, cut into Scale pieces.
Above(u, v, j) == Larger(u * (Scale - j) + v * j, 0)
Pieces(u, v) == [j \in 0 .. Scale - 1 |-> Above(u, v, j) + Above(u, v, j + 1)]

LEMMA LineTyped ==
  ASSUME NEW u \in Int, NEW v \in Int, NEW j \in Int
  PROVE  /\ u * (Scale - j) + v * j \in Int /\ Above(u, v, j) \in Nat
         /\ u * (Scale - j) + v * j = u * Scale + (v - u) * j
  <1>1. Scale \in Int BY PowerAssumption
  <1>2. u * (Scale - j) = u * Scale - u * j BY <1>1
  <1>3. (v - u) * j = v * j - u * j OBVIOUS
  <1>4. u * Scale \in Int /\ u * j \in Int /\ v * j \in Int BY <1>1
  <1> QED BY <1>2, <1>3, <1>4 DEF Above, Larger

LEMMA PiecesSum ==
  ASSUME NEW u \in Int, NEW v \in Int, NEW F, F[0] = 0,
         \A j \in 0 .. Scale - 1 : F[j + 1] = F[j] + (Above(u, v, j) + Above(u, v, j + 1))
  PROVE  SumFunctionOnSet(Pieces(u, v), 0 .. Scale - 1) = F[Scale]
  <1> DEFINE f == Pieces(u, v)
  <1>1. \A j \in 0 .. Scale - 1 : f[j] = Above(u, v, j) + Above(u, v, j + 1) BY DEF Pieces
  <1>2. \A j \in Int : Above(u, v, j) \in Nat BY LineTyped
  <1>3. Scale \in Nat BY PowerAssumption
  <1>4. \A j \in 0 .. Scale - 1 : f[j] \in Int /\ F[j + 1] = F[j] + f[j]
    <2> SUFFICES ASSUME NEW j \in 0 .. Scale - 1 PROVE f[j] \in Int /\ F[j + 1] = F[j] + f[j] OBVIOUS
    <2>1. F[j + 1] = F[j] + (Above(u, v, j) + Above(u, v, j + 1)) OBVIOUS
    <2>2. Above(u, v, j) + Above(u, v, j + 1) \in Int BY <1>2
    <2> HIDE DEF f
    <2> QED BY <1>1, <2>1, <2>2
  <1> HIDE DEF f
  <1>5. Adds(F, f, Scale) BY <1>4 DEF Adds
  <1> QED BY <1>3, <1>5, SumUpTo DEF f

AreaOf(u, v) == SumFunctionOnSet(Pieces(u, v), 0 .. Scale - 1)

\* Squares, by which the pieces add up.
LEMMA StepUp ==
  ASSUME NEW c \in Int, NEW b \in Int, NEW j \in Int
  PROVE  (j + 1) * (c + c + b * (j + 1)) = j * (c + c + b * j) + ((c + b * j) + (c + b * (j + 1)))
  OBVIOUS

LEMMA StepDown ==
  ASSUME NEW d \in Int, NEW z \in Int, NEW j \in Int
  PROVE  /\ d * ((j + 1) * (z + z - (j + 1))) = d * (j * (z + z - j)) + (d * (z - j) + d * (z - (j + 1)))
         /\ d * (((j + 1) - z) * ((j + 1) - z)) = d * ((j - z) * (j - z)) + (d * (j - z) + d * ((j + 1) - z))
  OBVIOUS

LEMMA AreaSame ==
  ASSUME NEW u \in Nat, NEW v \in Nat
  PROVE  AreaOf(u, v) = (u + v) * (Scale * Scale)
  <1> DEFINE c == u * Scale  b == v - u
             F == [k \in 0 .. Scale |-> k * (c + c + b * k)]
  <1>1. Scale \in Nat /\ c \in Int /\ b \in Int BY PowerAssumption
  <1>2. \A j \in 0 .. Scale : Above(u, v, j) = c + b * j
    <2> SUFFICES ASSUME NEW j \in 0 .. Scale PROVE Above(u, v, j) = c + b * j OBVIOUS
    <2>1. u * (Scale - j) \in Nat /\ v * j \in Nat
      <3>1. Scale - j \in Nat /\ j \in Nat BY <1>1
      <3> QED BY <3>1, Products
    <2>2. u * (Scale - j) + v * j = c + b * j
      <3>1. u \in Int /\ v \in Int /\ j \in Int OBVIOUS
      <3>2. u * (Scale - j) + v * j = u * Scale + (v - u) * j BY <3>1, LineTyped
      <3> QED BY <3>2
    <2> QED BY <2>1, <2>2 DEF Above, Larger
  <1> HIDE DEF c, b
  <1>3. \A j \in 0 .. Scale : F[j] = j * (c + c + b * j) OBVIOUS
  <1> HIDE DEF F
  <1>4. F[0] = 0
    <2>1. 0 \in 0 .. Scale /\ c + c + b * 0 \in Int BY <1>1
    <2> QED BY <1>3, <2>1
  <1>5. \A j \in 0 .. Scale - 1 : F[j + 1] = F[j] + (Above(u, v, j) + Above(u, v, j + 1))
    <2> SUFFICES ASSUME NEW j \in 0 .. Scale - 1 PROVE F[j + 1] = F[j] + (Above(u, v, j) + Above(u, v, j + 1)) OBVIOUS
    <2>1. j \in Int /\ j \in 0 .. Scale /\ j + 1 \in 0 .. Scale BY <1>1
    <2>2. (j + 1) * (c + c + b * (j + 1)) = j * (c + c + b * j) + ((c + b * j) + (c + b * (j + 1))) BY <1>1, <2>1, StepUp
    <2> QED BY <1>2, <1>3, <2>1, <2>2
  <1>6. AreaOf(u, v) = F[Scale] BY <1>4, <1>5, PiecesSum DEF AreaOf
  <1>7. F[Scale] = Scale * (c + c + b * Scale) BY <1>1, <1>3
  <1>8. Scale * (c + c + b * Scale) = (u + v) * (Scale * Scale)
    <2>1. c + c + b * Scale = (u + v) * Scale BY <1>1 DEF c, b
    <2>2. Scale * ((u + v) * Scale) = (u + v) * (Scale * Scale) BY <1>1
    <2> QED BY <2>1, <2>2
  <1> QED BY <1>6, <1>7, <1>8

LEMMA AreaNone ==
  ASSUME NEW u \in Int, NEW v \in Int, u <= 0, v <= 0
  PROVE  AreaOf(u, v) = 0
  <1> DEFINE F == [k \in 0 .. Scale |-> 0]
  <1>1. Scale \in Nat BY PowerAssumption
  <1>2. \A j \in 0 .. Scale : Above(u, v, j) = 0
    <2> SUFFICES ASSUME NEW j \in 0 .. Scale PROVE Above(u, v, j) = 0 OBVIOUS
    <2>1. (-u) * (Scale - j) \in Nat /\ (-v) * j \in Nat
      <3>1. Scale - j \in Nat /\ j \in Nat /\ -u \in Nat /\ -v \in Nat BY <1>1
      <3> QED BY <3>1, Products
    <2>2. (-u) * (Scale - j) = -(u * (Scale - j)) /\ (-v) * j = -(v * j) BY <1>1
    <2>3. u * (Scale - j) \in Int /\ v * j \in Int BY <1>1
    <2>4. u * (Scale - j) + v * j <= 0
      <3> DEFINE x == u * (Scale - j)  y == v * j  xx == (-u) * (Scale - j)  yy == (-v) * j
      <3>1. x \in Int /\ y \in Int /\ xx = -x /\ yy = -y /\ xx \in Nat /\ yy \in Nat BY <2>1, <2>2, <2>3
      <3>2. x + y <= 0
        <4> HIDE DEF x, y, xx, yy
        <4> QED BY <3>1
      <3> QED BY <3>2
    <2> QED BY <2>3, <2>4 DEF Above, Larger
  <1>3. \A j \in 0 .. Scale - 1 : F[j + 1] = F[j] + (Above(u, v, j) + Above(u, v, j + 1)) BY <1>1, <1>2
  <1>4. F[0] = 0 /\ F[Scale] = 0 BY <1>1
  <1> HIDE DEF F
  <1>5. AreaOf(u, v) = F[Scale] BY <1>3, <1>4, PiecesSum DEF AreaOf
  <1> QED BY <1>4, <1>5

LEMMA AreaDown ==
  ASSUME NEW u \in Nat \ {0}, NEW v \in Int, v < 0, NEW k \in Nat, Scale = k * (u - v)
  PROVE  AreaOf(u, v) = (u - v) * ((k * u) * (k * u))
  <1> DEFINE d == u - v  z == k * u
             F == [n \in 0 .. Scale |-> IF n <= z THEN d * (n * (z + z - n)) ELSE d * (z * z)]
  <1>1. Scale \in Nat /\ d \in Nat /\ d > 0 /\ z \in Nat /\ k * d = Scale /\ u <= d
    BY PowerAssumption
  <1>2. z <= Scale
    <2>1. k * (d - u) \in Nat /\ k * (d - u) = k * d - k * u BY <1>1
    <2>2. k * d \in Int /\ k * u \in Int BY <1>1
    <2> QED BY <1>1, <2>1, <2>2
  <1>3. \A j \in 0 .. Scale : Above(u, v, j) = IF j <= z THEN d * (z - j) ELSE 0
    <2> SUFFICES ASSUME NEW j \in 0 .. Scale PROVE Above(u, v, j) = IF j <= z THEN d * (z - j) ELSE 0 OBVIOUS
    <2>1. u * (Scale - j) + v * j = d * (z - j)
      <3>1. u * (Scale - j) + v * j = u * Scale + (v - u) * j BY LineTyped
      <3>2. u * Scale = d * z BY <1>1
      <3>3. (v - u) * j = -(d * j) /\ d * (z - j) = d * z - d * j /\ d * j \in Int /\ d * z \in Int BY <1>1
      <3> QED BY <3>1, <3>2, <3>3
    <2> HIDE DEF d, z
    <2>2. j <= z => d * (z - j) \in Nat BY <1>1
    <2>3. j > z => d * (j - z) \in Nat /\ d * (z - j) = -(d * (j - z)) BY <1>1
    <2>4. j > z => d * (z - j) <= 0 BY <2>3
    <2>5. d * (z - j) \in Int BY <1>1
    <2> QED BY <1>1, <2>1, <2>2, <2>4, <2>5 DEF Above, Larger
  <1> HIDE DEF d, z
  <1>4. \A n \in 0 .. Scale : F[n] = IF n <= z THEN d * (n * (z + z - n)) ELSE d * (z * z) OBVIOUS
  <1> HIDE DEF F
  <1>5. F[0] = 0 BY <1>1, <1>4
  <1>6. \A j \in 0 .. Scale - 1 : F[j + 1] = F[j] + (Above(u, v, j) + Above(u, v, j + 1))
    <2> SUFFICES ASSUME NEW j \in 0 .. Scale - 1 PROVE F[j + 1] = F[j] + (Above(u, v, j) + Above(u, v, j + 1)) OBVIOUS
    <2>1. j \in Int /\ j \in 0 .. Scale /\ j + 1 \in 0 .. Scale BY <1>1
    <2>2. d * ((j + 1) * (z + z - (j + 1))) = d * (j * (z + z - j)) + (d * (z - j) + d * (z - (j + 1)))
      BY <1>1, <2>1, StepDown
    <2>3. CASE j + 1 <= z
      <3>1. j <= z BY <1>1, <2>1, <2>3
      <3> QED BY <1>3, <1>4, <2>1, <2>2, <2>3, <3>1
    <2>4. CASE j = z
      <3>1. F[j] = d * (z * z)
        <4>1. z + z - z = z BY <1>1
        <4> QED BY <1>1, <1>4, <2>1, <2>4, <4>1
      <3>2. F[j + 1] = d * (z * z) BY <1>1, <1>4, <2>1, <2>4
      <3>3. Above(u, v, j) = 0 /\ Above(u, v, j + 1) = 0 BY <1>1, <1>3, <2>1, <2>4
      <3>4. d * (z * z) \in Int BY <1>1
      <3> QED BY <3>1, <3>2, <3>3, <3>4
    <2>5. CASE j > z
      <3>1. F[j] = d * (z * z) /\ F[j + 1] = d * (z * z) BY <1>1, <1>4, <2>1, <2>5
      <3>2. Above(u, v, j) = 0 /\ Above(u, v, j + 1) = 0 BY <1>1, <1>3, <2>1, <2>5
      <3>3. d * (z * z) \in Int BY <1>1
      <3> QED BY <3>1, <3>2, <3>3
    <2> QED BY <1>1, <2>1, <2>3, <2>4, <2>5
  <1>7. AreaOf(u, v) = F[Scale] BY <1>5, <1>6, PiecesSum DEF AreaOf
  <1>8. F[Scale] = d * (z * z)
    <2>0. Scale \in 0 .. Scale BY <1>1
    <2>1. CASE Scale = z
      <3>1. z + z - z = z /\ z \in 0 .. Scale /\ z <= z BY <1>1, <2>1
      <3>2. F[z] = d * (z * (z + z - z)) BY <1>4, <3>1
      <3> QED BY <2>1, <3>1, <3>2
    <2>2. CASE Scale # z
      <3>1. ~(Scale <= z) BY <1>1, <1>2, <2>2
      <3> QED BY <1>4, <2>0, <3>1
    <2> QED BY <2>1, <2>2
  <1> QED BY <1>7, <1>8 DEF d, z

LEMMA AreaUp ==
  ASSUME NEW u \in Int, u < 0, NEW v \in Nat \ {0}, NEW k \in Nat, Scale = k * (v - u)
  PROVE  AreaOf(u, v) = (v - u) * ((k * v) * (k * v))
  <1> DEFINE d == v - u  z == k * (-u)
             F == [n \in 0 .. Scale |-> IF n <= z THEN 0 ELSE d * ((n - z) * (n - z))]
  <1>1. Scale \in Nat /\ d \in Nat /\ d > 0 /\ z \in Nat /\ k * d = Scale /\ -u <= d
    BY PowerAssumption
  <1>2. z <= Scale /\ Scale - z = k * v
    <2>1. k * v \in Nat /\ k * d - k * (-u) = k * v BY <1>1
    <2>2. k * d \in Int /\ k * (-u) \in Int BY <1>1
    <2> QED BY <1>1, <2>1, <2>2
  <1>3. \A j \in 0 .. Scale : Above(u, v, j) = IF j <= z THEN 0 ELSE d * (j - z)
    <2> SUFFICES ASSUME NEW j \in 0 .. Scale PROVE Above(u, v, j) = IF j <= z THEN 0 ELSE d * (j - z) OBVIOUS
    <2>1. u * (Scale - j) + v * j = d * (j - z)
      <3>1. u * (Scale - j) + v * j = u * Scale + (v - u) * j BY LineTyped
      <3>2. u * Scale = -(d * z) BY <1>1
      <3>3. (v - u) * j = d * j /\ d * (j - z) = d * j - d * z /\ d * j \in Int /\ d * z \in Int BY <1>1
      <3> QED BY <3>1, <3>2, <3>3
    <2> HIDE DEF d, z
    <2>2. j > z => d * (j - z) \in Nat BY <1>1
    <2>3. j <= z => d * (z - j) \in Nat /\ d * (j - z) = -(d * (z - j)) BY <1>1
    <2>4. j <= z => d * (j - z) <= 0 BY <2>3
    <2>5. d * (j - z) \in Int BY <1>1
    <2> QED BY <1>1, <2>1, <2>2, <2>4, <2>5 DEF Above, Larger
  <1> HIDE DEF d, z
  <1>4. \A n \in 0 .. Scale : F[n] = IF n <= z THEN 0 ELSE d * ((n - z) * (n - z)) OBVIOUS
  <1> HIDE DEF F
  <1>5. F[0] = 0 BY <1>1, <1>4
  <1>6. \A j \in 0 .. Scale - 1 : F[j + 1] = F[j] + (Above(u, v, j) + Above(u, v, j + 1))
    <2> SUFFICES ASSUME NEW j \in 0 .. Scale - 1 PROVE F[j + 1] = F[j] + (Above(u, v, j) + Above(u, v, j + 1)) OBVIOUS
    <2>1. j \in Int /\ j \in 0 .. Scale /\ j + 1 \in 0 .. Scale BY <1>1
    <2>2. d * (((j + 1) - z) * ((j + 1) - z)) = d * ((j - z) * (j - z)) + (d * (j - z) + d * ((j + 1) - z))
      BY <1>1, <2>1, StepDown
    <2>3. CASE j > z
      <3>1. j + 1 > z BY <1>1, <2>1, <2>3
      <3> QED BY <1>1, <1>3, <1>4, <2>1, <2>2, <2>3, <3>1
    <2>4. CASE j = z
      <3>1. F[j] = 0 /\ Above(u, v, j) = 0 BY <1>1, <1>3, <1>4, <2>1, <2>4
      <3>2. (j + 1) - z = 1 BY <1>1, <2>1, <2>4
      <3>3. F[j + 1] = d * (1 * 1) /\ Above(u, v, j + 1) = d * 1 BY <1>1, <1>3, <1>4, <2>1, <2>4, <3>2
      <3> QED BY <1>1, <3>1, <3>3
    <2>5. CASE j + 1 <= z
      <3>1. j <= z BY <1>1, <2>1, <2>5
      <3> QED BY <1>1, <1>3, <1>4, <2>1, <2>5, <3>1
    <2> QED BY <1>1, <2>1, <2>3, <2>4, <2>5
  <1>7. AreaOf(u, v) = F[Scale] BY <1>5, <1>6, PiecesSum DEF AreaOf
  <1>8. F[Scale] = d * ((Scale - z) * (Scale - z))
    <2>1. CASE Scale = z BY <1>1, <1>4, <2>1
    <2>2. CASE Scale # z BY <1>1, <1>2, <1>4, <2>2
    <2> QED BY <2>1, <2>2
  <1> QED BY <1>2, <1>7, <1>8 DEF d

LEMMA Exact ==
  ASSUME NEW a \in Nat, NEW n \in Nat \ {0}
  PROVE  (a * n) \div n = a
  <1> DEFINE q == (a * n) \div n
  <1>1. a * n \in Nat BY Products
  <1>2. q \in Nat /\ n * q <= a * n /\ a * n < n * q + n
    <2> DEFINE b == a * n
    <2>1. b \in Nat BY <1>1
    <2> HIDE DEF b
    <2>2. b \div n \in Nat /\ n * (b \div n) <= b /\ b < n * (b \div n) + n BY <2>1
    <2> USE DEF b
    <2> QED BY <2>2
  <1> HIDE DEF q
  <1>3. n * (a - q) >= 0 /\ n * (a - q) < n BY <1>1, <1>2
  <1>4. a - q >= 0 BY <1>2, <1>3
  <1>5. a - q < 1 BY <1>2, <1>3
  <1>6. a = q BY <1>2, <1>4, <1>5
  <1> QED BY <1>6 DEF q

LEMMA Divided ==
  ASSUME NEW n \in Nat \ {0}, Scale % n = 0
  PROVE  \E k \in Nat : Scale = k * n
  <1>1. Scale \in Nat BY PowerAssumption
  <1>2. Scale \div n \in Nat /\ Scale = n * (Scale \div n) + (Scale % n) BY <1>1
  <1>3. Scale = (Scale \div n) * n BY <1>2
  <1> QED BY <1>2, <1>3

LEMMA SignedArea ==
  ASSUME NEW p \in Int, NEW q \in Int, NEW sign \in {1, -1}
  PROVE  Area(p, q, sign) = AreaOf(sign * p, sign * q)
  <1> DEFINE u == sign * p  v == sign * q
  <1>1. u \in Int /\ v \in Int /\ Scale \in Nat BY PowerAssumption
  <1>2. \A j \in Int : sign * Line(p, q, j) = u * (Scale - j) + v * j
    <2> SUFFICES ASSUME NEW j \in Int PROVE sign * Line(p, q, j) = u * (Scale - j) + v * j OBVIOUS
    <2>1. CASE sign = 1 BY <1>1, <2>1 DEF Line
    <2>2. CASE sign = -1 BY <1>1, <2>2 DEF Line
    <2> QED BY <2>1, <2>2
  <1>3. \A j \in 0 .. Scale - 1 :
          Larger(sign * Line(p, q, j), 0) + Larger(sign * Line(p, q, j + 1), 0) = Above(u, v, j) + Above(u, v, j + 1)
    <2> SUFFICES ASSUME NEW j \in 0 .. Scale - 1
                 PROVE  Larger(sign * Line(p, q, j), 0) + Larger(sign * Line(p, q, j + 1), 0)
                          = Above(u, v, j) + Above(u, v, j + 1) OBVIOUS
    <2>1. j \in Int /\ j + 1 \in Int BY <1>1
    <2>2. /\ sign * Line(p, q, j) = u * (Scale - j) + v * j
          /\ sign * Line(p, q, j + 1) = u * (Scale - (j + 1)) + v * (j + 1) BY <1>2, <2>1
    <2> HIDE DEF u, v
    <2> QED BY <2>2 DEF Above
  <1> HIDE DEF u, v
  <1>4. [j \in 0 .. Scale - 1 |-> Larger(sign * Line(p, q, j), 0) + Larger(sign * Line(p, q, j + 1), 0)] = Pieces(u, v)
    BY <1>3 DEF Pieces
  <1>5. DOMAIN Pieces(u, v) = 0 .. Scale - 1 BY DEF Pieces
  <1>6. Area(p, q, sign) = SumFunctionOnSet(Pieces(u, v), 0 .. Scale - 1)
    BY <1>4, <1>5 DEF Area, SumFunction
  <1> QED BY <1>6 DEF AreaOf, u, v

\* What Energy says of signed powers.
Triangle(u, v, secs) == LET peak == Larger(u, v) IN (peak * peak * secs * Scale) \div (Larger(u, -u) + Larger(v, -v))
Trapezoid(u, v, secs) == (Larger(u, 0) + Larger(v, 0)) * secs * Scale

Opposite(u, v) == (u > 0 /\ v < 0) \/ (u < 0 /\ v > 0)
Alike(u, v) == (u >= 0 /\ v >= 0) \/ (u <= 0 /\ v <= 0)

\* Where the power changes sign nothing is rounded.
LEMMA TriangleIs ==
  ASSUME NEW n \in Nat \ {0}, NEW k \in Nat, Scale = k * n, NEW peak \in Nat, NEW secs \in Nat
  PROVE  /\ peak * peak * secs * k \in Nat
         /\ (peak * peak * secs * Scale) \div n = peak * peak * secs * k
  <1> DEFINE a == peak * peak * secs * k
  <1>1. a \in Nat
    <2>1. peak * peak \in Nat BY Products
    <2>2. peak * peak * secs \in Nat BY <2>1, Products
    <2> QED BY <2>2, Products
  <1>2. peak * peak * secs * Scale = a * n OBVIOUS
  <1>3. (a * n) \div n = a
    <2> HIDE DEF a
    <2> QED BY <1>1, Exact
  <1> QED BY <1>1, <1>2, <1>3

LEMMA TriangleArea ==
  ASSUME NEW u \in Int, NEW v \in Int, NEW secs \in Nat,
         Opposite(u, v), Scale % (Larger(u, -u) + Larger(v, -v)) = 0
  PROVE  Triangle(u, v, secs) \in Nat /\ Triangle(u, v, secs) * Scale = AreaOf(u, v) * secs
  <1> DEFINE n == Larger(u, -u) + Larger(v, -v)  peak == Larger(u, v)
  <1>1. Scale \in Nat /\ n \in Nat \ {0} /\ peak \in Nat \ {0}
        /\ (u > 0 /\ v < 0 => n = u - v /\ peak = u) /\ (u < 0 /\ v > 0 => n = v - u /\ peak = v)
    BY PowerAssumption DEF Larger, Opposite
  <1>2. PICK k \in Nat : Scale = k * n BY <1>1, Divided
  <1>3. Triangle(u, v, secs) = (peak * peak * secs * Scale) \div n BY DEF Triangle
  <1>9. AreaOf(u, v) = n * ((k * peak) * (k * peak))
    <2>1. CASE u > 0 /\ v < 0
      <3>1. u \in Nat \ {0} /\ Scale = k * (u - v) BY <1>1, <1>2, <2>1
      <3>2. AreaOf(u, v) = (u - v) * ((k * u) * (k * u)) BY <2>1, <3>1, AreaDown
      <3> QED BY <1>1, <2>1, <3>2
    <2>2. CASE u < 0 /\ v > 0
      <3>1. v \in Nat \ {0} /\ Scale = k * (v - u) BY <1>1, <1>2, <2>2
      <3>2. AreaOf(u, v) = (v - u) * ((k * v) * (k * v)) BY <2>2, <3>1, AreaUp
      <3> QED BY <1>1, <2>2, <3>2
    <2> QED BY <2>1, <2>2 DEF Opposite
  <1> HIDE DEF n, peak
  <1>6. Triangle(u, v, secs) \in Nat /\ Triangle(u, v, secs) = peak * peak * secs * k BY <1>1, <1>2, <1>3, TriangleIs
  <1>7. (peak * peak * secs * k) * Scale = (n * ((k * peak) * (k * peak))) * secs BY <1>1, <1>2
  <1> QED BY <1>6, <1>7, <1>9

LEMMA TrapezoidArea ==
  ASSUME NEW u \in Int, NEW v \in Int, NEW secs \in Nat, Alike(u, v)
  PROVE  Trapezoid(u, v, secs) \in Nat /\ Trapezoid(u, v, secs) * Scale = AreaOf(u, v) * secs
  <1>1. Scale \in Nat BY PowerAssumption
  <1>2. CASE u >= 0 /\ v >= 0
    <2>1. Larger(u, 0) + Larger(v, 0) = u + v /\ u \in Nat /\ v \in Nat BY <1>2 DEF Larger
    <2>2. AreaOf(u, v) = (u + v) * (Scale * Scale) BY <2>1, AreaSame
    <2>3. Trapezoid(u, v, secs) = (u + v) * secs * Scale BY <2>1 DEF Trapezoid
    <2>4. (u + v) * secs * Scale \in Nat
      <3>1. u + v \in Nat BY <2>1
      <3>2. (u + v) * secs \in Nat BY <3>1, Products
      <3> QED BY <1>1, <3>2, Products
    <2>5. ((u + v) * secs * Scale) * Scale = ((u + v) * (Scale * Scale)) * secs BY <1>1
    <2> QED BY <2>2, <2>3, <2>4, <2>5
  <1>3. CASE u <= 0 /\ v <= 0
    <2>1. Larger(u, 0) + Larger(v, 0) = 0 BY <1>3 DEF Larger
    <2>2. AreaOf(u, v) = 0 BY <1>3, AreaNone
    <2>3. Trapezoid(u, v, secs) = 0 * secs * Scale BY <2>1 DEF Trapezoid
    <2> QED BY <1>1, <2>2, <2>3
  <1> QED BY <1>2, <1>3 DEF Alike

\* The powers of two observations of which the energy counts.
Powers(p, q) ==
  /\ p \in Int /\ q \in Int
  /\ p > 0 /\ q < 0 => Scale % (p - q) = 0
  /\ q > 0 /\ p < 0 => Scale % (q - p) = 0

\* The energy of an interval is the area under the line between its powers.
LEMMA EnergyIsArea ==
  ASSUME NEW p, NEW q, Powers(p, q), NEW sign \in {1, -1}, NEW secs \in Nat
  PROVE  Energy(p, q, sign, secs) \in Nat /\ Energy(p, q, sign, secs) * Scale = Area(p, q, sign) * secs
  <1> DEFINE u == sign * p  v == sign * q
  <1>1. p \in Int /\ q \in Int /\ (sign = 1 => u = p /\ v = q) /\ (sign = -1 => u = -p /\ v = -q) BY DEF Powers
  <1> HIDE DEF u, v
  <1>2. u \in Int /\ v \in Int /\ Larger(u, -u) + Larger(v, -v) = Larger(p, -p) + Larger(q, -q) BY <1>1 DEF Larger
  <1>3. Area(p, q, sign) = AreaOf(u, v) BY <1>1, SignedArea DEF u, v
  <1>4. CASE Opposite(p, q)
    <2>1. p * q < 0
      <3>1. CASE p > 0 /\ q < 0
        <4>1. p \in Nat /\ -q \in Nat /\ p >= 1 /\ -q >= 1 BY <1>1, <3>1
        <4>2. p * (-q) >= 1 /\ p * (-q) = -(p * q) /\ p * q \in Int BY <1>1, <4>1
        <4> QED BY <4>2
      <3>2. CASE p < 0 /\ q > 0
        <4>1. q \in Nat /\ -p \in Nat /\ q >= 1 /\ -p >= 1 BY <1>1, <3>2
        <4>2. (-p) * q >= 1 /\ (-p) * q = -(p * q) /\ p * q \in Int BY <1>1, <4>1
        <4> QED BY <4>2
      <3> QED BY <1>4, <3>1, <3>2 DEF Opposite
    <2>2. Energy(p, q, sign, secs) = Triangle(u, v, secs)
      <3>1. Energy(p, q, sign, secs)
              = (Larger(u, v) * Larger(u, v) * secs * Scale) \div (Larger(p, -p) + Larger(q, -q))
        BY <2>1 DEF Energy, u, v
      <3> QED BY <1>2, <3>1 DEF Triangle
    <2>3. Opposite(u, v) BY <1>1, <1>4 DEF Opposite
    <2>4. Scale % (Larger(u, -u) + Larger(v, -v)) = 0
      <3>1. Scale % (Larger(p, -p) + Larger(q, -q)) = 0 BY <1>1, <1>4 DEF Larger, Powers, Opposite
      <3> QED BY <1>2, <3>1
    <2>5. Triangle(u, v, secs) \in Nat /\ Triangle(u, v, secs) * Scale = AreaOf(u, v) * secs
      BY <1>2, <2>3, <2>4, TriangleArea
    <2> QED BY <1>3, <2>2, <2>5
  <1>5. CASE Alike(p, q)
    <2>1. ~(p * q < 0)
      <3>1. CASE p >= 0 /\ q >= 0
        <4>1. p * q \in Nat BY <1>1, <3>1, Products
        <4> QED BY <4>1
      <3>2. CASE p <= 0 /\ q <= 0
        <4>1. -p \in Nat /\ -q \in Nat BY <1>1, <3>2
        <4>2. (-p) * (-q) \in Nat /\ (-p) * (-q) = p * q BY <1>1, <4>1, Products
        <4> QED BY <4>2
      <3> QED BY <1>5, <3>1, <3>2 DEF Alike
    <2>2. Energy(p, q, sign, secs) = Trapezoid(u, v, secs) BY <2>1 DEF Energy, Trapezoid, u, v
    <2>3. Alike(u, v) BY <1>1, <1>5 DEF Alike
    <2>4. Trapezoid(u, v, secs) \in Nat /\ Trapezoid(u, v, secs) * Scale = AreaOf(u, v) * secs
      BY <1>2, <2>3, TrapezoidArea
    <2> QED BY <1>3, <2>2, <2>4
  <1>6. Opposite(p, q) \/ Alike(p, q) BY <1>1 DEF Opposite, Alike
  <1> QED BY <1>4, <1>5, <1>6

\* The net energy of an interval is its charge less its discharge.
LEMMA EnergyNets ==
  ASSUME NEW p, NEW q, Powers(p, q), NEW secs \in Nat
  PROVE  Energy(p, q, 1, secs) - Energy(p, q, -1, secs) = (p + q) * secs * Scale
  <1>1. p \in Int /\ q \in Int /\ Scale \in Nat BY PowerAssumption DEF Powers
  <1>2. 1 * p = p /\ 1 * q = q /\ (-1) * p = -p /\ (-1) * q = -q BY <1>1
  <1>3. CASE p * q < 0
    <2> DEFINE n == Larger(p, -p) + Larger(q, -q)
    <2>1. Opposite(p, q)
      <3>1. p # 0 /\ q # 0 BY <1>1, <1>3
      <3>2. ~(p > 0 /\ q > 0)
        <4> SUFFICES ASSUME p > 0 /\ q > 0 PROVE FALSE OBVIOUS
        <4>1. p \in Nat /\ q \in Nat BY <1>1
        <4>2. p * q \in Nat BY <4>1, Products
        <4> QED BY <1>3, <4>2
      <3>3. ~(p < 0 /\ q < 0)
        <4> SUFFICES ASSUME p < 0 /\ q < 0 PROVE FALSE OBVIOUS
        <4>1. -p \in Nat /\ -q \in Nat BY <1>1
        <4>2. (-p) * (-q) \in Nat /\ (-p) * (-q) = p * q BY <1>1, <4>1, Products
        <4> QED BY <1>3, <4>2
      <3> QED BY <1>1, <3>1, <3>2, <3>3 DEF Opposite
    <2>2. n \in Nat \ {0} /\ Scale % n = 0 BY <1>1, <2>1 DEF Opposite, Powers, Larger
    <2>3. PICK k \in Nat : Scale = k * n BY <2>2, Divided
    <2> DEFINE up == Larger(p, q)  down == Larger(-p, -q)
    <2>4. up \in Nat /\ down \in Nat /\ up + down = n /\ up - down = p + q BY <1>1, <2>1 DEF Larger, Opposite
    <2>5. /\ Energy(p, q, 1, secs) = (up * up * secs * Scale) \div n
          /\ Energy(p, q, -1, secs) = (down * down * secs * Scale) \div n
      BY <1>2, <1>3 DEF Energy
    <2> HIDE DEF n, up, down
    <2>6. (up * up * secs * Scale) \div n = up * up * secs * k BY <2>2, <2>3, <2>4, TriangleIs
    <2>7. (down * down * secs * Scale) \div n = down * down * secs * k BY <2>2, <2>3, <2>4, TriangleIs
    <2>8. up * up * secs * k - down * down * secs * k = (up - down) * secs * (k * (up + down)) BY <2>4
    <2> QED BY <2>3, <2>4, <2>5, <2>6, <2>7, <2>8
  <1>4. CASE ~(p * q < 0)
    <2> DEFINE a == Larger(p, 0) + Larger(q, 0)  b == Larger(-p, 0) + Larger(-q, 0)
    <2>1. a \in Int /\ b \in Int /\ a - b = p + q BY <1>1 DEF Larger
    <2>2. Energy(p, q, 1, secs) = a * secs * Scale /\ Energy(p, q, -1, secs) = b * secs * Scale
      BY <1>2, <1>4 DEF Energy
    <2> HIDE DEF a, b
    <2>3. a * secs * Scale - b * secs * Scale = (a - b) * secs * Scale BY <1>1, <2>1
    <2> QED BY <2>1, <2>2, <2>3
  <1> QED BY <1>3, <1>4

-----------------------------------------------------------------------------
(* Windows of a table of observations.                                       *)

Unions(E, T) == UNION {E[x] : x \in T}
Separate(E, S) == \A x \in S : IsFiniteSet(E[x]) /\ \A y \in S : x = y \/ E[x] \cap E[y] = {}

\* The sizes of sets that share nothing add up to the size of their union.
LEMMA SumSizes ==
  ASSUME NEW S, IsFiniteSet(S), NEW E, Separate(E, S), NEW f, \A x \in S : f[x] = Cardinality(E[x])
  PROVE  SumFunctionOnSet(f, S) = Cardinality(Unions(E, S))
  <1> DEFINE Good(T) == IsFiniteSet(Unions(E, T)) /\ SumFunctionOnSet(f, T) = Cardinality(Unions(E, T))
             U == {T \in SUBSET S : Good(T)}
  <1>1. Ints(f, S)
    <2> SUFFICES ASSUME NEW x \in S PROVE f[x] \in Int BY DEF Ints
    <2>1. IsFiniteSet(E[x]) BY DEF Separate
    <2>2. Cardinality(E[x]) \in Nat BY <2>1, FS_CardinalityType
    <2> QED BY <2>2
  <1>2. Good({})
    <2>1. Unions(E, {}) = {} BY DEF Unions
    <2> QED BY <2>1, SumEmpty, FS_EmptySet
  <1>3. ASSUME NEW T \in SUBSET S, NEW x \in S \ T, Good(T) PROVE Good(T \cup {x})
    <2> DEFINE A == Unions(E, T)
    <2>1. Unions(E, T \cup {x}) = A \cup E[x] BY DEF Unions
    <2>2. A \cap E[x] = {} BY DEF Unions, Separate
    <2>3. IsFiniteSet(E[x]) /\ f[x] = Cardinality(E[x]) BY DEF Separate
    <2>4. IsFiniteSet(A) /\ SumFunctionOnSet(f, T) = Cardinality(A) BY <1>3
    <2> HIDE DEF A
    <2>5. IsFiniteSet(A \cup E[x]) /\ Cardinality(A \cup E[x]) = Cardinality(A) + Cardinality(E[x]) - Cardinality(A \cap E[x])
      BY <2>3, <2>4, FS_Union
    <2>6. Cardinality(A \cap E[x]) = 0 BY <2>2, FS_EmptySet
    <2>7. Cardinality(A) \in Nat /\ Cardinality(E[x]) \in Nat BY <2>3, <2>4, FS_CardinalityType
    <2>8. SumFunctionOnSet(f, T \cup {x}) = SumFunctionOnSet(f, T) + f[x] BY <1>1, SumGrows
    <2>9. Cardinality(A \cup E[x]) = Cardinality(A) + Cardinality(E[x]) BY <2>5, <2>6, <2>7
    <2>10. SumFunctionOnSet(f, T \cup {x}) = Cardinality(A \cup E[x]) BY <2>3, <2>4, <2>8, <2>9
    <2> QED BY <2>1, <2>5, <2>10
  <1> HIDE DEF Good
  <1>4. {} \in U BY <1>2
  <1>5. \A T \in SUBSET S : \A x \in S \ T : T \in U => T \cup {x} \in U BY <1>3
  <1> HIDE DEF U
  <1>6. S \in U BY <1>4, <1>5, FiniteSteps
  <1> QED BY <1>6 DEF U, Good

\* Two observations that follow each other.
Follows(times, u, v) == u \in times /\ v \in times /\ u < v /\ \A t \in times : ~(u < t /\ t < v)

LEMMA PairsFollow ==
  ASSUME NEW times \in SUBSET Nat
  PROVE  Pairs(times) = {pair \in times \X times : Follows(times, pair[1], pair[2])}
  <1>1. ASSUME NEW u \in times, After(times, u) # {}
        PROVE  Min(After(times, u)) \in times /\ Follows(times, u, Min(After(times, u)))
    <2>1. After(times, u) \in SUBSET Nat BY DEF After
    <2>2. Min(After(times, u)) \in After(times, u) /\ \A x \in After(times, u) : Min(After(times, u)) <= x
      BY <1>1, <2>1, LeastOf
    <2> DEFINE v == Min(After(times, u))
    <2>3. v \in times /\ v > u /\ \A t \in times : t > u => v <= t BY <2>2 DEF After
    <2> HIDE DEF v
    <2>4. v \in Nat /\ u \in Nat BY <2>3
    <2>5. \A t \in times : ~(u < t /\ t < v) BY <2>3, <2>4
    <2> QED BY <2>3, <2>4, <2>5 DEF Follows, v
  <1>2. ASSUME NEW u \in times, NEW v \in times, Follows(times, u, v)
        PROVE  After(times, u) # {} /\ v = Min(After(times, u))
    <2>1. v \in After(times, u) BY <1>2 DEF After, Follows
    <2>2. Min(After(times, u)) \in times /\ Follows(times, u, Min(After(times, u))) BY <1>1, <2>1
    <2>3. v \in Nat /\ Min(After(times, u)) \in Nat BY <2>2
    <2> QED BY <1>2, <2>1, <2>2, <2>3 DEF Follows
  <1>3. ASSUME NEW pair \in Pairs(times)
        PROVE  pair \in {pr \in times \X times : Follows(times, pr[1], pr[2])}
    <2>1. PICK u \in times : After(times, u) # {} /\ pair = <<u, Min(After(times, u))>> BY <1>3 DEF Pairs
    <2> QED BY <1>1, <2>1
  <1>4. ASSUME NEW u \in times, NEW v \in times, Follows(times, u, v) PROVE <<u, v>> \in Pairs(times)
    BY <1>2, <1>4 DEF Pairs
  <1>5. {pair \in times \X times : Follows(times, pair[1], pair[2])} \subseteq Pairs(times)
    <2>1. ASSUME NEW pair \in times \X times, Follows(times, pair[1], pair[2]) PROVE pair \in Pairs(times)
      <3>1. pair[1] \in times /\ pair[2] \in times /\ pair = <<pair[1], pair[2]>> OBVIOUS
      <3>2. <<pair[1], pair[2]>> \in Pairs(times) BY <1>4, <2>1, <3>1
      <3> QED BY <3>1, <3>2
    <2> QED BY <2>1
  <1> QED BY <1>3, <1>5

\* A table of observations no later than now.
Table(table, now) ==
  /\ now \in Nat /\ DOMAIN table \subseteq 0 .. now
  /\ \A t \in DOMAIN table : table[t] \in Inputs

LEMMA CountedAre ==
  ASSUME NEW table, NEW now, Table(table, now), NEW start \in Int
  PROVE  /\ IsFiniteSet(Counted(table, start, now))
         /\ \A pair \in Counted(table, start, now) :
              /\ pair \in Nat \X Nat /\ Follows(RowsOf(table, start, now), pair[1], pair[2])
              /\ Clip(pair, start, now) \in Nat \ {0} /\ Valid(table, pair)
              /\ Powers(table[pair[1]].power, table[pair[2]].power)
         /\ \A u, v \in RowsOf(table, start, now) :
              /\ Follows(RowsOf(table, start, now), u, v)
              /\ Clip(<<u, v>>, start, now) > 0 /\ Valid(table, <<u, v>>)
              => <<u, v>> \in Counted(table, start, now)
  <1> DEFINE R == RowsOf(table, start, now)  C == Counted(table, start, now)
  <1>1. R \subseteq DOMAIN table /\ R \in SUBSET (0 .. now) /\ R \in SUBSET Nat /\ now \in Nat BY DEF RowsOf, Table
  <1>2. \A t \in R : table[t] \in Inputs BY <1>1 DEF Table
  <1>3. Pairs(R) = {pair \in R \X R : Follows(R, pair[1], pair[2])} BY <1>1, PairsFollow
  <1> HIDE DEF R
  <1>4. C = {pair \in Pairs(R) : Clip(pair, start, now) > 0 /\ Valid(table, pair)} BY DEF Counted, R
  <1>5. IsFiniteSet(C)
    <2>1. IsFiniteSet(0 .. now) BY <1>1, FS_Interval
    <2>2. IsFiniteSet((0 .. now) \X (0 .. now)) BY <2>1, FS_Product
    <2>3. C \subseteq (0 .. now) \X (0 .. now) BY <1>1, <1>3, <1>4
    <2> HIDE DEF C
    <2> QED BY <2>2, <2>3, FS_Subset
  <1> HIDE DEF C
  <1>6. ASSUME NEW pair \in C
        PROVE  /\ pair \in Nat \X Nat /\ Follows(R, pair[1], pair[2])
               /\ Clip(pair, start, now) \in Nat \ {0} /\ Valid(table, pair)
               /\ Powers(table[pair[1]].power, table[pair[2]].power)
    <2>1. pair \in R \X R /\ Follows(R, pair[1], pair[2]) /\ Clip(pair, start, now) > 0 /\ Valid(table, pair)
      BY <1>3, <1>4
    <2>2. pair[1] \in R /\ pair[2] \in R /\ pair \in Nat \X Nat BY <1>1, <2>1
    <2>3. Clip(pair, start, now) \in Int BY <1>1, <2>2 DEF Clip, Smaller, Larger
    <2> DEFINE o == table[pair[1]]  w == table[pair[2]]
    <2>4. o \in Inputs /\ w \in Inputs BY <1>2, <2>2
    <2>5. o.power # NoReading /\ w.power # NoReading BY <2>1 DEF Valid, Counts
    <2> HIDE DEF o, w
    <2>6. o.power \in Int /\ w.power \in Int BY <2>4, <2>5, PowerAssumption
    <2>7. o.power > 0 /\ w.power < 0 => Scale % (o.power - w.power) = 0 BY <2>4, <2>5, PowerAssumption
    <2>8. w.power > 0 /\ o.power < 0 => Scale % (w.power - o.power) = 0 BY <2>4, <2>5, PowerAssumption
    <2>9. Powers(o.power, w.power) BY <2>6, <2>7, <2>8 DEF Powers
    <2> QED BY <2>1, <2>2, <2>3, <2>9 DEF o, w
  <1>7. ASSUME NEW u \in R, NEW v \in R, Follows(R, u, v), Clip(<<u, v>>, start, now) > 0, Valid(table, <<u, v>>)
        PROVE  <<u, v>> \in C
    <2>1. <<u, v>> \in Pairs(R) BY <1>3, <1>7
    <2> QED BY <1>4, <1>7, <2>1
  <1> QED BY <1>5, <1>6, <1>7 DEF R, C

\* The seconds of a window that a pair of observations covers.
Seconds(pair, start, end) == Larger(pair[1], start) .. Smaller(pair[2], end) - 1

\* A summary covers the seconds between trusted observations, each of them once.
LEMMA CoveredSeconds ==
  ASSUME NEW table, NEW now, Table(table, now), NEW start \in Int
  PROVE  Covered(table, start, now) = Cardinality({s \in start .. now - 1 : Between(table, s)})
  <1> DEFINE R == RowsOf(table, start, now)  C == Counted(table, start, now)
             E == [pair \in C |-> Seconds(pair, start, now)]
             f == [pair \in C |-> Clip(pair, start, now)]
  <1>1. /\ IsFiniteSet(C)
        /\ \A pair \in C :
              /\ pair \in Nat \X Nat /\ Follows(R, pair[1], pair[2])
              /\ Clip(pair, start, now) \in Nat \ {0} /\ Valid(table, pair)
        /\ \A u, v \in R : Follows(R, u, v) /\ Clip(<<u, v>>, start, now) > 0 /\ Valid(table, <<u, v>>) => <<u, v>> \in C
    BY CountedAre
  <1>2. /\ now \in Nat /\ MaxGap \in Nat /\ DOMAIN table \subseteq Nat /\ \A t \in DOMAIN table : t <= now
        /\ R = {t \in DOMAIN table : start - MaxGap <= t /\ t <= now}
    BY PowerAssumption DEF Table, RowsOf
  <1> HIDE DEF C, R
  <1>3. ASSUME NEW pair \in C PROVE IsFiniteSet(E[pair]) /\ f[pair] = Cardinality(E[pair])
    <2> DEFINE a == Larger(pair[1], start)  b == Smaller(pair[2], now)
    <2>1. pair[1] \in Int /\ pair[2] \in Int BY <1>1
    <2>2. a \in Int /\ b \in Int /\ b - a \in Nat \ {0} /\ f[pair] = b - a
      BY <1>1, <1>2, <2>1 DEF Clip, Larger, Smaller
    <2>3. E[pair] = a .. b - 1 BY DEF Seconds
    <2> HIDE DEF a, b
    <2>4. IsFiniteSet(a .. b - 1) /\ Cardinality(a .. b - 1) = IF a > b - 1 THEN 0 ELSE (b - 1) - a + 1
      BY <2>2, FS_Interval
    <2> QED BY <2>2, <2>3, <2>4
  <1>4. ASSUME NEW x \in C, NEW y \in C, x # y PROVE E[x] \cap E[y] = {}
    <2>1. /\ x[1] \in Nat /\ x[2] \in Nat /\ y[1] \in Nat /\ y[2] \in Nat
          /\ Follows(R, x[1], x[2]) /\ Follows(R, y[1], y[2]) /\ x = <<x[1], x[2]>> /\ y = <<y[1], y[2]>>
      BY <1>1
    <2>2. x[1] # y[1]
      <3> SUFFICES ASSUME x[1] = y[1] PROVE x[2] = y[2] BY <1>4, <2>1
      <3> QED BY <2>1 DEF Follows
    <2>3. x[2] <= y[1] \/ y[2] <= x[1] BY <2>1, <2>2 DEF Follows
    <2>4. \A s \in E[x] : s \in Int /\ x[1] <= s /\ s < x[2] BY <1>2, <2>1 DEF Seconds, Larger, Smaller
    <2>5. \A s \in E[y] : s \in Int /\ y[1] <= s /\ s < y[2] BY <1>2, <2>1 DEF Seconds, Larger, Smaller
    <2> HIDE DEF E
    <2> QED BY <2>1, <2>3, <2>4, <2>5
  <1>5. Covered(table, start, now) = SumFunctionOnSet(f, C) BY DEF Covered, SumFunction, C
  <1>6. ASSUME NEW s \in Unions(E, C) PROVE s \in start .. now - 1 /\ Between(table, s)
    <2>1. PICK pair \in C : s \in Seconds(pair, start, now) BY <1>6 DEF Unions
    <2> DEFINE u == pair[1]  v == pair[2]
    <2>2. u \in Nat /\ v \in Nat /\ Follows(R, u, v) /\ Valid(table, pair) BY <1>1
    <2>3. s \in Int /\ u <= s /\ start <= s /\ s < v /\ s < now BY <1>2, <2>1, <2>2 DEF Seconds, Larger, Smaller
    <2>4. u \in DOMAIN table /\ v \in DOMAIN table /\ start - MaxGap <= u BY <1>2, <2>2 DEF Follows
    <2>5. ASSUME NEW t \in DOMAIN table, u < t, t < v PROVE FALSE
      <3>1. t \in R BY <1>2, <2>2, <2>4, <2>5
      <3> QED BY <2>2, <2>5, <3>1 DEF Follows
    <2>6. v - u <= MaxGap /\ Counts(table[u]) /\ Counts(table[v]) BY <2>2 DEF Valid
    <2> HIDE DEF u, v
    <2> QED BY <1>2, <2>3, <2>4, <2>5, <2>6 DEF Between
  <1>7. ASSUME NEW s \in start .. now - 1, Between(table, s) PROVE s \in Unions(E, C)
    <2>1. PICK u \in DOMAIN table, v \in DOMAIN table :
            /\ u <= s /\ s < v /\ \A t \in DOMAIN table : ~(u < t /\ t < v)
            /\ v - u <= MaxGap /\ Counts(table[u]) /\ Counts(table[v])
      BY <1>7 DEF Between
    <2>2. u \in Nat /\ v \in Nat /\ u <= now /\ v <= now BY <1>2
    <2>3. u \in R /\ v \in R BY <1>2, <2>1, <2>2
    <2>4. Follows(R, u, v) BY <1>2, <2>1, <2>2, <2>3 DEF Follows
    <2>5. s \in Seconds(<<u, v>>, start, now) BY <1>2, <2>1, <2>2 DEF Seconds, Larger, Smaller
    <2>6. Clip(<<u, v>>, start, now) > 0 BY <1>2, <2>1, <2>2 DEF Clip, Larger, Smaller
    <2>7. <<u, v>> \in C BY <1>1, <2>1, <2>3, <2>4, <2>6 DEF Valid
    <2>8. E[<<u, v>>] = Seconds(<<u, v>>, start, now) BY <2>7
    <2> HIDE DEF E
    <2> QED BY <2>5, <2>7, <2>8 DEF Unions
  <1>8. Unions(E, C) = {s \in start .. now - 1 : Between(table, s)} BY <1>6, <1>7
  <1> HIDE DEF E, f
  <1>9. Separate(E, C) BY <1>3, <1>4 DEF Separate
  <1>10. SumFunctionOnSet(f, C) = Cardinality(Unions(E, C)) BY <1>1, <1>3, <1>9, SumSizes
  <1> QED BY <1>5, <1>8, <1>10

\* The net energy of a window is its charge less its discharge.
LEMMA NetIsDifference ==
  ASSUME NEW table, NEW now, Table(table, now), NEW start \in Int
  PROVE  Net(table, start, now) = EnergyOf(table, start, now, 1) - EnergyOf(table, start, now, -1)
  <1> DEFINE C == Counted(table, start, now)
             P(pair) == table[pair[1]].power
             Q(pair) == table[pair[2]].power
             S(pair) == Clip(pair, start, now)
             h == [pair \in C |-> (P(pair) + Q(pair)) * S(pair) * Scale]
             f == [pair \in C |-> Energy(P(pair), Q(pair), 1, S(pair))]
             g == [pair \in C |-> Energy(P(pair), Q(pair), -1, S(pair))]
  <1>1. IsFiniteSet(C) /\ \A pair \in C : S(pair) \in Nat /\ Powers(P(pair), Q(pair)) BY CountedAre
  <1> HIDE DEF C, P, Q, S
  <1>2. ASSUME NEW pair \in C PROVE f[pair] \in Int /\ g[pair] \in Int /\ h[pair] \in Int /\ f[pair] = h[pair] + g[pair]
    <2> DEFINE p == P(pair)  q == Q(pair)  s == S(pair)
    <2>1. Powers(p, q) /\ s \in Nat BY <1>1
    <2>2. f[pair] = Energy(p, q, 1, s) /\ g[pair] = Energy(p, q, -1, s) /\ h[pair] = (p + q) * s * Scale OBVIOUS
    <2> HIDE DEF p, q, s, f, g, h
    <2>3. Energy(p, q, 1, s) - Energy(p, q, -1, s) = (p + q) * s * Scale BY <2>1, EnergyNets
    <2>4. Energy(p, q, 1, s) \in Nat /\ Energy(p, q, -1, s) \in Nat BY <2>1, EnergyIsArea
    <2>5. (p + q) * s * Scale \in Int BY <2>1, PowerAssumption DEF Powers
    <2> QED BY <2>2, <2>3, <2>4, <2>5
  <1>3. /\ Net(table, start, now) = SumFunctionOnSet(h, C)
        /\ EnergyOf(table, start, now, 1) = SumFunctionOnSet(f, C)
        /\ EnergyOf(table, start, now, -1) = SumFunctionOnSet(g, C)
    BY DEF Net, EnergyOf, SumFunction, C, P, Q, S
  <1> HIDE DEF f, g, h
  <1>4. Ints(f, C) /\ Ints(g, C) /\ Ints(h, C) BY <1>2 DEF Ints
  <1>5. SumFunctionOnSet(f, C) = SumFunctionOnSet(h, C) + SumFunctionOnSet(g, C) BY <1>1, <1>2, <1>4, SumTerms
  <1>6. SumFunctionOnSet(h, C) \in Int /\ SumFunctionOnSet(g, C) \in Int BY <1>1, <1>4, SumRemove
  <1> QED BY <1>3, <1>5, <1>6

LEMMA TableTrue ==
  ASSUME Table(obs, clock)
  PROVE  EnergyTrue
  <1> SUFFICES ASSUME NEW d \in Windows
      PROVE LET start == clock - d IN
        /\ Covered(obs, start, clock) = Cardinality({s \in start .. clock - 1 : Between(obs, s)})
        /\ \A pair \in Counted(obs, start, clock) : \A sign \in {1, -1} :
             LET p == obs[pair[1]].power  q == obs[pair[2]].power IN
             Energy(p, q, sign, Clip(pair, start, clock)) * Scale = Area(p, q, sign) * Clip(pair, start, clock)
        /\ Net(obs, start, clock) = EnergyOf(obs, start, clock, 1) - EnergyOf(obs, start, clock, -1)
    BY DEF EnergyTrue
  <1> DEFINE start == clock - d
  <1>1. start \in Int BY PowerAssumption DEF Table
  <1> HIDE DEF start
  <1>2. ASSUME NEW pair \in Counted(obs, start, clock), NEW sign \in {1, -1}
        PROVE  Energy(obs[pair[1]].power, obs[pair[2]].power, sign, Clip(pair, start, clock)) * Scale
                 = Area(obs[pair[1]].power, obs[pair[2]].power, sign) * Clip(pair, start, clock)
    <2> DEFINE p == obs[pair[1]].power  q == obs[pair[2]].power  s == Clip(pair, start, clock)
    <2>1. Powers(p, q) /\ s \in Nat BY <1>1, CountedAre
    <2> HIDE DEF p, q, s
    <2>2. Energy(p, q, sign, s) * Scale = Area(p, q, sign) * s BY <2>1, EnergyIsArea
    <2> QED BY <2>2 DEF p, q, s
  <1>3. Covered(obs, start, clock) = Cardinality({s \in start .. clock - 1 : Between(obs, s)}) BY <1>1, CoveredSeconds
  <1>4. Net(obs, start, clock) = EnergyOf(obs, start, clock, 1) - EnergyOf(obs, start, clock, -1) BY <1>1, NetIsDifference
  <1> QED BY <1>2, <1>3, <1>4 DEF start

-----------------------------------------------------------------------------
(* The jobs that write the table and its summaries.                          *)

JobRecord ==
  [at : {"idle", "read", "rolling", "computed"}, read : Nat, input : Inputs \cup {NoInput}, left : Seq(Windows), of : Nat]

\* A job at work began no longer ago than its time limit, and summarizes no earlier than it began;
\* the observations are not later than now, and what a job observed is what it was told.
PowerInv ==
  /\ case \in Cases /\ clock \in Nat /\ Table(obs, clock)
  /\ latest \in Nat /\ latest <= clock
  /\ rolling \in [Windows -> Nat] /\ \A d \in Windows : rolling[d] <= clock
  /\ sampler \in [Jobs -> JobRecord]
  /\ \A m \in Jobs :
       /\ sampler[m].at # "idle" => sampler[m].read <= clock /\ clock - sampler[m].read <= TimeLimit
       /\ sampler[m].at = "read" => sampler[m].input \in Inputs
       /\ sampler[m].at = "computed" =>
            sampler[m].left # <<>> /\ sampler[m].read <= sampler[m].of /\ sampler[m].of <= clock

LEMMA NotRunningType == NotRunning \in JobRecord /\ NotRunning.at = "idle"
  BY DEF NotRunning, JobRecord

LEMMA PowerStarts == PowerInit => PowerInv
  <1> SUFFICES ASSUME PowerInit PROVE PowerInv OBVIOUS
  <1>1. DOMAIN obs = {} BY DEF PowerInit
  <1>2. Table(obs, clock) BY <1>1 DEF PowerInit, Table
  <1> QED BY <1>2, NotRunningType DEF PowerInit, PowerInv

LEMMA SampleTicks == PowerInv /\ SampleTick => PowerInv'
  <1> SUFFICES ASSUME PowerInv, SampleTick PROVE PowerInv' OBVIOUS
  <1>1. clock' = clock + 1 /\ UNCHANGED <<case, obs, rolling, latest, sampler>> BY DEF SampleTick
  <1>2. \A m \in Jobs : sampler[m].at # "idle" => clock - sampler[m].read < TimeLimit BY DEF SampleTick, InTime
  <1>3. \A m \in Jobs : sampler[m].read \in Nat /\ sampler[m].of \in Nat BY DEF PowerInv, JobRecord
  <1>4. Table(obs, clock)' BY <1>1 DEF PowerInv, Table
  <1> QED BY <1>1, <1>2, <1>3, <1>4, PowerAssumption DEF PowerInv

\* What a step of a job leaves of it.
Becomes(m, j) ==
  /\ j \in JobRecord /\ sampler' = [sampler EXCEPT ![m] = j]
  /\ j.at # "idle" => j.read <= clock /\ clock - j.read <= TimeLimit
  /\ j.at = "read" => j.input \in Inputs
  /\ j.at = "computed" => j.left # <<>> /\ j.read <= j.of /\ j.of <= clock

LEMMA BecomesKeeps ==
  ASSUME PowerInv, NEW m \in Jobs, NEW j, Becomes(m, j), UNCHANGED <<case, clock, rolling, latest>>, Table(obs', clock)
  PROVE  PowerInv'
  BY DEF PowerInv, Becomes

LEMMA JobKeeps ==
  ASSUME PowerInv, NEW m \in case.jobs, JobStep(m)
  PROVE  /\ PowerInv'
         /\ latest' >= latest - TimeLimit
         /\ \A d \in Windows : rolling'[d] >= rolling[d] - TimeLimit
  <1>1. m \in Jobs /\ case.days \in Seq(Windows) BY PowerAssumption DEF PowerInv
  <1>2. sampler[m] \in JobRecord BY <1>1 DEF PowerInv
  <1>3. /\ sampler[m].read \in Nat /\ sampler[m].of \in Nat /\ sampler[m].left \in Seq(Windows)
        /\ clock \in Nat /\ latest \in Nat /\ latest <= clock /\ TimeLimit \in Nat
        /\ \A d \in Windows : rolling[d] \in Nat /\ rolling[d] <= clock
    BY <1>2, PowerAssumption DEF JobRecord, PowerInv
  <1>4. ASSUME UNCHANGED <<case, clock, rolling, latest>>, Table(obs', clock), \E j : Becomes(m, j)
        PROVE  /\ PowerInv' /\ latest' >= latest - TimeLimit
               /\ \A d \in Windows : rolling'[d] >= rolling[d] - TimeLimit
    BY <1>1, <1>3, <1>4, BecomesKeeps
  <1>11. Table(obs, clock) /\ (UNCHANGED obs => Table(obs', clock))
    <2>1. Table(obs, clock) BY DEF PowerInv
    <2> QED BY <2>1
  <1>5. ASSUME NEW input \in case.inputs, StartSample(m, input) PROVE \E j : Becomes(m, j)
    <2> DEFINE j == [at |-> "read", read |-> clock, input |-> input, left |-> <<>>, of |-> 0]
    <2>1. input \in Inputs BY DEF PowerInv, Inputs
    <2>2. <<>> \in Seq(Windows) OBVIOUS
    <2>4. j \in JobRecord /\ j.at = "read" /\ j.read = clock /\ j.input = input BY <1>3, <2>1, <2>2 DEF JobRecord
    <2>3. sampler' = [sampler EXCEPT ![m] = j] BY <1>5 DEF StartSample
    <2> HIDE DEF j
    <2>5. Becomes(m, j) BY <1>3, <2>1, <2>3, <2>4 DEF Becomes
    <2> QED BY <2>5
  <1>6. ASSUME Observe(m) PROVE (\E j : Becomes(m, j)) /\ Table(obs', clock)
    <2> DEFINE j == [sampler[m] EXCEPT !.at = "rolling", !.input = NoInput, !.left = case.days]
    <2>1. j \in JobRecord /\ j.at = "rolling" /\ j.read = sampler[m].read BY <1>1, <1>2 DEF JobRecord
    <2>2. sampler' = [sampler EXCEPT ![m] = j] BY <1>6 DEF Observe
    <2>3. sampler[m].at = "read" BY <1>6 DEF Observe
    <2>4. sampler[m].input \in Inputs BY <1>1, <2>3 DEF PowerInv
    <2>5. Table(obs', clock)
      <3> DEFINE in == sampler[m].input
                 D == {u \in DOMAIN obs \cup {clock} : u >= clock - Keep}
      <3>1. obs' = [t \in D |-> IF t = clock THEN in ELSE obs[t]] BY <1>6 DEF Observe
      <3>2. DOMAIN obs' = D /\ \A t \in D : obs'[t] = IF t = clock THEN in ELSE obs[t] BY <3>1
      <3>3. D \subseteq DOMAIN obs \cup {clock} OBVIOUS
      <3> HIDE DEF in, D
      <3> QED BY <1>3, <1>11, <2>4, <3>2, <3>3 DEF Table, in
    <2>6. Becomes(m, j)
      <3> HIDE DEF j
      <3>1. sampler[m].read <= clock /\ clock - sampler[m].read <= TimeLimit BY <1>1, <2>3 DEF PowerInv
      <3> QED BY <2>1, <2>2, <3>1 DEF Becomes
    <2> QED BY <2>5, <2>6
  <1>7. ASSUME Summarize(m) PROVE \E j : Becomes(m, j)
    <2> DEFINE j == [sampler[m] EXCEPT !.at = "computed", !.of = clock]
    <2>1. j \in JobRecord /\ j.at = "computed" /\ j.read = sampler[m].read /\ j.of = clock /\ j.left = sampler[m].left
      BY <1>2, <1>3 DEF JobRecord
    <2>2. sampler' = [sampler EXCEPT ![m] = j] BY <1>7 DEF Summarize
    <2>3. sampler[m].at = "rolling" /\ sampler[m].left # <<>> BY <1>7 DEF Summarize
    <2>4. sampler[m].read <= clock /\ clock - sampler[m].read <= TimeLimit BY <1>1, <2>3 DEF PowerInv
    <2> HIDE DEF j
    <2>5. Becomes(m, j) BY <1>3, <2>1, <2>2, <2>3, <2>4 DEF Becomes
    <2> QED BY <2>5
  <1>8. ASSUME PutRolling(m)
        PROVE  /\ PowerInv' /\ latest' >= latest - TimeLimit
               /\ \A d \in Windows : rolling'[d] >= rolling[d] - TimeLimit
    <2> DEFINE j == [sampler[m] EXCEPT !.at = "rolling", !.of = 0, !.left = Tail(sampler[m].left)]
    <2>1. /\ sampler[m].at = "computed" /\ sampler[m].left # <<>>
          /\ sampler[m].read <= sampler[m].of /\ sampler[m].of <= clock /\ clock - sampler[m].read <= TimeLimit
      BY <1>1, <1>8 DEF PutRolling, PowerInv
    <2>2. Tail(sampler[m].left) \in Seq(Windows) BY <1>3, <2>1
    <2>3. j \in JobRecord /\ j.at = "rolling" /\ j.read = sampler[m].read BY <1>2, <2>2 DEF JobRecord
    <2>4. sampler' = [sampler EXCEPT ![m] = j] /\ UNCHANGED <<case, clock, obs, latest>> BY <1>8 DEF PutRolling
    <2>5. rolling' = [rolling EXCEPT ![Head(sampler[m].left)] = sampler[m].of] BY <1>8 DEF PutRolling
    <2>6. /\ rolling' \in [Windows -> Nat]
          /\ \A d \in Windows : rolling'[d] <= clock /\ rolling'[d] >= rolling[d] - TimeLimit
      <3> DEFINE w == Head(sampler[m].left)  of == sampler[m].of
      <3>1. rolling' = [rolling EXCEPT ![w] = of] BY <2>5
      <3>2. clock - TimeLimit <= of /\ of <= clock /\ of \in Nat
        <4> DEFINE read == sampler[m].read
        <4>1. read \in Nat /\ of \in Nat /\ read <= of /\ of <= clock /\ clock - read <= TimeLimit BY <1>3, <2>1
        <4> HIDE DEF read, of
        <4> QED BY <1>3, <4>1
      <3> HIDE DEF w, of
      <3>3. rolling \in [Windows -> Nat] BY DEF PowerInv
      <3>4. rolling' \in [Windows -> Nat] BY <3>1, <3>2, <3>3
      <3>5. \A d \in Windows : rolling'[d] = of \/ rolling'[d] = rolling[d] BY <3>1, <3>3
      <3> QED BY <1>3, <3>2, <3>4, <3>5
    <2>7. /\ sampler' \in [Jobs -> JobRecord]
          /\ \A n \in Jobs : sampler'[n] = IF n = m THEN j ELSE sampler[n]
      BY <1>1, <2>3, <2>4 DEF PowerInv
    <2> HIDE DEF j
    <2> QED BY <1>3, <1>11, <2>1, <2>3, <2>4, <2>6, <2>7 DEF PowerInv
  <1>9. ASSUME PutLatest(m)
        PROVE  /\ PowerInv' /\ latest' >= latest - TimeLimit
               /\ \A d \in Windows : rolling'[d] >= rolling[d] - TimeLimit
    <2>1. sampler[m].read <= clock /\ clock - sampler[m].read <= TimeLimit
      BY <1>1, <1>9 DEF PutLatest, PowerInv
    <2>2. /\ latest' = sampler[m].read /\ sampler' = [sampler EXCEPT ![m] = NotRunning]
          /\ UNCHANGED <<case, clock, obs, rolling>>
      BY <1>9 DEF PutLatest
    <2>3. PowerInv' BY <1>1, <1>3, <1>11, <2>1, <2>2, NotRunningType DEF PowerInv
    <2> QED BY <1>3, <2>1, <2>2, <2>3
  <1>10. ASSUME SampleEnds(m) PROVE \E j : Becomes(m, j)
    BY <1>10, NotRunningType DEF SampleEnds, Becomes
  <1> QED
    BY <1>4, <1>5, <1>6, <1>7, <1>8, <1>9, <1>10, <1>11
    DEF JobStep, StartSample, Observe, Summarize, SampleEnds

\* For any inputs, powers, windows and time limit, and any interleaving of the two jobs, their failures
\* and kills: the energy of every window is true after every step, and no step puts a summary or a
\* context in place of one that is newer by more than that limit.
THEOREM PowerStaysTrue == PowerSpec => PowerTrue
  <1> DEFINE OlderByLimit == latest' >= latest - TimeLimit /\ \A d \in Windows : rolling'[d] >= rolling[d] - TimeLimit
             Right == /\ obs' # obs \/ clock' # clock => EnergyTrue'
                      /\ latest' >= latest - TimeLimit
                      /\ \A d \in Windows : rolling'[d] >= rolling[d] - TimeLimit
  <1>1. PowerInit => PowerInv BY PowerStarts
  <1>2. PowerInv /\ [PowerNext]_powerVars => PowerInv' /\ [OlderByLimit]_powerVars
    <2> SUFFICES ASSUME PowerInv, [PowerNext]_powerVars PROVE PowerInv' /\ [OlderByLimit]_powerVars OBVIOUS
    <2>1. CASE UNCHANGED powerVars
      <3>1. Table(obs, clock)'
        <4>1. Table(obs, clock) BY DEF PowerInv
        <4> QED BY <2>1, <4>1 DEF powerVars
      <3> QED BY <2>1, <3>1 DEF PowerInv, powerVars
    <2>2. CASE SampleTick
      <3>1. /\ latest' = latest /\ rolling' = rolling /\ latest \in Nat /\ TimeLimit \in Nat
            /\ \A d \in Windows : rolling[d] \in Nat
        BY <2>2, PowerAssumption DEF SampleTick, PowerInv
      <3> QED BY <2>2, <3>1, SampleTicks
    <2>3. ASSUME NEW m \in case.jobs, JobStep(m) PROVE PowerInv' /\ OlderByLimit BY <2>3, JobKeeps
    <2> QED BY <2>1, <2>2, <2>3 DEF PowerNext
  <1>3. PowerInv => EnergyTrue BY TableTrue DEF PowerInv
  <1>4. EnergyTrue' /\ [OlderByLimit]_powerVars => [Right]_powerVars OBVIOUS
  <1>5. PowerSpec => [][Right]_powerVars
    <2> HIDE DEF OlderByLimit
    <2> QED BY <1>1, <1>2, <1>3, <1>4, PTL DEF PowerSpec
  <1> QED BY <1>5 DEF PowerTrue
==============================================================================
