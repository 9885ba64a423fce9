----------------------------- MODULE FiniteSums -----------------------------
(***************************************************************************)
(* What SumFunction and SumFunctionOnSet of the module Functions compute,  *)
(* which their definition leaves to the order in which CHOOSE takes the    *)
(* elements of the domain; and induction over numbers and finite sets, for *)
(* sets of them.                                                           *)
(***************************************************************************)
EXTENDS Functions, FunctionTheorems, FiniteSetTheorems, TLAPS

-----------------------------------------------------------------------------
(* Induction *)

\* A set that has 0, and n + 1 if it has n, has every natural number.
LEMMA SetInduction ==
    ASSUME NEW S, 0 \in S, \A n \in Nat : n \in S => n + 1 \in S
    PROVE  Nat \subseteq S
<1> DEFINE R == OpToRel(<, Nat)
           Rest == Nat \ S
<1> SUFFICES ASSUME Rest # {} PROVE FALSE OBVIOUS
<1>1. IsWellFoundedOn(R, Nat) BY NatLessThanWellFounded
<1>2. \A x, y \in Nat : <<y, x>> \in R <=> y < x BY SMT DEF OpToRel
<1> HIDE DEF R
<1>3. Rest \subseteq Nat OBVIOUS
<1>4. PICK x \in Rest : \A y \in Rest : ~ (<<y, x>> \in R)
  <2> HIDE DEF Rest
  <2> QED BY <1>1, <1>3, WFMin, Zenon
<1>5. x - 1 \in Nat /\ x - 1 < x OBVIOUS
<1>6. x - 1 \in S BY <1>2, <1>4, <1>5
<1> QED BY <1>5, <1>6

LEMMA OneLess ==
    ASSUME NEW s, IsFiniteSet(s), NEW x \in s
    PROVE  /\ IsFiniteSet(s \ {x})
           /\ Cardinality(s) \in Nat /\ Cardinality(s \ {x}) \in Nat
           /\ Cardinality(s \ {x}) = Cardinality(s) - 1
BY FS_RemoveElement, FS_CardinalityType

\* A collection that has the empty set, and a set with one element more if it has the
\* set, has every finite set.
LEMMA SubsetInduction ==
    ASSUME NEW T, IsFiniteSet(T), NEW C, {} \in C,
           \A s \in SUBSET T : \A x \in T \ s : s \in C => s \cup {x} \in C
    PROVE  T \in C
<1> DEFINE S == {n \in Nat : \A s \in SUBSET T : Cardinality(s) = n => s \in C}
<1>1. 0 \in S
  <2> SUFFICES ASSUME NEW s \in SUBSET T, Cardinality(s) = 0 PROVE s \in C OBVIOUS
  <2>1. IsFiniteSet(s) BY FS_Subset
  <2> QED BY <2>1, FS_EmptySet
<1>2. ASSUME NEW n \in Nat, n \in S PROVE n + 1 \in S
  <2> SUFFICES ASSUME NEW s \in SUBSET T, Cardinality(s) = n + 1 PROVE s \in C OBVIOUS
  <2>1. IsFiniteSet(s) BY FS_Subset
  <2>2. PICK x : x \in s BY <2>1, FS_EmptySet
  <2>3. Cardinality(s \ {x}) = n BY <2>1, <2>2, OneLess
  <2>4. s \ {x} \in C
    <3>1. s \ {x} \in SUBSET T OBVIOUS
    <3> QED BY <1>2, <2>3, <3>1
  <2>5. (s \ {x}) \cup {x} \in C BY <2>2, <2>4
  <2>6. (s \ {x}) \cup {x} = s BY <2>2
  <2> QED BY <2>5, <2>6
<1>3. Nat \subseteq S
  <2> HIDE DEF S
  <2> QED BY <1>1, <1>2, SetInduction
<1>4. Cardinality(T) \in S BY <1>3, FS_CardinalityType
<1> QED BY <1>4

-----------------------------------------------------------------------------
(* The recursive function behind a sum *)

Picked(s) == CHOOSE x \in s : TRUE

\* The sum over s, if g has the sums over smaller sets.
Added(g, fun, s) == IF s = {} THEN 0 ELSE fun[Picked(s)] + g[s \ {Picked(s)}]

IsSumOn(g, fun, D) == g = [s \in D |-> Added(g, fun, s)]

LEMMA SumsExist ==
    ASSUME NEW fun, NEW S, IsFiniteSet(S)
    PROVE  \E g : IsSumOn(g, fun, SUBSET S)
<1> DEFINE Upto(n) == {s \in SUBSET S : Cardinality(s) <= n}
           N == {n \in Nat : \E g : IsSumOn(g, fun, Upto(n))}
<1>1. 0 \in N
  <2> DEFINE h == [s \in Upto(0) |-> 0]
  <2>1. ASSUME NEW s \in Upto(0) PROVE s = {}
    <3>1. IsFiniteSet(s) /\ Cardinality(s) \in Nat BY FS_Subset, FS_CardinalityType
    <3>2. Cardinality(s) = 0 BY <3>1
    <3> QED BY <3>1, <3>2, FS_EmptySet
  <2>2. \A s \in Upto(0) : Added(h, fun, s) = 0 BY <2>1 DEF Added
  <2> HIDE DEF Upto
  <2>3. IsSumOn(h, fun, Upto(0)) BY <2>2 DEF IsSumOn
  <2> HIDE DEF h
  <2> QED BY <2>3
<1>2. ASSUME NEW n \in Nat, n \in N PROVE n + 1 \in N
  <2>1. PICK g : IsSumOn(g, fun, Upto(n)) BY <1>2
  <2> DEFINE h == [s \in Upto(n + 1) |-> Added(g, fun, s)]
  <2>2. ASSUME NEW s \in Upto(n + 1), s # {}
        PROVE  s \ {Picked(s)} \in Upto(n) /\ s \ {Picked(s)} \in Upto(n + 1)
    <3>1. IsFiniteSet(s) /\ Picked(s) \in s BY <2>2, FS_Subset DEF Picked
    <3>2. /\ Cardinality(s \ {Picked(s)}) = Cardinality(s) - 1
          /\ Cardinality(s) \in Nat
      BY <3>1, FS_RemoveElement, FS_CardinalityType
    <3> QED BY <3>2
  <2> HIDE DEF Upto
  <2>3. \A t \in Upto(n) : g[t] = Added(g, fun, t) BY <2>1 DEF IsSumOn
  <2>4. \A s \in Upto(n + 1) : Added(g, fun, s) = Added(h, fun, s)
    BY <2>2, <2>3 DEF Added
  <2>5. IsSumOn(h, fun, Upto(n + 1)) BY <2>4 DEF IsSumOn
  <2> HIDE DEF h
  <2> QED BY <2>5
<1>3. Cardinality(S) \in N
  <2>1. Nat \subseteq N
    <3> HIDE DEF N
    <3> QED BY <1>1, <1>2, SetInduction
  <2> HIDE DEF N
  <2> QED BY <2>1, FS_CardinalityType
<1>4. Upto(Cardinality(S)) = SUBSET S BY FS_Subset
<1> HIDE DEF Upto
<1> QED BY <1>3, <1>4

\* SumFunctionOnSet is the value of such a function.
LEMMA SumIsSum ==
    ASSUME NEW fun, NEW S, IsFiniteSet(S)
    PROVE  \E g : IsSumOn(g, fun, SUBSET S) /\ SumFunctionOnSet(fun, S) = g[S]
<1> DEFINE iter == CHOOSE g : IsSumOn(g, fun, SUBSET S)
<1>1. IsSumOn(iter, fun, SUBSET S) BY SumsExist
<1>2. SumFunctionOnSet(fun, S) = iter[S]
  BY DEF SumFunctionOnSet, FoldFunctionOnSet, MapThenFoldSet, IsSumOn, Added, Picked
<1> HIDE DEF iter
<1> QED BY <1>1, <1>2

\* Any element may be taken first.
AnyFirst(g, fun, s) == g[s] \in Int /\ \A x \in s : g[s] = fun[x] + g[s \ {x}]

LEMMA OneMore ==
    ASSUME NEW fun, NEW g, NEW s, IsFiniteSet(s), s # {}, \A x \in s : fun[x] \in Int,
           g[s] = Added(g, fun, s), g[{}] = 0,
           \A t \in SUBSET s : t # s => AnyFirst(g, fun, t)
    PROVE  AnyFirst(g, fun, s)
<1> DEFINE c == Picked(s)
<1>1. c \in s BY DEF Picked
<1>2. g[s] = fun[c] + g[s \ {c}] BY DEF Added
<1> HIDE DEF c
<1>3. ASSUME NEW x \in s PROVE s \ {x} \in SUBSET s /\ s \ {x} # s OBVIOUS
<1>4. \A x \in s : g[s \ {x}] \in Int BY <1>3 DEF AnyFirst
<1>5. g[s] \in Int
  <2>1. \A a, b \in Int : a + b \in Int OBVIOUS
  <2> QED BY <1>1, <1>2, <1>4, <2>1, Zenon
<1>6. ASSUME NEW x \in s, x # c PROVE g[s] = fun[x] + g[s \ {x}]
  <2>1. g[s \ {c}] = fun[x] + g[(s \ {c}) \ {x}] BY <1>1, <1>3, <1>6 DEF AnyFirst
  <2>2. g[s \ {x}] = fun[c] + g[(s \ {x}) \ {c}] BY <1>1, <1>3, <1>6 DEF AnyFirst
  <2>3. (s \ {c}) \ {x} = (s \ {x}) \ {c} OBVIOUS
  <2>4. g[(s \ {c}) \ {x}] \in Int
    <3>1. (s \ {c}) \ {x} \in SUBSET s /\ (s \ {c}) \ {x} # s BY <1>1
    <3> QED BY <3>1 DEF AnyFirst
  <2>5. fun[x] \in Int /\ fun[c] \in Int BY <1>1
  <2>6. \A a, b, r \in Int : a + (b + r) = b + (a + r) OBVIOUS
  <2>7. fun[c] + (fun[x] + g[(s \ {c}) \ {x}]) = fun[x] + (fun[c] + g[(s \ {c}) \ {x}])
    BY <2>4, <2>5, <2>6, Zenon
  <2> QED BY <1>2, <2>1, <2>2, <2>3, <2>7, Zenon
<1> QED BY <1>1, <1>2, <1>5, <1>6 DEF AnyFirst

LEMMA AnyOrder ==
    ASSUME NEW fun, NEW S, IsFiniteSet(S), \A x \in S : fun[x] \in Int,
           NEW g, IsSumOn(g, fun, SUBSET S)
    PROVE  \A s \in SUBSET S : AnyFirst(g, fun, s)
<1> DEFINE N == {n \in Nat : \A s \in SUBSET S : Cardinality(s) <= n => AnyFirst(g, fun, s)}
<1>1. \A s \in SUBSET S : g[s] = Added(g, fun, s) BY DEF IsSumOn
<1>2. g[{}] = 0 BY <1>1 DEF Added
<1>3. AnyFirst(g, fun, {}) BY <1>2 DEF AnyFirst
<1>4. \A s \in SUBSET S : IsFiniteSet(s) /\ Cardinality(s) \in Nat
  BY FS_Subset, FS_CardinalityType
<1>5. 0 \in N BY <1>3, <1>4, FS_EmptySet
<1>6. ASSUME NEW n \in Nat, n \in N PROVE n + 1 \in N
  <2>1. ASSUME NEW s \in SUBSET S, Cardinality(s) <= n + 1 PROVE AnyFirst(g, fun, s)
    <3>1. ASSUME NEW t \in SUBSET s, t # s PROVE AnyFirst(g, fun, t)
      <4>1. t \in SUBSET S OBVIOUS
      <4>2. Cardinality(t) < Cardinality(s)
        <5>1. Cardinality(t) <= Cardinality(s) /\ Cardinality(t) # Cardinality(s)
          BY <1>4, <3>1, FS_Subset
        <5> QED BY <1>4, <4>1, <5>1
      <4>3. Cardinality(t) <= n BY <1>4, <2>1, <4>1, <4>2
      <4> QED BY <1>6, <4>1, <4>3
    <3> HIDE DEF N
    <3>2. IsFiniteSet(s) /\ (\A x \in s : fun[x] \in Int) BY <1>4
    <3>3. CASE s # {} BY <1>1, <1>2, <3>1, <3>2, <3>3, OneMore
    <3> QED BY <1>3, <3>3
  <2>2. n + 1 \in Nat OBVIOUS
  <2> QED BY <2>1, <2>2, Zenon
<1>7. Nat \subseteq N
  <2> HIDE DEF N
  <2> QED BY <1>5, <1>6, SetInduction
<1>8. ASSUME NEW s \in SUBSET S PROVE AnyFirst(g, fun, s)
  <2>1. Cardinality(s) \in N /\ Cardinality(s) \in Nat BY <1>4, <1>7
  <2> QED BY <2>1
<1> QED BY <1>8

\* Two such functions over two domains agree where both are defined.
LEMMA SameSums ==
    ASSUME NEW fun, NEW S, IsFiniteSet(S), NEW T \in SUBSET S,
           NEW g, IsSumOn(g, fun, SUBSET S), NEW h, IsSumOn(h, fun, SUBSET T)
    PROVE  g[T] = h[T]
<1> DEFINE N == {n \in Nat : \A s \in SUBSET T : Cardinality(s) = n => g[s] = h[s]}
<1>1. \A s \in SUBSET T : g[s] = Added(g, fun, s) /\ h[s] = Added(h, fun, s)
  BY DEF IsSumOn
<1>2. \A s \in SUBSET T : IsFiniteSet(s) /\ Cardinality(s) \in Nat
  BY FS_Subset, FS_CardinalityType
<1>3. 0 \in N
  <2>1. g[{}] = h[{}] BY <1>1 DEF Added
  <2> QED BY <1>2, <2>1, FS_EmptySet
<1>4. ASSUME NEW n \in Nat, n \in N PROVE n + 1 \in N
  <2>1. ASSUME NEW s \in SUBSET T, Cardinality(s) = n + 1 PROVE g[s] = h[s]
    <3>1. s # {} BY <2>1, FS_EmptySet
    <3> DEFINE rest == s \ {Picked(s)}
    <3>2. Picked(s) \in s BY <3>1 DEF Picked
    <3>3. Cardinality(rest) = n /\ rest \in SUBSET T BY <1>2, <2>1, <3>2, OneLess
    <3>4. g[rest] = h[rest] BY <1>4, <3>3
    <3> HIDE DEF N
    <3> QED BY <1>1, <3>1, <3>4 DEF Added
  <2> QED BY <2>1
<1>5. Nat \subseteq N
  <2> HIDE DEF N
  <2> QED BY <1>3, <1>4, SetInduction
<1>6. Cardinality(T) \in N BY <1>2, <1>5
<1> QED BY <1>6

-----------------------------------------------------------------------------
(* What a sum is *)

LEMMA EmptySum == ASSUME NEW fun PROVE SumFunctionOnSet(fun, {}) = 0
<1>1. PICK g : IsSumOn(g, fun, SUBSET {}) /\ SumFunctionOnSet(fun, {}) = g[{}]
  BY SumIsSum, FS_EmptySet
<1>2. g[{}] = Added(g, fun, {}) BY <1>1 DEF IsSumOn
<1> QED BY <1>1, <1>2 DEF Added

\* A sum is an integer, and any of its terms may be taken out.
LEMMA SumStep ==
    ASSUME NEW fun, NEW S, IsFiniteSet(S), \A x \in S : fun[x] \in Int
    PROVE  /\ SumFunctionOnSet(fun, S) \in Int
           /\ \A x \in S :
                 SumFunctionOnSet(fun, S) = fun[x] + SumFunctionOnSet(fun, S \ {x})
<1>1. PICK g : IsSumOn(g, fun, SUBSET S) /\ SumFunctionOnSet(fun, S) = g[S]
  BY SumIsSum
<1>2. AnyFirst(g, fun, S) BY <1>1, AnyOrder
<1>3. ASSUME NEW x \in S PROVE SumFunctionOnSet(fun, S \ {x}) = g[S \ {x}]
  <2> DEFINE T == S \ {x}
  <2>1. IsFiniteSet(T) /\ T \in SUBSET S BY OneLess
  <2> HIDE DEF T
  <2>2. PICK h : IsSumOn(h, fun, SUBSET T) /\ SumFunctionOnSet(fun, T) = h[T]
    BY <2>1, SumIsSum
  <2>3. IsSumOn(g, fun, SUBSET S) /\ IsSumOn(h, fun, SUBSET T) /\ T \in SUBSET S
    BY <1>1, <2>1, <2>2
  <2>4. ASSUME NEW U \in SUBSET S, NEW k, IsSumOn(k, fun, SUBSET U) PROVE g[U] = k[U]
    BY <2>3, <2>4, SameSums
  <2>5. g[T] = h[T] BY <2>3, <2>4
  <2> QED BY <2>2, <2>5 DEF T
<1> QED BY <1>1, <1>2, <1>3 DEF AnyFirst

\* Functions with the same terms have the same sum.
LEMMA SumSame ==
    ASSUME NEW f, NEW g, NEW S, IsFiniteSet(S), \A y \in S : f[y] \in Int /\ g[y] = f[y]
    PROVE  SumFunctionOnSet(g, S) = SumFunctionOnSet(f, S)
<1> DEFINE C == {s \in SUBSET S : SumFunctionOnSet(f, s) = SumFunctionOnSet(g, s)}
<1>1. {} \in C BY EmptySum
<1>2. ASSUME NEW s \in SUBSET S, NEW y \in S \ s, s \in C PROVE s \cup {y} \in C
  <2> DEFINE t == s \cup {y}
  <2>1. IsFiniteSet(t) /\ t \in SUBSET S BY FS_Subset
  <2>2. t \ {y} = s /\ y \in t BY <1>2
  <2>3. (\A z \in t : f[z] \in Int) /\ (\A z \in t : g[z] \in Int) /\ g[y] = f[y] BY <2>1
  <2> HIDE DEF t, C
  <2>4. SumFunctionOnSet(f, t) = f[y] + SumFunctionOnSet(f, s) BY <2>1, <2>2, <2>3, SumStep
  <2>5. SumFunctionOnSet(g, t) = g[y] + SumFunctionOnSet(g, s) BY <2>1, <2>2, <2>3, SumStep
  <2>6. SumFunctionOnSet(f, s) = SumFunctionOnSet(g, s) BY <1>2 DEF C
  <2> QED BY <2>1, <2>3, <2>4, <2>5, <2>6 DEF C, t
<1>3. S \in C
  <2> HIDE DEF C
  <2> QED BY <1>1, <1>2, SubsetInduction
<1> QED BY <1>3

\* One term more.
LEMMA SumGrown ==
    ASSUME NEW f, NEW g, NEW S, IsFiniteSet(S), NEW x, x \notin S,
           \A y \in S : f[y] \in Int /\ g[y] = f[y], g[x] \in Int
    PROVE  SumFunctionOnSet(g, S \cup {x}) = g[x] + SumFunctionOnSet(f, S)
<1>1. IsFiniteSet(S \cup {x}) BY FS_AddElement
<1>2. (S \cup {x}) \ {x} = S /\ x \in S \cup {x} OBVIOUS
<1>3. \A y \in S \cup {x} : g[y] \in Int OBVIOUS
<1>4. SumFunctionOnSet(g, S \cup {x}) = g[x] + SumFunctionOnSet(g, S)
  BY <1>1, <1>2, <1>3, SumStep
<1> QED BY <1>4, SumSame

\* One element more, of a larger set on which all terms are integers.
LEMMA SumInsert ==
    ASSUME NEW f, NEW S, IsFiniteSet(S), \A x \in S : f[x] \in Int,
           NEW s \in SUBSET S, NEW y \in S \ s
    PROVE  /\ SumFunctionOnSet(f, s) \in Int
           /\ SumFunctionOnSet(f, s \cup {y}) = f[y] + SumFunctionOnSet(f, s)
<1>1. IsFiniteSet(s) BY FS_Subset
<1>2. \A x \in s : f[x] \in Int /\ f[x] = f[x] OBVIOUS
<1>3. SumFunctionOnSet(f, s) \in Int BY <1>1, <1>2, SumStep
<1> QED BY <1>1, <1>2, <1>3, SumGrown

LEMMA SumPlus ==
    ASSUME NEW f, NEW g, NEW h, NEW S, IsFiniteSet(S),
           \A x \in S : f[x] \in Int /\ g[x] \in Int /\ h[x] = f[x] + g[x]
    PROVE  SumFunctionOnSet(h, S) = SumFunctionOnSet(f, S) + SumFunctionOnSet(g, S)
<1> DEFINE C == {s \in SUBSET S :
                   SumFunctionOnSet(h, s) = SumFunctionOnSet(f, s) + SumFunctionOnSet(g, s)}
<1>1. {} \in C BY EmptySum
<1>2. ASSUME NEW s \in SUBSET S, NEW y \in S \ s, s \in C PROVE s \cup {y} \in C
  <2>1. \A x \in S : h[x] \in Int OBVIOUS
  <2>2. /\ SumFunctionOnSet(f, s) \in Int /\ SumFunctionOnSet(g, s) \in Int
        /\ SumFunctionOnSet(f, s \cup {y}) = f[y] + SumFunctionOnSet(f, s)
        /\ SumFunctionOnSet(g, s \cup {y}) = g[y] + SumFunctionOnSet(g, s)
    BY SumInsert
  <2>3. SumFunctionOnSet(h, s \cup {y}) = h[y] + SumFunctionOnSet(h, s)
    BY <2>1, SumInsert
  <2>4. /\ SumFunctionOnSet(h, s) = SumFunctionOnSet(f, s) + SumFunctionOnSet(g, s)
        /\ f[y] \in Int /\ g[y] \in Int /\ h[y] = f[y] + g[y]
    BY <1>2
  <2>5. s \cup {y} \in SUBSET S OBVIOUS
  <2>6. SumFunctionOnSet(h, s \cup {y})
          = SumFunctionOnSet(f, s \cup {y}) + SumFunctionOnSet(g, s \cup {y})
    BY <2>2, <2>3, <2>4
  <2> QED BY <2>5, <2>6
<1>3. S \in C
  <2> HIDE DEF C
  <2> QED BY <1>1, <1>2, SubsetInduction
<1> QED BY <1>3

LEMMA SumScaled ==
    ASSUME NEW f, NEW g, NEW S, IsFiniteSet(S), NEW c \in Int,
           \A x \in S : f[x] \in Int /\ g[x] = c * f[x]
    PROVE  SumFunctionOnSet(g, S) = c * SumFunctionOnSet(f, S)
<1> DEFINE C == {s \in SUBSET S : SumFunctionOnSet(g, s) = c * SumFunctionOnSet(f, s)}
<1>1. {} \in C BY EmptySum
<1>2. ASSUME NEW s \in SUBSET S, NEW y \in S \ s, s \in C PROVE s \cup {y} \in C
  <2>1. \A x \in S : g[x] \in Int OBVIOUS
  <2>2. /\ SumFunctionOnSet(f, s) \in Int
        /\ SumFunctionOnSet(f, s \cup {y}) = f[y] + SumFunctionOnSet(f, s)
    BY SumInsert
  <2>3. SumFunctionOnSet(g, s \cup {y}) = g[y] + SumFunctionOnSet(g, s)
    BY <2>1, SumInsert
  <2>4. \A a, b \in Int : c * a + c * b = c * (a + b) OBVIOUS
  <2>5. f[y] \in Int /\ g[y] = c * f[y] OBVIOUS
  <2>6. SumFunctionOnSet(g, s) = c * SumFunctionOnSet(f, s) BY <1>2
  <2>7. s \cup {y} \in SUBSET S OBVIOUS
  <2>8. c * f[y] + c * SumFunctionOnSet(f, s) = c * (f[y] + SumFunctionOnSet(f, s))
    BY <2>2, <2>4, <2>5
  <2>9. SumFunctionOnSet(g, s \cup {y}) = c * SumFunctionOnSet(f, s \cup {y})
    BY <2>2, <2>3, <2>5, <2>6, <2>8, Zenon
  <2> QED BY <2>7, <2>9
<1>3. S \in C
  <2> HIDE DEF C
  <2> QED BY <1>1, <1>2, SubsetInduction
<1> QED BY <1>3

\* Elements whose term is zero may be added.
LEMMA SumOfMore ==
    ASSUME NEW f, NEW S, IsFiniteSet(S), NEW T \in SUBSET S,
           \A x \in T : f[x] \in Int, \A x \in S \ T : f[x] = 0
    PROVE  SumFunctionOnSet(f, S) = SumFunctionOnSet(f, T)
<1> DEFINE C == {s \in SUBSET (S \ T) :
                   SumFunctionOnSet(f, T \cup s) = SumFunctionOnSet(f, T)}
<1>1. {} \in C OBVIOUS
<1>2. ASSUME NEW s \in SUBSET (S \ T), NEW y \in (S \ T) \ s, s \in C PROVE s \cup {y} \in C
  <2>1. \A x \in S : f[x] \in Int OBVIOUS
  <2>2. T \cup s \in SUBSET S /\ y \in S \ (T \cup s) OBVIOUS
  <2>3. /\ SumFunctionOnSet(f, T \cup s) \in Int
        /\ SumFunctionOnSet(f, (T \cup s) \cup {y}) = f[y] + SumFunctionOnSet(f, T \cup s)
    BY <2>1, <2>2, SumInsert
  <2>4. (T \cup s) \cup {y} = T \cup (s \cup {y}) /\ f[y] = 0 OBVIOUS
  <2>5. s \cup {y} \in SUBSET (S \ T) OBVIOUS
  <2>6. SumFunctionOnSet(f, T \cup s) = SumFunctionOnSet(f, T) BY <1>2
  <2>7. SumFunctionOnSet(f, T \cup (s \cup {y})) = SumFunctionOnSet(f, T)
    BY <2>3, <2>4, <2>6
  <2> QED BY <2>5, <2>7
<1>3. IsFiniteSet(S \ T) BY FS_Subset
<1>4. S \ T \in C
  <2> HIDE DEF C
  <2> QED BY <1>1, <1>2, <1>3, SubsetInduction
<1>5. T \cup (S \ T) = S OBVIOUS
<1> QED BY <1>4, <1>5

\* Terms of one sign add up to that sign, and none exceeds the sum.
LEMMA SumOfNaturals ==
    ASSUME NEW f, NEW S, IsFiniteSet(S), \A x \in S : f[x] \in Nat
    PROVE  /\ SumFunctionOnSet(f, S) \in Nat
           /\ \A x \in S : f[x] <= SumFunctionOnSet(f, S)
<1> DEFINE C == {s \in SUBSET S : SumFunctionOnSet(f, s) \in Nat}
<1>1. {} \in C BY EmptySum
<1>2. ASSUME NEW s \in SUBSET S, NEW y \in S \ s, s \in C PROVE s \cup {y} \in C
  <2>1. SumFunctionOnSet(f, s \cup {y}) = f[y] + SumFunctionOnSet(f, s)
    BY SumInsert
  <2>2. s \cup {y} \in SUBSET S OBVIOUS
  <2>3. SumFunctionOnSet(f, s \cup {y}) \in Nat BY <1>2, <2>1
  <2> QED BY <2>2, <2>3
<1>3. ASSUME NEW s \in SUBSET S PROVE SumFunctionOnSet(f, s) \in Nat
  <2>1. IsFiniteSet(s) BY FS_Subset
  <2> DEFINE D == {t \in SUBSET s : SumFunctionOnSet(f, t) \in Nat}
  <2>2. {} \in D BY EmptySum
  <2>3. ASSUME NEW t \in SUBSET s, NEW y \in s \ t, t \in D PROVE t \cup {y} \in D
    BY <1>2, <2>3
  <2>4. s \in D
    <3> HIDE DEF D
    <3> QED BY <2>1, <2>2, <2>3, SubsetInduction
  <2> QED BY <2>4
<1>4. ASSUME NEW x \in S PROVE f[x] <= SumFunctionOnSet(f, S)
  <2>1. S \ {x} \in SUBSET S /\ x \in S \ (S \ {x}) /\ (S \ {x}) \cup {x} = S OBVIOUS
  <2>2. SumFunctionOnSet(f, (S \ {x}) \cup {x}) = f[x] + SumFunctionOnSet(f, S \ {x})
    BY <2>1, SumInsert
  <2>3. SumFunctionOnSet(f, S \ {x}) \in Nat BY <1>3, <2>1
  <2>4. SumFunctionOnSet(f, S) = f[x] + SumFunctionOnSet(f, S \ {x}) BY <2>1, <2>2
  <2>5. \A a, b \in Nat : a <= a + b OBVIOUS
  <2> QED BY <2>3, <2>4, <2>5, Zenon
<1> QED BY <1>3, <1>4

\* Ones and zeros add up to the number of the ones.
LEMMA SumOfOnes ==
    ASSUME NEW f, NEW S, IsFiniteSet(S), NEW T \in SUBSET S,
           \A x \in S : f[x] = IF x \in T THEN 1 ELSE 0
    PROVE  SumFunctionOnSet(f, S) = Cardinality(T)
<1> DEFINE C == {s \in SUBSET T : SumFunctionOnSet(f, s) = Cardinality(s)}
<1>1. {} \in C BY EmptySum, FS_EmptySet
<1>2. IsFiniteSet(T) BY FS_Subset
<1>3. ASSUME NEW s \in SUBSET T, NEW y \in T \ s, s \in C PROVE s \cup {y} \in C
  <2>1. \A x \in T : f[x] \in Int /\ f[x] = 1 OBVIOUS
  <2>2. SumFunctionOnSet(f, s \cup {y}) = f[y] + SumFunctionOnSet(f, s)
    BY <1>2, <2>1, SumInsert
  <2>3. IsFiniteSet(s) BY <1>2, FS_Subset
  <2>4. Cardinality(s \cup {y}) = Cardinality(s) + 1 /\ Cardinality(s) \in Nat
    BY <2>3, FS_AddElement, FS_CardinalityType
  <2>5. s \cup {y} \in SUBSET T OBVIOUS
  <2>6. SumFunctionOnSet(f, s) = Cardinality(s) BY <1>3
  <2>7. SumFunctionOnSet(f, s \cup {y}) = Cardinality(s \cup {y})
    BY <2>1, <2>2, <2>4, <2>6
  <2> QED BY <2>5, <2>7
<1>4. T \in C
  <2> HIDE DEF C
  <2> QED BY <1>1, <1>2, <1>3, SubsetInduction
<1>5. SumFunctionOnSet(f, S) = SumFunctionOnSet(f, T) BY SumOfMore
<1> QED BY <1>4, <1>5

-----------------------------------------------------------------------------
(* Ranks *)

\* The first k elements of a finite set in a strict total order are k elements.  before
\* is the order: the elements before x.
LEMMA FirstOnes ==
    ASSUME NEW S, IsFiniteSet(S), NEW before \in [S -> SUBSET S],
           \A x \in S : x \notin before[x],
           \A x, y \in S : x \in before[y] => before[x] \subseteq before[y],
           \A x, y \in S : x # y => x \in before[y] \/ y \in before[x],
           NEW k \in Nat, k <= Cardinality(S)
    PROVE  Cardinality({x \in S : Cardinality(before[x]) < k}) = k
<1> DEFINE n == Cardinality(S)
           rank == [x \in S |-> Cardinality(before[x])]
           Ranks == 0 .. n - 1
           First == {x \in S : rank[x] < k}
<1>1. n \in Nat BY FS_CardinalityType
<1>2. \A x \in S : IsFiniteSet(before[x]) BY FS_Subset
<1>3. ASSUME NEW x \in S PROVE rank[x] \in Ranks
  <2>1. before[x] \in SUBSET S /\ before[x] # S OBVIOUS
  <2>2. Cardinality(before[x]) <= n /\ Cardinality(before[x]) # n BY <2>1, FS_Subset
  <2>3. Cardinality(before[x]) \in Nat BY <1>2, FS_CardinalityType
  <2> QED BY <1>1, <2>2, <2>3
<1>4. ASSUME NEW x \in S, NEW y \in S, x \in before[y] PROVE rank[x] # rank[y]
  <2>1. before[x] \in SUBSET before[y] /\ before[x] # before[y] BY <1>4
  <2>2. Cardinality(before[x]) # Cardinality(before[y]) BY <1>2, <2>1, FS_Subset
  <2> QED BY <2>2
<1>5. \A x, y \in S : rank[x] = rank[y] => x = y BY <1>4
<1>6. rank \in Injection(S, Ranks)
  <2>1. rank \in [S -> Ranks] BY <1>3
  <2>2. \A a, b \in S : rank[a] = rank[b] => a = b BY <1>5
  <2> HIDE DEF rank, Ranks
  <2> QED BY <2>1, <2>2, Fun_IsInj
<1>7. IsFiniteSet(Ranks) /\ Cardinality(Ranks) = n
  <2> HIDE DEF n
  <2>1. n - 1 \in Int /\ (0 > n - 1 <=> n = 0) BY <1>1
  <2>2. /\ IsFiniteSet(0 .. n - 1)
        /\ Cardinality(0 .. n - 1) = IF 0 > n - 1 THEN 0 ELSE (n - 1) - 0 + 1
    BY <2>1, FS_Interval
  <2> QED BY <1>1, <2>1, <2>2
<1>8. \A i \in Ranks : \E x \in S : rank[x] = i
  <2> HIDE DEF rank, Ranks
  <2>1. rank \in Surjection(S, Ranks) BY <1>6, <1>7, FS_Injection DEF n
  <2> QED BY <2>1, Fun_SurjectionProperties
<1> DEFINE firstRank == [x \in First |-> rank[x]]
           FirstRanks == 0 .. k - 1
<1>9. firstRank \in [First -> FirstRanks]
  <2>1. \A x \in First : rank[x] \in FirstRanks BY <1>3
  <2> QED BY <2>1
<1>10. \A x, y \in First : firstRank[x] = firstRank[y] => x = y BY <1>5
<1>11. \A i \in FirstRanks : \E x \in First : firstRank[x] = i
  <2>1. ASSUME NEW i \in FirstRanks PROVE \E x \in First : firstRank[x] = i
    <3>1. i \in Ranks /\ i < k BY <1>1
    <3>2. PICK x \in S : rank[x] = i BY <1>8, <3>1
    <3>3. x \in First /\ firstRank[x] = i BY <3>1, <3>2
    <3> QED BY <3>3
  <2> QED BY <2>1
<1>12. IsFiniteSet(First) BY FS_Subset
<1>13. IsFiniteSet(FirstRanks) /\ Cardinality(FirstRanks) = k BY FS_Interval
<1>14. First = {x \in S : Cardinality(before[x]) < k} OBVIOUS
<1> HIDE DEF First, FirstRanks, firstRank
<1>15. firstRank \in Bijection(First, FirstRanks) BY <1>9, <1>10, <1>11, Fun_IsBij
<1>16. Cardinality(FirstRanks) = Cardinality(First)
  BY <1>12, <1>15, FS_Bijection DEF ExistsBijection
<1> QED BY <1>13, <1>14, <1>16
=============================================================================
