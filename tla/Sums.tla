-------------------------------- MODULE Sums --------------------------------
(***************************************************************************)
(* What the proofs need of sets of naturals, of their least and greatest   *)
(* elements, of the sum of a function over a finite set and of quotients.  *)
(* Induction is by a least counterexample.                                 *)
(***************************************************************************)
EXTENDS Integers, FiniteSets, FiniteSetsExt, Functions, FiniteSetTheorems,
        WellFoundedInduction, TLAPS

-----------------------------------------------------------------------------
(* Sets of naturals. *)

\* A nonempty set of naturals has a least element.
LEMMA LeastNatural ==
  ASSUME NEW S \in SUBSET Nat, S # {}
  PROVE  \E x \in S : \A y \in S : x <= y
<1>1. PICK x \in S : \A y \in S : ~(<<y, x>> \in OpToRel(<, Nat))
  BY WFMin, NatLessThanWellFounded
<1>2. \A y \in S : ~(y < x)
  BY <1>1, Zenon DEF OpToRel
<1> QED BY <1>2

\* The smaller and the greater of two numbers.
LEMMA MinOfTwo ==
  ASSUME NEW a \in Int, NEW b \in Int
  PROVE  Min({a, b}) = IF a <= b THEN a ELSE b
BY DEF Min

\* The larger of two.
LEMMA MaxOfTwo ==
  ASSUME NEW a \in Int, NEW b \in Int
  PROVE  Max({a, b}) = IF a >= b THEN a ELSE b
BY DEF Max

\* Min and Max of FiniteSetsExt are what their names say on bounded sets.
LEMMA MinOfNaturals ==
  ASSUME NEW S \in SUBSET Nat, S # {}
  PROVE  Min(S) \in S /\ \A y \in S : Min(S) <= y
BY LeastNatural, Zenon DEF Min

\* A bounded set of naturals has a maximum.
LEMMA MaxOfNaturals ==
  ASSUME NEW S \in SUBSET Nat, S # {}, NEW n \in Nat, \A y \in S : y <= n
  PROVE  Max(S) \in S /\ \A y \in S : y <= Max(S)
<1> DEFINE U == {m \in Nat : \A y \in S : y <= m}
<1>1. PICK m \in U : \A k \in U : m <= k
  <2>1. n \in U /\ U \in SUBSET Nat
    OBVIOUS
  <2> HIDE DEF U
  <2> QED BY <2>1, LeastNatural
<1>2. m \in S
  <2> SUFFICES ASSUME m \notin S PROVE FALSE
    OBVIOUS
  <2>1. PICK y \in S : TRUE
    BY Zenon
  <2>2. m \in Nat /\ y \in Nat /\ y <= m /\ y # m
    BY <1>1
  <2>3. m - 1 \in Nat
    BY <2>2
  <2>4. \A z \in S : z <= m - 1
    BY <1>1, <2>2
  <2> QED BY <1>1, <2>2, <2>3, <2>4
<1>3. \E x \in S : \A y \in S : x >= y
  BY <1>1, <1>2
<1> QED BY <1>3, Zenon DEF Max

-----------------------------------------------------------------------------
(* The sum of a function over a finite set, SumFunctionOnSet of Functions. *)

\* The element the sum takes first, and the equation its iteration meets.
First(s) == CHOOSE x \in s : TRUE
Iterates(g, f, D) ==
  g = [s \in D |-> IF s = {} THEN 0 ELSE f[First(s)] + g[s \ {First(s)}]]
Iteration(f, S) == CHOOSE g : Iterates(g, f, SUBSET S)

\* The library sum is the iteration defined here.
LEMMA SumIsIteration ==
  ASSUME NEW f, NEW S
  PROVE  SumFunctionOnSet(f, S) = Iteration(f, S)[S]
BY DEF SumFunctionOnSet, FoldFunctionOnSet, MapThenFoldSet, Iteration, Iterates, First

\* Taking the element that CHOOSE takes leaves one less.
LEMMA FirstOf ==
  ASSUME NEW s, s # {}, IsFiniteSet(s)
  PROVE  /\ First(s) \in s /\ IsFiniteSet(s \ {First(s)})
         /\ Cardinality(s \ {First(s)}) = Cardinality(s) - 1
         /\ Cardinality(s) \in Nat /\ Cardinality(s) > 0
         /\ Cardinality(s) - 1 \in Nat /\ ~(Cardinality(s) <= Cardinality(s) - 1)
<1>1. First(s) \in s
  BY DEF First
<1>2. Cardinality(s) \in Nat
  BY FS_CardinalityType
<1>3. Cardinality(s) # 0
  BY FS_EmptySet
<1> QED BY <1>1, <1>2, <1>3, FS_RemoveElement

\* The iteration exists over a finite set: it is built up by cardinality.
LEMMA IterationExists ==
  ASSUME NEW f, NEW S, IsFiniteSet(S)
  PROVE  Iterates(Iteration(f, S), f, SUBSET S)
<1> DEFINE D(n) == {s \in SUBSET S : Cardinality(s) <= n}
           bad == {n \in Nat : ~ \E g : Iterates(g, f, D(n))}
<1>1. \A s \in SUBSET S : IsFiniteSet(s) /\ Cardinality(s) \in Nat
                          /\ Cardinality(s) <= Cardinality(S)
  BY FS_Subset, FS_CardinalityType
<1>2. \E g : Iterates(g, f, D(0))
  <2> DEFINE g == [s \in D(0) |-> 0]
  <2>1. \A s \in D(0) : s = {}
    BY <1>1, FS_EmptySet
  <2>2. Iterates(g, f, D(0))
    BY <2>1 DEF Iterates
  <2> QED BY <2>2, Zenon
<1>3. ASSUME NEW n \in Nat, NEW g, Iterates(g, f, D(n))
      PROVE  \E h : Iterates(h, f, D(n + 1))
  <2> DEFINE h == [s \in D(n + 1) |->
                     IF s = {} THEN 0 ELSE f[First(s)] + g[s \ {First(s)}]]
  <2>1. ASSUME NEW s \in D(n + 1), s # {}
        PROVE  s \ {First(s)} \in D(n) /\ s \ {First(s)} \in D(n + 1)
    <3>1. s \in SUBSET S /\ IsFiniteSet(s) /\ Cardinality(s) \in Nat
          /\ Cardinality(s) <= n + 1
      BY <1>1
    <3>2. Cardinality(s \ {First(s)}) = Cardinality(s) - 1
      BY <2>1, <3>1, FirstOf
    <3>3. s \ {First(s)} \in SUBSET S
      BY <3>1
    <3> QED BY <3>1, <3>2, <3>3
  <2>2. ASSUME NEW s \in D(n) PROVE s \in D(n + 1) /\ h[s] = g[s]
    <3>1. s \in D(n + 1)
      BY <1>1
    <3>2. g[s] = IF s = {} THEN 0 ELSE f[First(s)] + g[s \ {First(s)}]
      <4> HIDE DEF D
      <4> QED BY <1>3, <2>2, Zenon DEF Iterates
    <3>3. h[s] = IF s = {} THEN 0 ELSE f[First(s)] + g[s \ {First(s)}]
      <4> HIDE DEF D
      <4> QED BY <3>1
    <3> QED BY <3>1, <3>2, <3>3
  <2>3. \A s \in D(n + 1) : s # {} => g[s \ {First(s)}] = h[s \ {First(s)}]
    <3> HIDE DEF h
    <3> QED BY <2>1, <2>2
  <2>4. Iterates(h, f, D(n + 1))
    <3> DEFINE rhs == [s \in D(n + 1) |->
                         IF s = {} THEN 0 ELSE f[First(s)] + h[s \ {First(s)}]]
    <3>1. \A s \in D(n + 1) :
            (IF s = {} THEN 0 ELSE f[First(s)] + g[s \ {First(s)}])
              = (IF s = {} THEN 0 ELSE f[First(s)] + h[s \ {First(s)}])
      <4> HIDE DEF h, D
      <4> QED BY <2>3
    <3>2. h = rhs
      <4> HIDE DEF D
      <4> QED BY <3>1, Zenon
    <3> QED BY <3>2, Zenon DEF Iterates
  <2> QED BY <2>4, Zenon
<1>4. bad = {}
  <2> SUFFICES ASSUME bad # {} PROVE FALSE
    OBVIOUS
  <2>1. PICK n \in bad : \A m \in bad : n <= m
    <3>1. bad \in SUBSET Nat
      OBVIOUS
    <3> HIDE DEF bad
    <3> QED BY <3>1, LeastNatural
  <2>2. n \in Nat /\ n # 0
    BY <1>2, Zenon
  <2>3. n - 1 \in Nat /\ n - 1 \notin bad
    <3>1. n - 1 \in Nat /\ ~(n <= n - 1)
      BY <2>2
    <3> HIDE DEF bad
    <3> QED BY <2>1, <3>1
  <2>4. PICK g : Iterates(g, f, D(n - 1))
    BY <2>3, Zenon
  <2>5. \E h : Iterates(h, f, D((n - 1) + 1))
    <3> HIDE DEF D
    <3> QED BY <1>3, <2>3, <2>4
  <2>6. (n - 1) + 1 = n
    BY <2>2
  <2> QED BY <2>1, <2>5, <2>6, Zenon
<1>5. D(Cardinality(S)) = SUBSET S /\ Cardinality(S) \in Nat
  BY <1>1
<1>6. \E g : Iterates(g, f, SUBSET S)
  <2>1. Cardinality(S) \notin bad
    BY <1>4, Zenon
  <2> QED BY <1>5, <2>1
<1> QED BY <1>6 DEF Iteration

\* The iteration over a larger set has the same values.
LEMMA IterationRestricts ==
  ASSUME NEW f, NEW S, IsFiniteSet(S), NEW T \in SUBSET S, NEW r \in SUBSET T
  PROVE  Iteration(f, S)[r] = Iteration(f, T)[r]
<1> DEFINE g == Iteration(f, S)
           h == Iteration(f, T)
           bad == {n \in Nat : \E s \in SUBSET T : Cardinality(s) = n /\ g[s] # h[s]}
<1>1. IsFiniteSet(T)
  BY FS_Subset
<1>2. Iterates(g, f, SUBSET S) /\ Iterates(h, f, SUBSET T)
  BY <1>1, IterationExists
<1> HIDE DEF g, h
<1>3. \A s \in SUBSET T :
        /\ g[s] = IF s = {} THEN 0 ELSE f[First(s)] + g[s \ {First(s)}]
        /\ h[s] = IF s = {} THEN 0 ELSE f[First(s)] + h[s \ {First(s)}]
  <2> TAKE s \in SUBSET T
  <2>1. s \in SUBSET S
    OBVIOUS
  <2> QED BY <1>2, <2>1, Zenon DEF Iterates
<1>4. ASSUME bad # {} PROVE FALSE
  <2>1. PICK n \in bad : \A m \in bad : n <= m
    <3>1. bad \in SUBSET Nat
      OBVIOUS
    <3> HIDE DEF bad
    <3> QED BY <1>4, <3>1, LeastNatural
  <2>2. PICK s \in SUBSET T : Cardinality(s) = n /\ g[s] # h[s]
    OBVIOUS
  <2>3. s # {}
    BY <1>3, <2>2
  <2>4. IsFiniteSet(s)
    BY <1>1, FS_Subset
  <2> DEFINE u == s \ {First(s)}
  <2>5. u \in SUBSET T /\ Cardinality(u) = n - 1 /\ n - 1 \in Nat /\ ~(n <= n - 1)
    <3>1. /\ Cardinality(u) = Cardinality(s) - 1 /\ Cardinality(s) - 1 \in Nat
          /\ ~(Cardinality(s) <= Cardinality(s) - 1)
      BY <2>3, <2>4, FirstOf
    <3>2. u \in SUBSET T
      OBVIOUS
    <3> QED BY <2>2, <3>1, <3>2
  <2>6. g[u] # h[u]
    BY <1>3, <2>2, <2>3, Zenon
  <2>7. n - 1 \in bad
    <3> HIDE DEF u
    <3> QED BY <2>5, <2>6
  <2> HIDE DEF bad
  <2> QED BY <2>1, <2>5, <2>7
<1>5. IsFiniteSet(r) /\ Cardinality(r) \in Nat
  BY <1>1, FS_Subset, FS_CardinalityType
<1>6. g[r] = h[r]
  BY <1>4, <1>5
<1> QED BY <1>6 DEF g, h

\* The empty sum, and the sum by its first element.
LEMMA SumFirst ==
  ASSUME NEW f, NEW S, IsFiniteSet(S)
  PROVE  SumFunctionOnSet(f, S)
           = IF S = {} THEN 0
             ELSE f[First(S)] + SumFunctionOnSet(f, S \ {First(S)})
<1>1. Iteration(f, S)[S] = IF S = {} THEN 0
                           ELSE f[First(S)] + Iteration(f, S)[S \ {First(S)}]
  <2>1. Iterates(Iteration(f, S), f, SUBSET S) /\ S \in SUBSET S
    BY IterationExists
  <2> QED BY <2>1, Zenon DEF Iterates
<1> DEFINE u == S \ {First(S)}
<1>2. Iteration(f, S)[u] = Iteration(f, u)[u]
  <2>1. u \in SUBSET S /\ u \in SUBSET u
    OBVIOUS
  <2> HIDE DEF u
  <2> QED BY <2>1, IterationRestricts
<1> QED BY <1>1, <1>2, SumIsIteration

\* The sum over nothing.
LEMMA SumEmpty == \A f : SumFunctionOnSet(f, {}) = 0
BY SumFirst, FS_EmptySet, Zenon

\* The sum of integers is an integer, and of naturals a natural.
LEMMA SumType ==
  ASSUME NEW S, IsFiniteSet(S), NEW f
  PROVE  /\ (\A x \in S : f[x] \in Int) => SumFunctionOnSet(f, S) \in Int
         /\ (\A x \in S : f[x] \in Nat) => SumFunctionOnSet(f, S) \in Nat
<1> DEFINE P(T) == /\ (\A x \in T : f[x] \in Int) => SumFunctionOnSet(f, T) \in Int
                   /\ (\A x \in T : f[x] \in Nat) => SumFunctionOnSet(f, T) \in Nat
           bad == {n \in Nat : \E T : IsFiniteSet(T) /\ Cardinality(T) = n /\ ~P(T)}
<1>1. ASSUME bad # {} PROVE FALSE
  <2>1. PICK n \in bad : \A m \in bad : n <= m
    <3>1. bad \in SUBSET Nat
      OBVIOUS
    <3> HIDE DEF bad
    <3> QED BY <1>1, <3>1, LeastNatural
  <2>2. PICK T : IsFiniteSet(T) /\ Cardinality(T) = n /\ ~P(T)
    OBVIOUS
  <2>3. T # {}
    BY <2>2, SumEmpty
  <2> DEFINE u == T \ {First(T)}
  <2>4. IsFiniteSet(u) /\ Cardinality(u) = n - 1 /\ n - 1 \in Nat /\ ~(n <= n - 1)
        /\ First(T) \in T
    BY <2>2, <2>3, FirstOf
  <2>5. SumFunctionOnSet(f, T) = f[First(T)] + SumFunctionOnSet(f, u)
    BY <2>2, <2>3, SumFirst
  <2>6. ~P(u)
    <3>1. \A x \in u : x \in T
      OBVIOUS
    <3> HIDE DEF u
    <3> QED BY <2>2, <2>4, <2>5, <3>1
  <2>7. n - 1 \in bad
    <3> HIDE DEF u, P
    <3> QED BY <2>4, <2>6
  <2> HIDE DEF bad
  <2> QED BY <2>1, <2>4, <2>7
<1>2. Cardinality(S) \in Nat
  BY FS_CardinalityType
<1> HIDE DEF P
<1>3. P(S)
  BY <1>1, <1>2
<1> QED BY <1>3 DEF P

\* The order in which elements are taken does not matter.
LEMMA SumSplit ==
  ASSUME NEW S, IsFiniteSet(S), NEW f, \A x \in S : f[x] \in Int, NEW a \in S
  PROVE  SumFunctionOnSet(f, S) = f[a] + SumFunctionOnSet(f, S \ {a})
<1> DEFINE Splits(T, x) == SumFunctionOnSet(f, T) = f[x] + SumFunctionOnSet(f, T \ {x})
           bad == {n \in Nat : \E T \in SUBSET S : \E x \in T : Cardinality(T) = n /\ ~Splits(T, x)}
<1>1. ASSUME bad # {} PROVE FALSE
  <2>1. PICK n \in bad : \A m \in bad : n <= m
    <3>1. bad \in SUBSET Nat
      OBVIOUS
    <3> HIDE DEF bad
    <3> QED BY <1>1, <3>1, LeastNatural
  <2>0. PICK T \in SUBSET S : \E x \in T : Cardinality(T) = n /\ ~Splits(T, x)
    OBVIOUS
  <2>2. PICK x \in T : Cardinality(T) = n /\ ~Splits(T, x)
    BY <2>0, Zenon
  <2>3. IsFiniteSet(T) /\ T # {}
    BY FS_Subset
  <2> DEFINE c == First(T)
  <2>4. c \in T /\ n - 1 \in Nat /\ ~(n <= n - 1)
    <3>1. /\ c \in T /\ Cardinality(T) - 1 \in Nat
          /\ ~(Cardinality(T) <= Cardinality(T) - 1)
      BY <2>3, FirstOf, Zenon
    <3> QED BY <2>2, <3>1
  <2>5. SumFunctionOnSet(f, T) = f[c] + SumFunctionOnSet(f, T \ {c})
    BY <2>3, SumFirst
  <2> HIDE DEF c
  <2>6. x # c
    BY <2>2, <2>5, Zenon
  <2>7. \A y \in T : /\ T \ {y} \in SUBSET S /\ IsFiniteSet(T \ {y})
                     /\ Cardinality(T \ {y}) = n - 1
    BY <2>2, <2>3, FS_RemoveElement
  <2>8. Splits(T \ {c}, x) /\ Splits(T \ {x}, c)
    <3>1. x \in T \ {c} /\ c \in T \ {x}
      BY <2>4, <2>6
    <3>2. n - 1 \notin bad
      <4> HIDE DEF bad
      <4> QED BY <2>1, <2>4
    <3> HIDE DEF Splits
    <3> QED BY <2>4, <2>7, <3>1, <3>2, Zenon
  <2>9. (T \ {c}) \ {x} = (T \ {x}) \ {c}
    OBVIOUS
  <2> DEFINE u == (T \ {c}) \ {x}
  <2>10. SumFunctionOnSet(f, u) \in Int
    <3>1. IsFiniteSet(u) /\ \A y \in u : f[y] \in Int
      BY <2>7, <2>4, FS_RemoveElement, Zenon
    <3> HIDE DEF u
    <3> QED BY <3>1, SumType
  <2>11. f[c] \in Int /\ f[x] \in Int
    BY <2>4
  <2>12. /\ SumFunctionOnSet(f, T \ {c}) = f[x] + SumFunctionOnSet(f, u)
         /\ SumFunctionOnSet(f, T \ {x}) = f[c] + SumFunctionOnSet(f, u)
    BY <2>8, <2>9, Zenon
  <2> HIDE DEF u
  <2>13. f[c] + (f[x] + SumFunctionOnSet(f, u)) = f[x] + (f[c] + SumFunctionOnSet(f, u))
    BY <2>10, <2>11
  <2> QED BY <2>2, <2>5, <2>12, <2>13
<1>2. Cardinality(S) \in Nat
  BY FS_CardinalityType
<1> HIDE DEF Splits
<1>3. Splits(S, a)
  <2>1. S \in SUBSET S
    OBVIOUS
  <2> QED BY <1>1, <1>2, <2>1
<1> QED BY <1>3 DEF Splits

\* Adding an element.
LEMMA SumAdd ==
  ASSUME NEW S, IsFiniteSet(S), NEW a, a \notin S, NEW f,
         \A x \in S \cup {a} : f[x] \in Int
  PROVE  SumFunctionOnSet(f, S \cup {a}) = SumFunctionOnSet(f, S) + f[a]
<1>1. IsFiniteSet(S \cup {a}) /\ a \in S \cup {a} /\ (S \cup {a}) \ {a} = S
  BY FS_AddElement
<1>2. SumFunctionOnSet(f, S \cup {a}) = f[a] + SumFunctionOnSet(f, S)
  BY <1>1, SumSplit
<1>3. SumFunctionOnSet(f, S) \in Int /\ f[a] \in Int
  BY SumType
<1> QED BY <1>2, <1>3

\* Only the values on the set count.
LEMMA SumSame ==
  ASSUME NEW S, IsFiniteSet(S), NEW f, NEW g, \A x \in S : f[x] = g[x]
  PROVE  SumFunctionOnSet(f, S) = SumFunctionOnSet(g, S)
<1> DEFINE bad == {n \in Nat : \E T \in SUBSET S :
                     Cardinality(T) = n /\ SumFunctionOnSet(f, T) # SumFunctionOnSet(g, T)}
<1>1. ASSUME bad # {} PROVE FALSE
  <2>1. PICK n \in bad : \A m \in bad : n <= m
    <3>1. bad \in SUBSET Nat
      OBVIOUS
    <3> HIDE DEF bad
    <3> QED BY <1>1, <3>1, LeastNatural
  <2>2. PICK T \in SUBSET S : /\ Cardinality(T) = n
                              /\ SumFunctionOnSet(f, T) # SumFunctionOnSet(g, T)
    OBVIOUS
  <2>3. T # {} /\ IsFiniteSet(T)
    BY <2>2, SumEmpty, FS_Subset, Zenon
  <2> DEFINE u == T \ {First(T)}
  <2>4. Cardinality(u) = n - 1 /\ n - 1 \in Nat /\ ~(n <= n - 1) /\ First(T) \in T
        /\ u \in SUBSET S
    <3>1. /\ First(T) \in T /\ Cardinality(u) = Cardinality(T) - 1
          /\ Cardinality(T) - 1 \in Nat /\ ~(Cardinality(T) <= Cardinality(T) - 1)
      BY <2>3, FirstOf, Zenon
    <3>2. u \in SUBSET S
      OBVIOUS
    <3> QED BY <2>2, <3>1, <3>2
  <2>5. /\ SumFunctionOnSet(f, T) = f[First(T)] + SumFunctionOnSet(f, u)
        /\ SumFunctionOnSet(g, T) = g[First(T)] + SumFunctionOnSet(g, u)
    BY <2>3, SumFirst
  <2>6. f[First(T)] = g[First(T)]
    BY <2>4
  <2>7. SumFunctionOnSet(f, u) # SumFunctionOnSet(g, u)
    BY <2>2, <2>5, <2>6
  <2>8. n - 1 \in bad
    <3> HIDE DEF u
    <3> QED BY <2>4, <2>7
  <2> HIDE DEF bad
  <2> QED BY <2>1, <2>4, <2>8
<1>2. Cardinality(S) \in Nat /\ S \in SUBSET S
  BY FS_CardinalityType
<1> QED BY <1>1, <1>2

\* Changing the value of one element changes the sum by as much.
LEMMA SumChange ==
  ASSUME NEW S, IsFiniteSet(S), NEW a \in S, NEW f, NEW g,
         \A x \in S : f[x] \in Int /\ g[x] \in Int,
         \A x \in S \ {a} : g[x] = f[x]
  PROVE  SumFunctionOnSet(g, S) = SumFunctionOnSet(f, S) - f[a] + g[a]
<1>1. IsFiniteSet(S \ {a}) /\ \A x \in S \ {a} : x \in S
  BY FS_RemoveElement
<1>2. SumFunctionOnSet(f, S) = f[a] + SumFunctionOnSet(f, S \ {a})
  BY SumSplit
<1>3. SumFunctionOnSet(g, S) = g[a] + SumFunctionOnSet(g, S \ {a})
  BY SumSplit
<1>4. SumFunctionOnSet(f, S \ {a}) = SumFunctionOnSet(g, S \ {a})
  BY <1>1, SumSame
<1>5. SumFunctionOnSet(f, S \ {a}) \in Int /\ f[a] \in Int /\ g[a] \in Int
  BY <1>1, SumType
<1> QED BY <1>2, <1>3, <1>4, <1>5

\* No value exceeds the sum of naturals.
LEMMA SumBounds ==
  ASSUME NEW S, IsFiniteSet(S), NEW f, \A x \in S : f[x] \in Nat, NEW a \in S
  PROVE  /\ SumFunctionOnSet(f, S) \in Nat
         /\ f[a] <= SumFunctionOnSet(f, S)
<1>1. IsFiniteSet(S \ {a}) /\ \A x \in S \ {a} : f[x] \in Nat
  BY FS_RemoveElement
<1>2. SumFunctionOnSet(f, S) = f[a] + SumFunctionOnSet(f, S \ {a})
  <2>1. \A x \in S : f[x] \in Int
    OBVIOUS
  <2> QED BY <2>1, SumSplit
<1>3. SumFunctionOnSet(f, S \ {a}) \in Nat /\ f[a] \in Nat
  BY <1>1, SumType
<1> QED BY <1>2, <1>3

\* A finite set of naturals has a bound: its sum.
LEMMA FiniteBounded ==
  ASSUME NEW S \in SUBSET Nat, IsFiniteSet(S)
  PROVE  \E n \in Nat : \A y \in S : y <= n
<1> DEFINE f == [x \in S |-> x]
<1>1. \A x \in S : f[x] \in Nat /\ f[x] = x
  OBVIOUS
<1> HIDE DEF f
<1>2. SumFunctionOnSet(f, S) \in Nat
  BY <1>1, SumType
<1>3. \A y \in S : y <= SumFunctionOnSet(f, S)
  BY <1>1, SumBounds
<1> QED BY <1>2, <1>3

-----------------------------------------------------------------------------
(* Quotients of naturals. *)

\* Division rounds down.
LEMMA DivBounds ==
  ASSUME NEW a \in Nat, NEW w \in Nat \ {0}
  PROVE  /\ a \div w \in Nat
         /\ w * (a \div w) <= a
         /\ a < w * (a \div w) + w
BY SMT

\* Products of amounts are amounts.
LEMMA MulNat ==
  ASSUME NEW a \in Nat, NEW b \in Nat
  PROVE  a * b \in Nat
BY SMT

\* A quotient is the largest number whose product does not exceed the dividend.
LEMMA DivLargest ==
  ASSUME NEW a \in Nat, NEW w \in Nat \ {0}, NEW q \in Nat, w * q <= a
  PROVE  q <= a \div w
<1>1. a \div w \in Nat /\ a < w * (a \div w) + w
  BY DivBounds
<1> DEFINE d == a \div w
<1>2. SUFFICES ASSUME q >= d + 1 PROVE FALSE
  BY <1>1
<1> HIDE DEF d
<1>3. w * q >= w * (d + 1)
  BY <1>1, <1>2, SMT DEF d
<1>4. w * (d + 1) = w * d + w
  BY <1>1, SMT DEF d
<1> QED BY <1>1, <1>3, <1>4, SMT DEF d

\* Shares rounded down: two parts get no more than their sum does.
LEMMA SharesAdd ==
  ASSUME NEW a \in Nat, NEW b \in Nat, NEW c \in Nat, NEW w \in Nat \ {0}
  PROVE  /\ (a * c) \div w \in Nat /\ (b * c) \div w \in Nat
         /\ ((a + b) * c) \div w \in Nat
         /\ (a * c) \div w + (b * c) \div w <= ((a + b) * c) \div w
<1> DEFINE x == (a * c) \div w
           y == (b * c) \div w
<1>1. a * c \in Nat /\ b * c \in Nat /\ (a + b) * c \in Nat
  BY MulNat, SMT
<1>2. x \in Nat /\ w * x <= a * c /\ y \in Nat /\ w * y <= b * c
  BY <1>1, DivBounds
<1>3. (a + b) * c = a * c + b * c
  BY SMT
<1>4. ((a + b) * c) \div w \in Nat
  BY <1>1, DivBounds
<1> HIDE DEF x, y
<1>5. w * (x + y) = w * x + w * y /\ w * x \in Nat /\ w * y \in Nat
  BY <1>2, SMT
<1>6. w * (x + y) <= (a + b) * c
  BY <1>1, <1>2, <1>3, <1>5, SMT
<1>7. x + y <= ((a + b) * c) \div w
  BY <1>1, <1>2, <1>6, DivLargest
<1> QED BY <1>2, <1>4, <1>7 DEF x, y

\* A quotient grows with the dividend.
LEMMA DivGrows ==
  ASSUME NEW a \in Nat, NEW b \in Nat, a <= b, NEW w \in Nat \ {0}
  PROVE  a \div w \in Nat /\ b \div w \in Nat /\ a \div w <= b \div w
<1> DEFINE x == a \div w
<1>1. x \in Nat /\ w * x <= a /\ b \div w \in Nat
  BY DivBounds
<1> HIDE DEF x
<1>2. w * x \in Nat
  BY <1>1, MulNat
<1>3. w * x <= b
  BY <1>1, <1>2
<1>4. x <= b \div w
  BY <1>1, <1>3, DivLargest
<1> QED BY <1>1, <1>4 DEF x

\* A dividend within a multiple has its quotient within the multiplier.
LEMMA DivWithin ==
  ASSUME NEW a \in Nat, NEW r \in Nat, NEW w \in Nat \ {0}, a <= w * r
  PROVE  a \div w <= r
<1> DEFINE x == a \div w
<1>1. x \in Nat /\ w * x <= a
  BY DivBounds
<1> HIDE DEF x
<1>2. SUFFICES ASSUME x >= r + 1 PROVE FALSE
  BY <1>1 DEF x
<1>3. w * x >= w * (r + 1) /\ w * (r + 1) = w * r + w
  BY <1>1, <1>2, SMT
<1>4. w * r \in Nat /\ w * x \in Nat
  BY <1>1, MulNat
<1> QED BY <1>1, <1>3, <1>4

-----------------------------------------------------------------------------
(* Counting. *)

\* A set of indices counted in two halves.
Halves(C, A, a, B, b) ==
  /\ A \subseteq 1..a /\ B \subseteq 1..b /\ C \subseteq 1..(a + b)
  /\ \A i \in 1..(a + b) : i \in C <=> IF i <= a THEN i \in A ELSE i - a \in B

\* Counting both parts of a concatenation.
LEMMA JoinCount ==
  ASSUME NEW a \in Nat, NEW b \in Nat, NEW A, NEW B, NEW C, Halves(C, A, a, B, b)
  PROVE  /\ Cardinality(A) \in Nat /\ Cardinality(B) \in Nat
         /\ Cardinality(C) = Cardinality(A) + Cardinality(B)
<1> USE DEF Halves
<1> DEFINE D == {i \in C : i > a}
           f == [i \in B |-> i + a]
<1>1. IsFiniteSet(A) /\ IsFiniteSet(B) /\ Cardinality(A) \in Nat /\ Cardinality(B) \in Nat
  <2>1. IsFiniteSet(1..a) /\ IsFiniteSet(1..b)
    BY FS_Interval
  <2>2. IsFiniteSet(A) /\ IsFiniteSet(B)
    BY <2>1, FS_Subset
  <2> QED BY <2>2, FS_CardinalityType
<1>2. \A i \in B : i \in Nat /\ i + a \in D
  <2> SUFFICES ASSUME NEW i \in B PROVE i \in Nat /\ i + a \in D
    OBVIOUS
  <2>1. i \in 1..b
    OBVIOUS
  <2>2. i + a \in 1..(a + b) /\ ~(i + a <= a) /\ (i + a) - a = i /\ i + a > a
    BY <2>1
  <2> QED BY <2>1, <2>2
<1>3. \A j \in D : j - a \in B /\ (j - a) + a = j
  <2> SUFFICES ASSUME NEW j \in D PROVE j - a \in B /\ (j - a) + a = j
    OBVIOUS
  <2>1. j \in 1..(a + b) /\ ~(j <= a) /\ j \in C
    OBVIOUS
  <2> QED BY <2>1
<1> HIDE DEF D
<1>4. f \in Bijection(B, D)
  <2>1. f \in [B -> D]
    BY <1>2
  <2>2. \A x, y \in B : f[x] = f[y] => x = y
    BY <1>2
  <2>3. \A y \in D : \E x \in B : f[x] = y
    BY <1>3
  <2> HIDE DEF f
  <2> QED BY <2>1, <2>2, <2>3 DEF Bijection, Injection, Surjection, IsInjective
<1>5. IsFiniteSet(D) /\ Cardinality(D) = Cardinality(B)
  <2>1. ExistsBijection(B, D)
    BY <1>4, Zenon DEF ExistsBijection
  <2> QED BY <1>1, <2>1, FS_Bijection
<1>6. C = A \cup D /\ A \cap D = {}
  <2>1. \A i \in A : i \in 1..(a + b) /\ i <= a /\ i \in C /\ ~(i > a)
    <3> SUFFICES ASSUME NEW i \in A PROVE i \in 1..(a + b) /\ i <= a /\ i \in C /\ ~(i > a)
      OBVIOUS
    <3>1. i \in 1..a
      OBVIOUS
    <3>2. i \in 1..(a + b) /\ i <= a /\ ~(i > a)
      BY <3>1
    <3> QED BY <3>2
  <2>2. \A i \in C : i \in A \/ i > a
    <3> SUFFICES ASSUME NEW i \in C PROVE i \in A \/ i > a
      OBVIOUS
    <3>1. i \in 1..(a + b)
      OBVIOUS
    <3> QED BY <3>1
  <2> QED BY <2>1, <2>2, Zenon DEF D
<1>7. Cardinality(A \cup D) = Cardinality(A) + Cardinality(D) - Cardinality(A \cap D)
  BY <1>1, <1>5, FS_Union, Zenon
<1>8. Cardinality(A \cap D) = 0
  BY <1>6, FS_EmptySet
<1> QED BY <1>1, <1>5, <1>6, <1>7, <1>8
=============================================================================
