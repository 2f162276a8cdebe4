----------------------------- MODULE FiniteSums -----------------------------
(***************************************************************************)
(* The laws of SumFunctionOnSet, the sum of a function over a finite set,   *)
(* which the balances of the contracts are stated with: nothing for the     *)
(* empty set, one term more or less for one element more or less, in        *)
(* whichever order the fold takes the elements.                             *)
(*                                                                         *)
(* The fold is a recursive function, so its laws need induction.  Here an   *)
(* induction is about a SET of good numbers or subsets, not about a         *)
(* predicate, and rests on the least element that would not be good.        *)
(***************************************************************************)
EXTENDS Integers, Functions, FiniteSetTheorems, TLAPS

\* Every set of natural numbers that has an element has a least one.
LEMMA LeastNatural ==
    ASSUME NEW T \in SUBSET Nat, T # {}
    PROVE  \E n \in T : \A m \in T : n <= m
<1>1. PICK n \in T : \A m \in T : <<m, n>> \notin OpToRel(<, Nat)
  BY NatLessThanWellFounded, WFMin
<1>2. ASSUME NEW m \in T, m < n
      PROVE  FALSE
  <2>1. <<m, n>> \in Nat \X Nat /\ <<m, n>>[1] < <<m, n>>[2]
    BY <1>2
  <2>2. <<m, n>> \in OpToRel(<, Nat)
    BY <2>1, Zenon DEF OpToRel
  <2>3. QED BY <1>1, <2>2
<1>3. \A m \in T : ~(m < n) => n <= m
  OBVIOUS
<1>4. QED BY <1>2, <1>3

\* Induction over the natural numbers, for a set of good ones.
LEMMA NaturalsAreGood ==
    ASSUME NEW Good, 0 \in Good, \A n \in Nat : n \in Good => n + 1 \in Good
    PROVE  \A n \in Nat : n \in Good
<1>1. SUFFICES ASSUME Nat \ Good # {} PROVE FALSE
  OBVIOUS
<1>2. PICK n \in Nat \ Good : \A m \in Nat \ Good : n <= m
  BY <1>1, LeastNatural
<1>3. n # 0
  OBVIOUS
<1>4. n - 1 \in Nat /\ n - 1 \in Good
  BY <1>2, <1>3
<1>5. (n - 1) + 1 \in Good
  BY <1>4
<1>6. (n - 1) + 1 = n
  OBVIOUS
<1>7. QED BY <1>5, <1>6

\* Induction over the subsets of a finite set: a subset is good when all those
\* with one element less are.
LEMMA SubsetsAreGood ==
    ASSUME NEW S, IsFiniteSet(S), NEW Good,
           \A T \in SUBSET S : (\A x \in T : T \ {x} \in Good) => T \in Good
    PROVE  \A T \in SUBSET S : T \in Good
<1> DEFINE Level == {n \in Nat : \A T \in SUBSET S : Cardinality(T) = n => T \in Good}
<1>1. 0 \in Level
  <2>1. \A T \in SUBSET S : Cardinality(T) = 0 => T = {}
    BY FS_Subset, FS_EmptySet
  <2>2. QED BY <2>1
<1>2. \A n \in Nat : n \in Level => n + 1 \in Level
  <2>1. SUFFICES ASSUME NEW n \in Nat, n \in Level, NEW T \in SUBSET S, Cardinality(T) = n + 1
                 PROVE  T \in Good
    OBVIOUS
  <2>2. IsFiniteSet(T)
    BY FS_Subset
  <2>3. \A x \in T : Cardinality(T \ {x}) = n
    BY <2>1, <2>2, FS_RemoveElement
  <2>4. QED BY <2>1, <2>3
<1> HIDE DEF Level
<1>3. \A n \in Nat : n \in Level
  BY <1>1, <1>2, NaturalsAreGood
<1>4. \A T \in SUBSET S : Cardinality(T) \in Nat
  BY FS_Subset, FS_CardinalityType
<1>5. QED BY <1>3, <1>4 DEF Level

\* The numbers up to n are finitely many.
LEMMA PrefixIsFinite == ASSUME NEW n \in Nat PROVE IsFiniteSet(1 .. n)
<1>1. 1 \in Int /\ n \in Int
  OBVIOUS
<1>2. QED BY <1>1, FS_Interval

\* A set with one element put into it.
LEMMA OneMoreAtMost ==
    ASSUME NEW S, IsFiniteSet(S), NEW x
    PROVE  Cardinality(S \cup {x}) \in Nat /\ Cardinality(S \cup {x}) <= Cardinality(S) + 1
<1>1. Cardinality(S) \in Nat
  BY FS_CardinalityType
<1>2. Cardinality(S \cup {x}) = Cardinality(S) \/ Cardinality(S \cup {x}) = Cardinality(S) + 1
  BY FS_AddElement
<1>3. QED BY <1>1, <1>2
-----------------------------------------------------------------------------
(* The function that the fold is defined with.                              *)
Picked(s) == CHOOSE x \in s : TRUE

\* g computes the sum of f over every set of D.
Computes(g, f, D) ==
    g = [s \in D |-> IF s = {} THEN 0 ELSE f[Picked(s)] + g[s \ {Picked(s)}]]

LEMMA SumUnfolds ==
    ASSUME NEW f, NEW S
    PROVE  SumFunctionOnSet(f, S) = (CHOOSE g : Computes(g, f, SUBSET S))[S]
BY DEF SumFunctionOnSet, FoldFunctionOnSet, MapThenFoldSet, Computes, Picked

LEMMA PickedIsMember == ASSUME NEW s, s # {} PROVE Picked(s) \in s
BY DEF Picked

\* There is such a function over all subsets of a finite set: it is built up
\* by the size of the sets.
LEMMA SumIsComputed ==
    ASSUME NEW f, NEW S, IsFiniteSet(S)
    PROVE  \E g : Computes(g, f, SUBSET S)
<1> DEFINE UpTo(n) == {s \in SUBSET S : Cardinality(s) <= n}
           Level == {n \in Nat : \E g : Computes(g, f, UpTo(n))}
<1>0. \A s \in SUBSET S : IsFiniteSet(s) /\ Cardinality(s) \in Nat
  BY FS_Subset, FS_CardinalityType
<1>1. \A s \in SUBSET S : s # {} => /\ s \ {Picked(s)} \in SUBSET S
                                    /\ Cardinality(s \ {Picked(s)}) = Cardinality(s) - 1
  BY <1>0, PickedIsMember, FS_RemoveElement
<1>2. 0 \in Level
  <2>1. \A s \in UpTo(0) : s = {}
    BY <1>0, FS_EmptySet
  <2> DEFINE g == [s \in UpTo(0) |-> 0]
  <2> HIDE DEF UpTo
  <2>2. Computes(g, f, UpTo(0))
    BY <2>1 DEF Computes
  <2> HIDE DEF g
  <2>3. QED BY <2>2
<1>3. \A n \in Nat : n \in Level => n + 1 \in Level
  <2> SUFFICES ASSUME NEW n \in Nat, n \in Level PROVE n + 1 \in Level
    OBVIOUS
  <2>1. PICK g : Computes(g, f, UpTo(n))
    OBVIOUS
  <2> DEFINE h == [s \in UpTo(n + 1) |->
                      IF s = {} THEN 0 ELSE f[Picked(s)] + g[s \ {Picked(s)}]]
  <2>2. UpTo(n) \subseteq UpTo(n + 1)
    BY <1>0
  <2>3. \A s \in UpTo(n + 1) : s # {} => s \ {Picked(s)} \in UpTo(n)
    BY <1>0, <1>1
  <2> HIDE DEF UpTo
  <2>4. \A s \in UpTo(n) : h[s] = g[s]
    BY <2>1, <2>2 DEF Computes
  <2>5. Computes(h, f, UpTo(n + 1))
    BY <2>3, <2>4 DEF Computes
  <2> HIDE DEF h
  <2>6. QED BY <2>5
<1>4. Cardinality(S) \in Level
  <2> HIDE DEF Level
  <2>1. QED BY <1>0, <1>2, <1>3, NaturalsAreGood
<1>5. UpTo(Cardinality(S)) = SUBSET S
  BY <1>0, FS_Subset
<1>6. QED BY <1>4, <1>5

\* Functions that compute the sum over the subsets of two sets agree where they meet.
LEMMA ComputedAgree ==
    ASSUME NEW f, NEW S, IsFiniteSet(S), NEW T \in SUBSET S, NEW g, NEW h,
           Computes(g, f, SUBSET S), Computes(h, f, SUBSET T)
    PROVE  \A s \in SUBSET T : g[s] = h[s]
<1> DEFINE Good == {s \in SUBSET T : g[s] = h[s]}
<1>1. \A s \in SUBSET T : (\A x \in s : s \ {x} \in Good) => s \in Good
  <2>1. SUFFICES ASSUME NEW s \in SUBSET T, \A x \in s : s \ {x} \in Good
                 PROVE  g[s] = h[s]
    OBVIOUS
  <2>2. CASE s = {}
    BY <2>2 DEF Computes
  <2>3. CASE s # {}
    <3>1. Picked(s) \in s /\ g[s \ {Picked(s)}] = h[s \ {Picked(s)}]
      BY <2>1, <2>3, PickedIsMember
    <3>2. g[s] = f[Picked(s)] + g[s \ {Picked(s)}]
      BY <2>3 DEF Computes
    <3>3. h[s] = f[Picked(s)] + h[s \ {Picked(s)}]
      BY <2>3 DEF Computes
    <3>4. QED BY <3>1, <3>2, <3>3
  <2>4. QED BY <2>2, <2>3
<1>2. IsFiniteSet(T)
  BY FS_Subset
<1> HIDE DEF Good
<1>3. \A s \in SUBSET T : s \in Good
  BY <1>1, <1>2, SubsetsAreGood
<1>4. QED BY <1>3 DEF Good

\* One function computes the sums over all subsets of S.
LEMMA SumsAreComputed ==
    ASSUME NEW f, NEW S, IsFiniteSet(S)
    PROVE  \E g : Computes(g, f, SUBSET S) /\ \A T \in SUBSET S : SumFunctionOnSet(f, T) = g[T]
<1>1. PICK g : Computes(g, f, SUBSET S)
  BY SumIsComputed
<1>2. ASSUME NEW T \in SUBSET S
      PROVE  SumFunctionOnSet(f, T) = g[T]
  <2> DEFINE h == CHOOSE k : Computes(k, f, SUBSET T)
  <2>1. IsFiniteSet(T)
    BY FS_Subset
  <2>2. Computes(h, f, SUBSET T)
    BY <2>1, SumIsComputed
  <2>3. SumFunctionOnSet(f, T) = h[T]
    BY SumUnfolds
  <2> HIDE DEF h
  <2>4. QED BY <1>1, <2>2, <2>3, ComputedAgree
<1>3. QED BY <1>1, <1>2

LEMMA SumPicks ==
    ASSUME NEW f, NEW S, IsFiniteSet(S), S # {}
    PROVE  SumFunctionOnSet(f, S) = f[Picked(S)] + SumFunctionOnSet(f, S \ {Picked(S)})
<1>1. PICK g : /\ Computes(g, f, SUBSET S)
               /\ \A T \in SUBSET S : SumFunctionOnSet(f, T) = g[T]
  BY SumsAreComputed
<1>2. g[S] = f[Picked(S)] + g[S \ {Picked(S)}]
  BY <1>1 DEF Computes
<1>3. QED BY <1>1, <1>2
-----------------------------------------------------------------------------
(* The laws.                                                                *)

\* The sum over no elements is nothing.
LEMMA SumOfNone == ASSUME NEW f PROVE SumFunctionOnSet(f, {}) = 0
<1>1. PICK g : /\ Computes(g, f, SUBSET {})
               /\ \A T \in SUBSET {} : SumFunctionOnSet(f, T) = g[T]
  BY FS_EmptySet, SumsAreComputed
<1>2. QED BY <1>1 DEF Computes

\* A sum of integers is an integer, a sum of natural numbers a natural number.
LEMMA SumIsInteger ==
    ASSUME NEW f, NEW S, IsFiniteSet(S), \A x \in S : f[x] \in Int
    PROVE  SumFunctionOnSet(f, S) \in Int
<1> DEFINE Good == {T \in SUBSET S : SumFunctionOnSet(f, T) \in Int}
<1>1. \A T \in SUBSET S : (\A x \in T : T \ {x} \in Good) => T \in Good
  <2>1. SUFFICES ASSUME NEW T \in SUBSET S, \A x \in T : T \ {x} \in Good
                 PROVE  SumFunctionOnSet(f, T) \in Int
    OBVIOUS
  <2>2. CASE T = {}
    BY <2>2, SumOfNone
  <2>3. CASE T # {}
    <3>1. Picked(T) \in T /\ IsFiniteSet(T)
      BY <2>3, PickedIsMember, FS_Subset
    <3>2. SumFunctionOnSet(f, T) = f[Picked(T)] + SumFunctionOnSet(f, T \ {Picked(T)})
      BY <2>3, <3>1, SumPicks
    <3>3. QED BY <2>1, <3>1, <3>2
  <2>4. QED BY <2>2, <2>3
<1> HIDE DEF Good
<1>2. \A T \in SUBSET S : T \in Good
  BY <1>1, SubsetsAreGood
<1>3. QED BY <1>2 DEF Good

LEMMA SumIsNatural ==
    ASSUME NEW f, NEW S, IsFiniteSet(S), \A x \in S : f[x] \in Nat
    PROVE  SumFunctionOnSet(f, S) \in Nat
<1> DEFINE Good == {T \in SUBSET S : SumFunctionOnSet(f, T) \in Nat}
<1>1. \A T \in SUBSET S : (\A x \in T : T \ {x} \in Good) => T \in Good
  <2>1. SUFFICES ASSUME NEW T \in SUBSET S, \A x \in T : T \ {x} \in Good
                 PROVE  SumFunctionOnSet(f, T) \in Nat
    OBVIOUS
  <2>2. CASE T = {}
    BY <2>2, SumOfNone
  <2>3. CASE T # {}
    <3>1. Picked(T) \in T /\ IsFiniteSet(T)
      BY <2>3, PickedIsMember, FS_Subset
    <3>2. SumFunctionOnSet(f, T) = f[Picked(T)] + SumFunctionOnSet(f, T \ {Picked(T)})
      BY <2>3, <3>1, SumPicks
    <3>3. QED BY <2>1, <3>1, <3>2
  <2>4. QED BY <2>2, <2>3
<1> HIDE DEF Good
<1>2. \A T \in SUBSET S : T \in Good
  BY <1>1, SubsetsAreGood
<1>3. QED BY <1>2 DEF Good

\* Whichever element is taken first: the sum is its term and the sum of the rest.
LEMMA SumTakes ==
    ASSUME NEW f, NEW S, IsFiniteSet(S), \A x \in S : f[x] \in Int, NEW x \in S
    PROVE  SumFunctionOnSet(f, S) = f[x] + SumFunctionOnSet(f, S \ {x})
<1> DEFINE Good == {T \in SUBSET S : \A y \in T :
                       SumFunctionOnSet(f, T) = f[y] + SumFunctionOnSet(f, T \ {y})}
<1>1. \A T \in SUBSET S : (\A y \in T : T \ {y} \in Good) => T \in Good
  <2>1. SUFFICES ASSUME NEW T \in SUBSET S, \A y \in T : T \ {y} \in Good, NEW y \in T
                 PROVE  SumFunctionOnSet(f, T) = f[y] + SumFunctionOnSet(f, T \ {y})
    OBVIOUS
  <2>2. PICK p : p = Picked(T)
    OBVIOUS
  <2>3. p \in T /\ \A U \in SUBSET T : IsFiniteSet(U)
    BY <2>2, PickedIsMember, FS_Subset
  <2>4. SumFunctionOnSet(f, T) = f[p] + SumFunctionOnSet(f, T \ {p})
    BY <2>2, <2>3, SumPicks
  <2>5. CASE p = y
    BY <2>4, <2>5
  <2>6. CASE p # y
    <3>0. PICK rest : rest = (T \ {p}) \ {y}
      OBVIOUS
    <3>1. SumFunctionOnSet(f, T \ {p}) = f[y] + SumFunctionOnSet(f, rest)
      BY <2>1, <2>3, <2>6, <3>0
    <3>2. (T \ {y}) \ {p} = rest
      BY <3>0
    <3>3. SumFunctionOnSet(f, T \ {y}) = f[p] + SumFunctionOnSet(f, rest)
      BY <2>1, <2>3, <2>6, <3>2
    <3>4. SumFunctionOnSet(f, rest) \in Int
      BY <2>3, <3>0, SumIsInteger
    <3>5. f[y] \in Int /\ f[p] \in Int
      BY <2>3
    <3>6. QED BY <2>4, <3>1, <3>3, <3>4, <3>5
  <2>7. QED BY <2>5, <2>6
<1> HIDE DEF Good
<1>2. \A T \in SUBSET S : T \in Good
  BY <1>1, SubsetsAreGood
<1>3. QED BY <1>2 DEF Good

\* An element more adds its term.
LEMMA SumWithOneMore ==
    ASSUME NEW f, NEW S, IsFiniteSet(S), NEW x, x \notin S, \A y \in S \cup {x} : f[y] \in Int
    PROVE  SumFunctionOnSet(f, S \cup {x}) = SumFunctionOnSet(f, S) + f[x]
<1>1. IsFiniteSet(S \cup {x}) /\ (S \cup {x}) \ {x} = S
  BY FS_AddElement
<1>2. SumFunctionOnSet(f, S \cup {x}) = f[x] + SumFunctionOnSet(f, S)
  BY <1>1, SumTakes
<1>3. QED BY <1>2, SumIsInteger

\* Only the values on the set matter.
LEMMA SumOfSame ==
    ASSUME NEW f, NEW g, NEW S, IsFiniteSet(S), \A x \in S : f[x] = g[x]
    PROVE  SumFunctionOnSet(f, S) = SumFunctionOnSet(g, S)
<1> DEFINE Good == {T \in SUBSET S : SumFunctionOnSet(f, T) = SumFunctionOnSet(g, T)}
<1>1. \A T \in SUBSET S : (\A x \in T : T \ {x} \in Good) => T \in Good
  <2>1. SUFFICES ASSUME NEW T \in SUBSET S, \A x \in T : T \ {x} \in Good
                 PROVE  SumFunctionOnSet(f, T) = SumFunctionOnSet(g, T)
    OBVIOUS
  <2>2. CASE T = {}
    BY <2>2, SumOfNone
  <2>3. CASE T # {}
    <3>1. Picked(T) \in T /\ IsFiniteSet(T)
      BY <2>3, PickedIsMember, FS_Subset
    <3>2. /\ SumFunctionOnSet(f, T) = f[Picked(T)] + SumFunctionOnSet(f, T \ {Picked(T)})
          /\ SumFunctionOnSet(g, T) = g[Picked(T)] + SumFunctionOnSet(g, T \ {Picked(T)})
      BY <2>3, <3>1, SumPicks
    <3>3. QED BY <2>1, <3>1, <3>2
  <2>4. QED BY <2>2, <2>3
<1> HIDE DEF Good
<1>2. \A T \in SUBSET S : T \in Good
  BY <1>1, SubsetsAreGood
<1>3. QED BY <1>2 DEF Good

\* One term changes, and the sum by as much.
LEMMA SumWithOneChanged ==
    ASSUME NEW f, NEW g, NEW S, IsFiniteSet(S), NEW x \in S,
           \A y \in S : f[y] \in Int /\ g[y] \in Int,
           \A y \in S \ {x} : g[y] = f[y]
    PROVE  SumFunctionOnSet(g, S) = SumFunctionOnSet(f, S) - f[x] + g[x]
<1>1. IsFiniteSet(S \ {x})
  BY FS_RemoveElement
<1>2. /\ SumFunctionOnSet(f, S) = f[x] + SumFunctionOnSet(f, S \ {x})
      /\ SumFunctionOnSet(g, S) = g[x] + SumFunctionOnSet(g, S \ {x})
  BY SumTakes
<1>3. SumFunctionOnSet(g, S \ {x}) = SumFunctionOnSet(f, S \ {x})
  BY <1>1, SumOfSame
<1>4. SumFunctionOnSet(f, S \ {x}) \in Int
  BY <1>1, SumIsInteger
<1>5. QED BY <1>2, <1>3, <1>4

\* The same two facts for the sum of a whole function.
LEMMA SumFunctionWithOneMore ==
    ASSUME NEW f, NEW g, NEW x, IsFiniteSet(DOMAIN f), x \notin DOMAIN f,
           DOMAIN g = DOMAIN f \cup {x}, \A y \in DOMAIN g : g[y] \in Int,
           \A y \in DOMAIN f : f[y] = g[y]
    PROVE  SumFunction(f) \in Int /\ SumFunction(g) = SumFunction(f) + g[x]
<1>1. SumFunctionOnSet(f, DOMAIN f) = SumFunctionOnSet(g, DOMAIN f)
  BY SumOfSame
<1>2. SumFunctionOnSet(g, DOMAIN f) \in Int
  BY SumIsInteger
<1>3. SumFunctionOnSet(g, DOMAIN f \cup {x}) = SumFunctionOnSet(g, DOMAIN f) + g[x]
  BY SumWithOneMore
<1>4. QED BY <1>1, <1>2, <1>3 DEF SumFunction

LEMMA SumFunctionWithOneChanged ==
    ASSUME NEW f, NEW g, IsFiniteSet(DOMAIN f), NEW x \in DOMAIN f, DOMAIN g = DOMAIN f,
           \A y \in DOMAIN f : f[y] \in Int /\ g[y] \in Int,
           \A y \in DOMAIN f \ {x} : g[y] = f[y]
    PROVE  SumFunction(f) \in Int /\ SumFunction(g) = SumFunction(f) - f[x] + g[x]
<1>1. SumFunctionOnSet(g, DOMAIN f) = SumFunctionOnSet(f, DOMAIN f) - f[x] + g[x]
  BY SumWithOneChanged
<1>2. SumFunctionOnSet(f, DOMAIN f) \in Int
  BY SumIsInteger
<1>3. QED BY <1>1, <1>2 DEF SumFunction

LEMMA SumFunctionOfNone == ASSUME NEW f, DOMAIN f = {} PROVE SumFunction(f) = 0
BY SumOfNone DEF SumFunction
=============================================================================
