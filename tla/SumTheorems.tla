----------------------------- MODULE SumTheorems -----------------------------
(***************************************************************************)
(* What the proofs need to know about Sum.                                 *)
(***************************************************************************)
EXTENDS Sums, FiniteSetTheorems, TLAPS

\* The sum over a finite set is a natural number.
LEMMA SumNat ==
    ASSUME NEW f, NEW S, IsFiniteSet(S), NEW bound \in Nat
    PROVE  IsFiniteSet(Below(f, S, bound)) /\ Sum(f, S, bound) \in Nat
<1>1. IsFiniteSet(1 .. bound)  BY FS_Interval
<1>2. IsFiniteSet(S \X (1 .. bound))  BY <1>1, FS_Product
<1>3. Below(f, S, bound) \in SUBSET (S \X (1 .. bound))  BY DEF Below
<1>4. IsFiniteSet(Below(f, S, bound))  BY <1>2, <1>3, FS_Subset
<1>5. QED  BY <1>4, FS_CardinalityType DEF Sum

\* Functions that agree on a set have the same sum over it.
LEMMA SumEqual ==
    ASSUME NEW f, NEW g, NEW S, NEW bound, \A s \in S : f[s] = g[s]
    PROVE  Sum(f, S, bound) = Sum(g, S, bound)
<1>1. \A u \in S \X (1 .. bound) : f[u[1]] = g[u[1]]  OBVIOUS
<1>2. Below(f, S, bound) = Below(g, S, bound)  BY <1>1 DEF Below
<1>3. QED  BY <1>2 DEF Sum

\* The sum over two sets without a common member is the sum of their sums.
LEMMA SumSplit ==
    ASSUME NEW f, NEW S, NEW T, IsFiniteSet(S), IsFiniteSet(T),
           S \cap T = {}, NEW bound \in Nat
    PROVE  Sum(f, S \cup T, bound) = Sum(f, S, bound) + Sum(f, T, bound)
<1> DEFINE B == Below(f, S, bound)
           C == Below(f, T, bound)
<1>1. IsFiniteSet(B) /\ IsFiniteSet(C)  BY SumNat
<1>2. Below(f, S \cup T, bound) = B \cup C
  <2>1. \A u : u \in (S \cup T) \X (1 .. bound)
                 <=> u \in S \X (1 .. bound) \/ u \in T \X (1 .. bound)
    OBVIOUS
  <2>2. QED  BY <2>1 DEF Below
<1>3. B \cap C = {}
  <2>1. \A u : u \in B => u[1] \in S  BY DEF Below
  <2>2. \A u : u \in C => u[1] \in T  BY DEF Below
  <2>3. QED  BY <2>1, <2>2
<1>4. Cardinality(B \cup C) = Cardinality(B) + Cardinality(C)
                                - Cardinality(B \cap C)
  BY <1>1, FS_Union
<1>5. Cardinality(B \cap C) = 0  BY <1>3, FS_EmptySet
<1>6. Cardinality(B) \in Nat /\ Cardinality(C) \in Nat
  BY <1>1, FS_CardinalityType
<1>7. /\ Sum(f, S, bound) = Cardinality(B)
      /\ Sum(f, T, bound) = Cardinality(C)
      /\ Sum(f, S \cup T, bound) = Cardinality(B \cup C)
  BY <1>2 DEF Sum
<1> HIDE DEF B, C
<1>8. QED  BY <1>4, <1>5, <1>6, <1>7

\* A sum of zeros is zero.
LEMMA SumZero ==
    ASSUME NEW f, NEW S, NEW bound \in Nat, \A s \in S : f[s] = 0
    PROVE  Sum(f, S, bound) = 0
<1>1. \A u \in S \X (1 .. bound) : f[u[1]] = 0 /\ ~(u[2] <= 0)  OBVIOUS
<1>2. Below(f, S, bound) = {}  BY <1>1 DEF Below
<1>3. QED  BY <1>2, FS_EmptySet DEF Sum

\* The sum over one element is its value.
LEMMA SumSingleton ==
    ASSUME NEW f, NEW x, NEW bound \in Nat, f[x] \in 0 .. bound
    PROVE  Sum(f, {x}, bound) = f[x]
<1> DEFINE B == Below(f, {x}, bound)
           h == [k \in 1 .. f[x] |-> <<x, k>>]
<1>1. B = {u \in {x} \X (1 .. bound) : u[2] <= f[x]}  BY DEF Below
<1>2. h \in Bijection(1 .. f[x], B)
  <2>1. \A k \in 1 .. f[x] : <<x, k>> \in B  BY <1>1
  <2>2. h \in [1 .. f[x] -> B]  BY <2>1
  <2>3. \A j, k \in 1 .. f[x] : h[j] = h[k] => j = k  OBVIOUS
  <2>4. \A u \in B : \E k \in 1 .. f[x] : h[k] = u
    <3> SUFFICES ASSUME NEW u \in B PROVE \E k \in 1 .. f[x] : h[k] = u
      OBVIOUS
    <3>1. u \in {x} \X (1 .. bound) /\ u[2] <= f[x]  BY <1>1
    <3>2. u = <<x, u[2]>> /\ u[2] \in 1 .. f[x]  BY <3>1
    <3>3. h[u[2]] = u  BY <3>2
    <3>4. QED  BY <3>2, <3>3
  <2>5. QED
    BY <2>2, <2>3, <2>4 DEF Bijection, Injection, Surjection, IsInjective
<1>3. ExistsBijection(1 .. f[x], B)  BY <1>2 DEF ExistsBijection
<1>4. QED  BY <1>3, FS_CountingElements DEF Sum

\* An element counts once in the sum over a set it is in.
LEMMA SumElement ==
    ASSUME NEW f, NEW S, IsFiniteSet(S), NEW x \in S, NEW bound \in Nat,
           f[x] \in 0 .. bound
    PROVE  Sum(f, S, bound) = Sum(f, S \ {x}, bound) + f[x]
<1>1. IsFiniteSet(S \ {x}) /\ IsFiniteSet({x})
  BY FS_Difference, FS_Singleton
<1>2. S = (S \ {x}) \cup {x} /\ (S \ {x}) \cap {x} = {}  OBVIOUS
<1>3. Sum(f, S, bound) = Sum(f, S \ {x}, bound) + Sum(f, {x}, bound)
  BY <1>1, <1>2, SumSplit
<1>4. QED  BY <1>3, SumSingleton

\* Changing the value of one element changes the sum by as much.
LEMMA SumUpdate ==
    ASSUME NEW f, NEW g, NEW S, IsFiniteSet(S), NEW x \in S,
           NEW bound \in Nat, f[x] \in 0 .. bound, g[x] \in 0 .. bound,
           \A s \in S \ {x} : f[s] = g[s]
    PROVE  Sum(g, S, bound) = Sum(f, S, bound) - f[x] + g[x]
<1>1. Sum(f, S, bound) = Sum(f, S \ {x}, bound) + f[x]  BY SumElement
<1>2. Sum(g, S, bound) = Sum(g, S \ {x}, bound) + g[x]  BY SumElement
<1>3. Sum(f, S \ {x}, bound) = Sum(g, S \ {x}, bound)  BY SumEqual
<1>4. Sum(f, S \ {x}, bound) \in Nat  BY SumNat, FS_Difference
<1>5. QED  BY <1>1, <1>2, <1>3, <1>4

\* Setting a part of a set to zero takes its sum away.
LEMMA SumCleared ==
    ASSUME NEW f, NEW g, NEW S, IsFiniteSet(S), NEW T \in SUBSET S,
           NEW bound \in Nat,
           \A s \in T : g[s] = 0, \A s \in S \ T : g[s] = f[s]
    PROVE  Sum(g, S, bound) = Sum(f, S, bound) - Sum(f, T, bound)
<1>1. IsFiniteSet(T) /\ IsFiniteSet(S \ T)  BY FS_Subset, FS_Difference
<1>2. S = (S \ T) \cup T /\ (S \ T) \cap T = {}  OBVIOUS
<1>3. Sum(f, S, bound) = Sum(f, S \ T, bound) + Sum(f, T, bound)
  BY <1>1, <1>2, SumSplit
<1>4. Sum(g, S, bound) = Sum(g, S \ T, bound) + Sum(g, T, bound)
  BY <1>1, <1>2, SumSplit
<1>5. Sum(g, T, bound) = 0  BY SumZero
<1>6. Sum(g, S \ T, bound) = Sum(f, S \ T, bound)  BY SumEqual
<1>7. Sum(f, S \ T, bound) \in Nat /\ Sum(f, T, bound) \in Nat
  BY <1>1, SumNat
<1>8. QED  BY <1>3, <1>4, <1>5, <1>6, <1>7

\* No element, and no two elements, exceed the sum.
LEMMA SumBoundsTwo ==
    ASSUME NEW f, NEW S, IsFiniteSet(S), NEW x \in S, NEW y \in S, x # y,
           NEW bound \in Nat, f[x] \in 0 .. bound, f[y] \in 0 .. bound
    PROVE  f[x] + f[y] <= Sum(f, S, bound)
<1>1. Sum(f, S, bound) = Sum(f, S \ {x}, bound) + f[x]  BY SumElement
<1>2. IsFiniteSet(S \ {x}) /\ y \in S \ {x}  BY FS_Difference
<1>3. Sum(f, S \ {x}, bound) = Sum(f, (S \ {x}) \ {y}, bound) + f[y]
  BY <1>2, SumElement
<1>4. Sum(f, (S \ {x}) \ {y}, bound) \in Nat
  BY <1>2, SumNat, FS_Difference
<1>5. QED  BY <1>1, <1>3, <1>4
=============================================================================
