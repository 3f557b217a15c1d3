----------------------------- MODULE TotalsProofs -----------------------------
(***************************************************************************)
(* What a total is made of: nothing, or one number and the rest.           *)
(***************************************************************************)
EXTENDS Totals, FiniteSetTheorems, TLAPS

(* The units of one element.                                               *)
LEMMA OneTotal ==
  ASSUME NEW x, NEW n \in Nat
  PROVE  IsFiniteSet({x} \X (1..n)) /\ Cardinality({x} \X (1..n)) = n
<1>1. IsFiniteSet({x}) /\ Cardinality({x}) = 1
  BY FS_Singleton
<1>2. IsFiniteSet(1..n) /\ Cardinality(1..n) = n
  BY FS_Interval
<1>3. IsFiniteSet({x} \X (1..n)) /\ Cardinality({x} \X (1..n)) = Cardinality({x}) * Cardinality(1..n)
  BY <1>1, <1>2, FS_Product
<1> QED
  BY <1>1, <1>2, <1>3

LEMMA UnitsFinite ==
  ASSUME NEW S, IsFiniteSet(S), NEW f, \A x \in S : f[x] \in Nat
  PROVE  IsFiniteSet(Units(f, S))
<1> DEFINE Of == [x \in S |-> {x} \X (1..f[x])]
           All == { {x} \X (1..f[x]) : x \in S }
<1>1. Of \in Surjection(S, All)
  BY DEF Surjection
<1>2. IsFiniteSet(All)
  BY <1>1, FS_Surjection
<1>3. ASSUME NEW U \in All PROVE IsFiniteSet(U)
  <2>1. PICK x \in S : U = {x} \X (1..f[x])
    OBVIOUS
  <2>2. IsFiniteSet({x} \X (1..f[x]))
    BY OneTotal
  <2> QED
    BY <2>1, <2>2, Zenon
<1> QED
  BY <1>2, <1>3, FS_UNION DEF Units

(* A total is a natural number.                                            *)
LEMMA TotalType ==
  ASSUME NEW S, IsFiniteSet(S), NEW f, \A x \in S : f[x] \in Nat
  PROVE  Total(f, S) \in Nat
BY UnitsFinite, FS_CardinalityType DEF Total

LEMMA TotalEmpty == ASSUME NEW f PROVE Total(f, {}) = 0
<1>1. Units(f, {}) = {}
  BY DEF Units
<1> QED
  BY <1>1, FS_EmptySet DEF Total

LEMMA TotalZero == ASSUME NEW S, NEW f, \A x \in S : f[x] = 0 PROVE Total(f, S) = 0
<1>1. \A x \in S : 1..f[x] = {}
  OBVIOUS
<1>2. Units(f, S) = {}
  BY <1>1 DEF Units
<1> QED
  BY <1>2, FS_EmptySet DEF Total

(* Only the numbers of the elements count.                                 *)
LEMMA TotalSame ==
  ASSUME NEW S, NEW f, NEW g, \A x \in S : f[x] = g[x]
  PROVE  Total(f, S) = Total(g, S)
<1>1. Units(f, S) = Units(g, S)
  BY DEF Units
<1> QED
  BY <1>1 DEF Total

(* One element more.                                                       *)
LEMMA TotalAdd ==
  ASSUME NEW S, IsFiniteSet(S), NEW x, x \notin S, NEW f, \A y \in S \cup {x} : f[y] \in Nat
  PROVE  Total(f, S \cup {x}) = Total(f, S) + f[x]
<1> DEFINE Mine == {x} \X (1..f[x])
<1>1. IsFiniteSet(Mine) /\ Cardinality(Mine) = f[x]
  BY OneTotal
<1>2. IsFiniteSet(Units(f, S)) /\ Cardinality(Units(f, S)) \in Nat
  BY UnitsFinite, FS_CardinalityType
<1>3. Units(f, S \cup {x}) = Units(f, S) \cup Mine
  BY DEF Units
<1>4. Units(f, S) \cap Mine = {}
  BY DEF Units
<1>5. Cardinality(Units(f, S) \cup Mine) = Cardinality(Units(f, S)) + f[x] - Cardinality({})
  BY <1>1, <1>2, <1>4, FS_Union
<1>6. Cardinality({}) = 0
  BY FS_EmptySet
<1>7. Total(f, S) = Cardinality(Units(f, S)) /\ Total(f, S \cup {x}) = Cardinality(Units(f, S) \cup Mine)
  BY <1>3, Zenon DEF Total
<1>8. f[x] \in Nat
  OBVIOUS
<1> HIDE DEF Mine
<1> QED
  BY <1>2, <1>5, <1>6, <1>7, <1>8

(* One element less.                                                       *)
LEMMA TotalRemove ==
  ASSUME NEW S, IsFiniteSet(S), NEW x \in S, NEW f, \A y \in S : f[y] \in Nat
  PROVE  Total(f, S) = Total(f, S \ {x}) + f[x]
<1> DEFINE R == S \ {x}
<1>1. IsFiniteSet(R) /\ x \notin R /\ R \cup {x} = S
  BY FS_RemoveElement
<1> HIDE DEF R
<1>2. Total(f, R \cup {x}) = Total(f, R) + f[x]
  BY <1>1, TotalAdd
<1> QED
  BY <1>1, <1>2 DEF R

(* One number changes.                                                     *)
LEMMA TotalChange ==
  ASSUME NEW S, IsFiniteSet(S), NEW x \in S, NEW f, NEW g,
         \A y \in S : f[y] \in Nat /\ g[y] \in Nat,
         \A y \in S \ {x} : g[y] = f[y]
  PROVE  Total(g, S) + f[x] = Total(f, S) + g[x]
<1>1. Total(f, S) = Total(f, S \ {x}) + f[x] /\ Total(g, S) = Total(g, S \ {x}) + g[x]
  BY TotalRemove
<1>2. Total(g, S \ {x}) = Total(f, S \ {x})
  BY TotalSame
<1>3. Total(f, S \ {x}) \in Nat
  BY FS_RemoveElement, TotalType
<1> QED
  BY <1>1, <1>2, <1>3

(* Smaller numbers, and fewer elements, have no larger total.              *)
LEMMA TotalOrder ==
  ASSUME NEW S, IsFiniteSet(S), NEW T \in SUBSET S, NEW f, NEW g,
         \A x \in S : g[x] \in Nat, \A x \in T : f[x] \in Nat /\ f[x] <= g[x]
  PROVE  Total(f, T) <= Total(g, S)
<1>1. Units(f, T) \subseteq Units(g, S)
  BY DEF Units
<1>2. IsFiniteSet(Units(g, S))
  BY UnitsFinite
<1> QED
  BY <1>1, <1>2, FS_Subset DEF Total

(* The same numbers in other places have the same total.                   *)
LEMMA TotalMoved ==
  ASSUME NEW S, IsFiniteSet(S), NEW T, NEW f, NEW g, NEW move \in Bijection(S, T),
         \A x \in S : f[x] \in Nat, \A x \in S : g[move[x]] = f[x]
  PROVE  Total(g, T) = Total(f, S)
<1> DEFINE Shift == [u \in Units(f, S) |-> <<move[u[1]], u[2]>>]
<1>1. move \in [S -> T] /\ (\A x, y \in S : move[x] = move[y] => x = y) /\ \A z \in T : \E x \in S : move[x] = z
  BY DEF Bijection, Injection, IsInjective, Surjection
<1>2. \A u \in Units(f, S) : u[1] \in S /\ u[2] \in 1..f[u[1]] /\ u = <<u[1], u[2]>>
  BY DEF Units
<1>3. \A x \in S : \A k \in 1..f[x] : <<x, k>> \in Units(f, S)
  BY DEF Units
<1>4. Shift \in [Units(f, S) -> Units(g, T)]
  <2>1. ASSUME NEW u \in Units(f, S) PROVE <<move[u[1]], u[2]>> \in Units(g, T)
    BY <1>1, <1>2 DEF Units
  <2> QED
    BY <2>1
<1>5. \A u, v \in Units(f, S) : Shift[u] = Shift[v] => u = v
  BY <1>1, <1>2
<1>6. \A w \in Units(g, T) : \E u \in Units(f, S) : Shift[u] = w
  <2>1. SUFFICES ASSUME NEW w \in Units(g, T) PROVE \E u \in Units(f, S) : Shift[u] = w
    OBVIOUS
  <2>2. PICK z \in T : w \in {z} \X (1..g[z])
    BY DEF Units
  <2>3. PICK x \in S : move[x] = z
    BY <1>1
  <2>4. w[1] = z /\ w[2] \in 1..f[x] /\ w = <<w[1], w[2]>>
    BY <2>2, <2>3
  <2>5. <<x, w[2]>> \in Units(f, S)
    BY <1>3, <2>4
  <2>6. Shift[<<x, w[2]>>] = w
    BY <2>3, <2>4, <2>5
  <2> QED
    BY <2>5, <2>6
<1> HIDE DEF Shift
<1>7. ExistsBijection(Units(f, S), Units(g, T))
  BY <1>4, <1>5, <1>6 DEF ExistsBijection, Bijection, Injection, IsInjective, Surjection
<1> QED
  BY <1>7, UnitsFinite, FS_Bijection DEF Total
=============================================================================
