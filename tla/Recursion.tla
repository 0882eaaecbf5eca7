------------------------------ MODULE Recursion ------------------------------
(***************************************************************************)
(* Functions that are defined by recursion, as f[x \in D] == Body(f, x).   *)
(* Such a definition says no more than that f is chosen among the          *)
(* functions that satisfy it; here one exists, when the value at x uses    *)
(* those at arguments of lower rank only.  D, the rank and the body may    *)
(* have a parameter p, the argument of the operator that the function is   *)
(* defined in.                                                             *)
(***************************************************************************)
EXTENDS Naturals, WellFoundedInduction, TLAPS

CONSTANTS
    D(_),           \* the domain
    Rank(_, _),     \* of an argument
    Good(_, _, _),  \* what is known of the value at an argument
    Body(_, _, _)   \* the right-hand side of the definition

-----------------------------------------------------------------------------
(* Induction.                                                              *)

Below == {p \in Nat \X Nat : p[1] < p[2]}

LEMMA BelowWF == IsWellFoundedOn(Below, Nat)
<1>1. Below = OpToRel(<, Nat)
  BY DEF Below, OpToRel
<1> QED
  BY <1>1, NatLessThanWellFounded

LEMMA Least ==
  ASSUME NEW T \in SUBSET Nat, T # {}
  PROVE  \E x \in T : \A y \in T : x <= y
<1>1. \E x \in T : \A y \in T : ~(<<y, x>> \in Below)
  BY BelowWF, WFMin
<1>2. \A x, y \in Nat : ~(<<y, x>> \in Below) => x <= y
  BY DEF Below
<1> QED
  BY <1>1, <1>2

\* Induction: P is the set of numbers for which something is to be shown.
LEMMA Induction ==
  ASSUME NEW P, 0 \in P, \A i \in Nat : i \in P => i + 1 \in P
  PROVE  Nat \subseteq P
<1> DEFINE T == Nat \ P
<1> SUFFICES ASSUME T # {} PROVE FALSE
  OBVIOUS
<1>0. T \in SUBSET Nat
  OBVIOUS
<1> HIDE DEF T
<1>1. PICK x \in T : \A y \in T : x <= y
  BY <1>0, Least
<1>2. x \in Nat /\ x \notin P
  BY DEF T
<1>3. x # 0
  BY <1>2
<1>4. x - 1 \in Nat /\ ~(x <= x - 1) /\ x = (x - 1) + 1
  BY <1>2, <1>3
<1>5. x - 1 \in P
  BY <1>1, <1>4 DEF T
<1>6. (x - 1) + 1 \in P
  BY <1>4, <1>5
<1> QED
  BY <1>2, <1>4, <1>6

-----------------------------------------------------------------------------
(* Recursion.                                                              *)

Satisfies(p, f) == f = [x \in D(p) |-> Body(p, f, x)]

\* Functions that agree below x give the same value at x, and a good one.
WellFounded(p) ==
    /\ \A x \in D(p) : Rank(p, x) \in Nat
    /\ \A g, h : \A x \in D(p) :
          (\A y \in D(p) : Rank(p, y) < Rank(p, x) => g[y] = h[y] /\ Good(p, y, g[y]))
             => Body(p, g, x) = Body(p, h, x) /\ Good(p, x, Body(p, g, x))

\* Whatever satisfies the definition has good values.
THEOREM GoodValues ==
  ASSUME NEW p, WellFounded(p), NEW f, Satisfies(p, f)
  PROVE  \A x \in D(p) : Good(p, x, f[x])
<1> DEFINE Q == {k \in Nat : \A x \in D(p) : Rank(p, x) < k => Good(p, x, f[x])}
<1>1. 0 \in Q
  BY DEF WellFounded
<1>2. ASSUME NEW k \in Nat, k \in Q PROVE k + 1 \in Q
  <2> SUFFICES ASSUME NEW x \in D(p), Rank(p, x) < k + 1 PROVE Good(p, x, f[x])
    OBVIOUS
  <2>1. \A y \in D(p) : Rank(p, y) < Rank(p, x) => f[y] = f[y] /\ Good(p, y, f[y])
    <3> SUFFICES ASSUME NEW y \in D(p), Rank(p, y) < Rank(p, x) PROVE Good(p, y, f[y])
      OBVIOUS
    <3>1. Rank(p, y) < k
      BY DEF WellFounded
    <3> QED
      BY <1>2, <3>1
  <2>2. Good(p, x, Body(p, f, x))
    BY <2>1, Zenon DEF WellFounded
  <2>3. f[x] = Body(p, f, x)
    BY Zenon DEF Satisfies
  <2> QED
    BY <2>2, <2>3
<1>3. Nat \subseteq Q
  <2> HIDE DEF Q
  <2> QED
    BY <1>1, <1>2, Induction
<1>4. ASSUME NEW x \in D(p) PROVE Good(p, x, f[x])
  <2>1. Rank(p, x) \in Nat
    BY DEF WellFounded
  <2>2. Rank(p, x) + 1 \in Q /\ Rank(p, x) < Rank(p, x) + 1
    BY <1>3, <2>1
  <2> QED
    BY <2>2
<1> QED
  BY <1>4

\* A function satisfies the definition.
THEOREM Exists ==
  ASSUME NEW p, WellFounded(p)
  PROVE  \E f : Satisfies(p, f)
<1> DEFINE Low(n) == {x \in D(p) : Rank(p, x) < n}
           Ok(f, n) == /\ f = [x \in Low(n) |-> Body(p, f, x)]
                       /\ \A x \in Low(n) : Good(p, x, f[x])
           P == {n \in Nat : \E f : Ok(f, n)}
<1>0. \A x \in D(p) : Rank(p, x) \in Nat
  BY DEF WellFounded
<1>l. \A n \in Nat, x \in D(p) : x \in Low(n + 1) => Rank(p, x) <= n
  BY <1>0
<1>1. 0 \in P
  <2>1. Low(0) = {}
    BY <1>0
  <2> DEFINE g == [x \in Low(0) |-> 0]
  <2>2. g = [x \in Low(0) |-> Body(p, g, x)]
    BY <2>1
  <2>3. Ok(g, 0)
    BY <2>1, <2>2
  <2> QED
    BY <2>3
<1>2. ASSUME NEW n \in Nat, n \in P PROVE n + 1 \in P
  <2>1. PICK f : Ok(f, n)
    BY <1>2
  <2> DEFINE g == [x \in Low(n + 1) |-> Body(p, f, x)]
  <2>2. ASSUME NEW x \in Low(n + 1)
        PROVE  Body(p, f, x) = Body(p, g, x) /\ Good(p, x, Body(p, f, x))
    <3>1. ASSUME NEW y \in D(p), Rank(p, y) < Rank(p, x)
          PROVE  f[y] = g[y] /\ Good(p, y, f[y])
      <4>1. Rank(p, y) \in Nat /\ Rank(p, x) \in Nat /\ Rank(p, x) < n + 1
        BY <1>0
      <4>2. Rank(p, y) < n /\ Rank(p, y) < n + 1
        BY <3>1, <4>1
      <4>3. y \in Low(n) /\ y \in Low(n + 1)
        BY <4>2
      <4>4. f[y] = Body(p, f, y) /\ Good(p, y, f[y])
        BY <2>1, <4>3, Zenon
      <4>5. g[y] = Body(p, f, y)
        BY <4>3, Zenon
      <4> QED
        BY <4>4, <4>5
    <3>2. x \in D(p)
      OBVIOUS
    <3> HIDE DEF g, Low, Ok
    <3> QED
      BY <3>1, <3>2, Zenon DEF WellFounded
  <2>3. g = [x \in Low(n + 1) |-> Body(p, g, x)]
    <3> HIDE DEF Low, Ok
    <3> QED
      BY <2>2, Zenon
  <2>4. ASSUME NEW x \in Low(n + 1) PROVE Good(p, x, g[x])
    <3> HIDE DEF Low, Ok
    <3> QED
      BY <2>2, Zenon
  <2> HIDE DEF g
  <2>5. Ok(g, n + 1)
    BY <2>3, <2>4, Zenon
  <2> QED
    BY <2>5
<1>3. \A n \in Nat : \E f : Ok(f, n)
  <2>1. Nat \subseteq P
    <3> HIDE DEF P
    <3> QED
      BY <1>1, <1>2, Induction
  <2> QED
    BY <2>1
<1> DEFINE a == [n \in Nat |-> CHOOSE f : Ok(f, n)]
<1>4. \A n \in Nat : Ok(a[n], n)
  BY <1>3, Zenon
<1> HIDE DEF a
<1>5. \A n \in Nat : \A x \in Low(n) : a[n][x] = Body(p, a[n], x) /\ Good(p, x, a[n][x])
  BY <1>4, Zenon
\* They agree where both are defined.
<1>6. ASSUME NEW m \in Nat, NEW n \in Nat, NEW z \in D(p), Rank(p, z) < m, Rank(p, z) < n
      PROVE  a[m][z] = a[n][z]
  <2> DEFINE Q == {k \in Nat : \A x \in D(p) :
                      Rank(p, x) < k /\ Rank(p, x) < m /\ Rank(p, x) < n => a[m][x] = a[n][x]}
  <2>1. 0 \in Q
    BY <1>0
  <2>2. ASSUME NEW k \in Nat, k \in Q PROVE k + 1 \in Q
    <3> SUFFICES ASSUME NEW x \in D(p), Rank(p, x) < k + 1, Rank(p, x) < m, Rank(p, x) < n
                 PROVE  a[m][x] = a[n][x]
      OBVIOUS
    <3>1. x \in Low(m) /\ x \in Low(n)
      OBVIOUS
    <3>2. ASSUME NEW y \in D(p), Rank(p, y) < Rank(p, x)
          PROVE  a[m][y] = a[n][y] /\ Good(p, y, a[m][y])
      <4>1. Rank(p, y) < k /\ Rank(p, y) < m /\ Rank(p, y) < n
        BY <1>0, <3>2
      <4>2. y \in Low(m)
        BY <4>1
      <4>3. a[m][y] = a[n][y]
        BY <2>2, <4>1
      <4> QED
        BY <1>5, <4>2, <4>3
    <3>3. Body(p, a[m], x) = Body(p, a[n], x)
      <4> HIDE DEF Low, Ok, Q, P
      <4> QED
        BY <3>2, Zenon DEF WellFounded
    <3> HIDE DEF Low, Ok, Q, P
    <3> QED
      BY <1>5, <3>1, <3>3
  <2>3. Nat \subseteq Q
    <3> HIDE DEF Q
    <3> QED
      BY <2>1, <2>2, Induction
  <2>4. Rank(p, z) + 1 \in Q /\ Rank(p, z) < Rank(p, z) + 1
    BY <2>3, <1>0
  <2> QED
    BY <1>6, <2>4
<1> DEFINE f == [x \in D(p) |-> a[Rank(p, x) + 1][x]]
<1>7. ASSUME NEW x \in D(p) PROVE f[x] = Body(p, f, x)
  <2> DEFINE r == Rank(p, x) + 1
  <2>1. r \in Nat /\ Rank(p, x) < r
    BY <1>0
  <2>2. x \in Low(r)
    BY <2>1
  <2>3. ASSUME NEW y \in D(p), Rank(p, y) < Rank(p, x)
        PROVE  a[r][y] = f[y] /\ Good(p, y, a[r][y])
    <3>1. /\ Rank(p, y) \in Nat /\ Rank(p, x) \in Nat /\ Rank(p, y) + 1 \in Nat
          /\ Rank(p, y) < Rank(p, y) + 1
      BY <1>0
    <3>2. Rank(p, y) < r
      BY <2>3, <3>1
    <3>3. y \in Low(r)
      BY <3>2
    <3> HIDE DEF r
    <3>4. a[Rank(p, y) + 1][y] = a[r][y]
      BY <1>6, <2>1, <3>1, <3>2
    <3>5. Good(p, y, a[r][y])
      <4> HIDE DEF Low, Ok, P
      <4> QED
        BY <1>5, <2>1, <3>3
    <3> QED
      BY <3>4, <3>5
  <2> HIDE DEF Low, Ok, P
  <2>4. f[x] = a[r][x]
    OBVIOUS
  <2> HIDE DEF f, r
  <2>5. Body(p, a[r], x) = Body(p, f, x)
    BY <2>3, Zenon DEF WellFounded
  <2> QED
    BY <1>5, <2>1, <2>2, <2>4, <2>5
<1>8. f = [x \in D(p) |-> Body(p, f, x)]
  <2>1. f = [x \in D(p) |-> f[x]]
    BY Zenon
  <2> HIDE DEF f, P, Ok, Low
  <2> QED
    BY <1>7, <2>1, Zenon
<1> QED
  BY <1>8 DEF Satisfies
=============================================================================
