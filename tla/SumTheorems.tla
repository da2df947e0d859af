---------------------------- MODULE SumTheorems -----------------------------
(***************************************************************************)
(* Induction over naturals and finite sets, and what it gives about the    *)
(* sums of the community modules (SumFunctionOnSet): a sum over a finite   *)
(* set is a natural, and any element can be taken off it; about functions  *)
(* defined one step at a time; about sorting; and about remainders.        *)
(*                                                                         *)
(* The provers cannot instantiate a theorem that has an operator as a      *)
(* parameter, so induction is stated with sets.                            *)
(***************************************************************************)
EXTENDS Integers, FiniteSets, Functions, FiniteSetTheorems, TLAPS

\* A leaf is for Zenon unless it names another prover.
USE ZenonT(90)

----------------------------------------------------------------------------
(* Induction.                                                              *)

\* A set of naturals that is not empty has a least member.
LEMMA NatMin ==
  ASSUME NEW T \in SUBSET Nat, T # {}
  PROVE  \E x \in T : \A y \in T : ~(y < x)
<1>1. PICK x \in T : \A y \in T : <<y, x>> \notin OpToRel(<, Nat)
  BY NatLessThanWellFounded, WFMin
<1>2. \A y \in T : y < x => <<y, x>> \in OpToRel(<, Nat)
  BY SMTT(60) DEF OpToRel
<1> QED BY <1>1, <1>2

\* Induction over the naturals.
LEMMA NatInd ==
  ASSUME NEW T, 0 \in T, \A n \in Nat : n \in T => n + 1 \in T
  PROVE  \A n \in Nat : n \in T
<1> SUFFICES ASSUME NEW m \in Nat, m \notin T PROVE FALSE
  OBVIOUS
<1> DEFINE U == {n \in Nat : n \notin T}
<1>1. U \in SUBSET Nat /\ U # {}
  OBVIOUS
<1>2. PICK x \in U : \A y \in U : ~(y < x)
  BY <1>1, NatMin
<1>3. x \in Nat /\ x \notin T
  OBVIOUS
<1>4. x # 0
  BY <1>3
<1>5. x - 1 \in Nat /\ x - 1 < x /\ (x - 1) + 1 = x
  BY <1>3, <1>4, SMTT(60)
<1>6. x - 1 \in T
  BY <1>2, <1>5
<1> QED BY <1>3, <1>5, <1>6

\* Induction up to a bound.
LEMMA UpTo ==
  ASSUME NEW n \in Nat, NEW T, 0 \in T, \A k \in 1 .. n : k - 1 \in T => k \in T
  PROVE  \A k \in 0 .. n : k \in T
<1> DEFINE U == {k \in Nat : k <= n => k \in T}
<1>1. 0 \in U
  OBVIOUS
<1>2. ASSUME NEW k \in Nat, k \in U PROVE k + 1 \in U
  <2> SUFFICES ASSUME k + 1 <= n PROVE k + 1 \in T
    BY SMTT(60)
  <2>1. k <= n /\ k + 1 \in 1 .. n /\ (k + 1) - 1 = k
    BY SMTT(60)
  <2> QED BY <1>2, <2>1
<1> HIDE DEF U
<1>3. \A k \in Nat : k \in U
  BY <1>1, <1>2, NatInd
<1>4. \A k \in 0 .. n : k \in Nat /\ k <= n
  BY SMTT(60)
<1> QED BY <1>3, <1>4 DEF U

\* Induction over the subsets of a finite set, one element more at a time.
LEMMA SetInd ==
  ASSUME NEW S, IsFiniteSet(S), NEW U, {} \in U,
         \A s \in SUBSET S : \A x \in s : s \ {x} \in U => s \in U
  PROVE  S \in U
<1> DEFINE T == {n \in Nat : \A s \in SUBSET S : Cardinality(s) = n => s \in U}
<1>1. \A s \in SUBSET S : IsFiniteSet(s) /\ Cardinality(s) \in Nat
  BY FS_Subset, FS_CardinalityType
<1>2. 0 \in T
  BY <1>1, FS_EmptySet
<1>3. ASSUME NEW n \in Nat, n \in T PROVE n + 1 \in T
  <2> SUFFICES ASSUME NEW s \in SUBSET S, Cardinality(s) = n + 1 PROVE s \in U
    BY SMTT(60)
  <2>1. n + 1 # 0 /\ (n + 1) - 1 = n
    BY SMTT(60)
  <2>2. s # {}
    BY <2>1, FS_EmptySet
  <2>3. PICK x \in s : TRUE
    BY <2>2
  <2>4. Cardinality(s \ {x}) = n /\ s \ {x} \in SUBSET S
    BY <1>1, <2>1, FS_RemoveElement
  <2> QED BY <2>4, <1>3
<1> HIDE DEF T
<1>4. \A n \in Nat : n \in T
  BY <1>2, <1>3, NatInd
<1>5. Cardinality(S) \in Nat /\ S \in SUBSET S
  BY <1>1
<1> QED BY <1>4, <1>5 DEF T

----------------------------------------------------------------------------
(* The recursive function that a sum evaluates.                            *)

\* it has the sum over each subset of S, with c to choose the next element.
IsSum(it, f, c, S) ==
  it = [s \in SUBSET S |-> IF s = {} THEN 0 ELSE f[c[s]] + it[s \ {c[s]}]]

\* There is one.
LEMMA SumExists ==
  ASSUME NEW f, NEW c, NEW S, IsFiniteSet(S),
         \A s \in SUBSET S : s # {} => c[s] \in s
  PROVE  \E it : IsSum(it, f, c, S)
<1> DEFINE D(n) == {s \in SUBSET S : Cardinality(s) <= n}
           Body(it, s) == IF s = {} THEN 0 ELSE f[c[s]] + it[s \ {c[s]}]
           T == {n \in Nat : \E it : it = [s \in D(n) |-> Body(it, s)]}
<1>1. \A s \in SUBSET S : IsFiniteSet(s) /\ Cardinality(s) \in Nat
  BY FS_Subset, FS_CardinalityType
<1>2. 0 \in T
  <2>1. \A s \in D(0) : s = {}
    <3> SUFFICES ASSUME NEW s \in SUBSET S, Cardinality(s) <= 0 PROVE s = {}
      OBVIOUS
    <3>1. Cardinality(s) = 0
      BY <1>1, SMTT(60)
    <3> QED BY <3>1, <1>1, FS_EmptySet
  <2> DEFINE i0 == [s \in D(0) |-> 0]
  <2>2. i0 = [s \in D(0) |-> Body(i0, s)]
    BY <2>1
  <2> HIDE DEF i0, D
  <2> QED BY <2>2
<1>3. ASSUME NEW n \in Nat, n \in T PROVE n + 1 \in T
  <2>1. PICK it : it = [s \in D(n) |-> Body(it, s)]
    BY <1>3
  <2> DEFINE jt == [s \in D(n + 1) |-> Body(it, s)]
  <2>2. ASSUME NEW s \in D(n + 1) PROVE Body(jt, s) = Body(it, s)
    <3>1. CASE s = {}
      BY <3>1
    <3>2. CASE s # {}
      <4> DEFINE r == s \ {c[s]}
      <4>1. Cardinality(r) = Cardinality(s) - 1 /\ r \in SUBSET S /\ Cardinality(r) \in Nat
        BY <1>1, <3>2, FS_RemoveElement
      <4>2. r \in D(n) /\ r \in D(n + 1)
        <5>1. Cardinality(s) \in Nat /\ Cardinality(s) <= n + 1
          BY <1>1
        <5>2. Cardinality(r) <= n /\ Cardinality(r) <= n + 1
          BY <4>1, <5>1, SMTT(60)
        <5> QED BY <4>1, <5>2
      <4>3. jt[r] = Body(it, r)
        BY <4>2
      <4>4. it[r] = Body(it, r)
        <5> HIDE DEF r, D, Body
        <5> QED BY <2>1, <4>2
      <4>5. jt[r] = it[r]
        BY <4>3, <4>4
      <4> HIDE DEF jt, D
      <4> QED BY <3>2, <4>5
    <3> QED BY <3>1, <3>2
  <2>3. jt = [s \in D(n + 1) |-> Body(jt, s)]
    <3> HIDE DEF Body, D
    <3> QED BY <2>2
  <2> HIDE DEF jt, Body, D
  <2>4. n + 1 \in Nat
    BY SMTT(60)
  <2> QED BY <2>3, <2>4
<1>4. \A n \in Nat : n \in T
  <2> HIDE DEF T
  <2> QED BY <1>2, <1>3, NatInd
<1>5. D(Cardinality(S)) = SUBSET S
  BY FS_Subset
<1>6. Cardinality(S) \in T
  BY <1>1, <1>4
<1>7. PICK it : it = [s \in D(Cardinality(S)) |-> Body(it, s)]
  BY <1>6
<1>8. it = [s \in SUBSET S |-> Body(it, s)]
  <2> HIDE DEF D
  <2> QED BY <1>5, <1>7
<1> QED BY <1>8 DEF IsSum

\* f and g are the same on R, and elements are chosen from it in one way.
SameOn(R, f, g, c, d, S) ==
  /\ IsFiniteSet(S) /\ R \in SUBSET S
  /\ \A s \in SUBSET S : s # {} => c[s] \in s
  /\ \A s \in SUBSET R : c[s] = d[s]
  /\ \A x \in R : f[x] = g[x]

\* There is only one, and it is the same on a smaller set.
LEMMA SumAgrees ==
  ASSUME NEW f, NEW g, NEW c, NEW d, NEW S, NEW R, SameOn(R, f, g, c, d, S),
         NEW it, IsSum(it, f, c, S),
         NEW jt, IsSum(jt, g, d, R)
  PROVE  it[R] = jt[R]
<1>1. /\ IsFiniteSet(S) /\ R \in SUBSET S
      /\ \A s \in SUBSET S : s # {} => c[s] \in s
      /\ \A s \in SUBSET R : c[s] = d[s]
      /\ \A x \in R : f[x] = g[x]
  BY DEF SameOn
<1>2. \A s \in SUBSET S : it[s] = IF s = {} THEN 0 ELSE f[c[s]] + it[s \ {c[s]}]
  BY DEF IsSum
<1>3. \A s \in SUBSET R : jt[s] = IF s = {} THEN 0 ELSE g[d[s]] + jt[s \ {d[s]}]
  BY DEF IsSum
<1> DEFINE T == {n \in Nat : \A s \in SUBSET R : Cardinality(s) = n => it[s] = jt[s]}
<1>4. \A s \in SUBSET R : IsFiniteSet(s) /\ Cardinality(s) \in Nat /\ s \in SUBSET S
  BY <1>1, FS_Subset, FS_CardinalityType
<1>5. 0 \in T
  <2>1. it[{}] = 0 /\ jt[{}] = 0
    BY <1>2, <1>3
  <2> QED BY <2>1, <1>4, FS_EmptySet
<1>6. ASSUME NEW n \in Nat, n \in T PROVE n + 1 \in T
  <2>1. n + 1 \in Nat /\ n + 1 # 0 /\ (n + 1) - 1 = n
    BY SMTT(60)
  <2> SUFFICES ASSUME NEW s \in SUBSET R, Cardinality(s) = n + 1 PROVE it[s] = jt[s]
    BY <2>1
  <2>2. s # {}
    BY <2>1, FS_EmptySet
  <2>3. c[s] \in s /\ c[s] = d[s] /\ f[c[s]] = g[c[s]]
    BY <1>1, <2>2
  <2>4. Cardinality(s \ {c[s]}) = n /\ s \ {c[s]} \in SUBSET R
    <3>1. \A x \in s : Cardinality(s \ {x}) = n
      BY <1>4, <2>1, FS_RemoveElement
    <3> QED BY <2>3, <3>1
  <2>5. it[s \ {c[s]}] = jt[s \ {c[s]}]
    BY <2>4, <1>6
  <2>6. it[s] = f[c[s]] + it[s \ {c[s]}]
    BY <1>2, <1>4, <2>2
  <2>7. jt[s] = g[d[s]] + jt[s \ {d[s]}]
    BY <1>3, <2>2
  <2> QED BY <2>3, <2>5, <2>6, <2>7
<1> HIDE DEF T
<1>7. \A n \in Nat : n \in T
  BY <1>5, <1>6, NatInd
<1>8. Cardinality(R) \in Nat /\ R \in SUBSET R
  BY <1>4
<1> QED BY <1>7, <1>8 DEF T

----------------------------------------------------------------------------
(* Sums.                                                                   *)

Chosen(S) == [s \in SUBSET S |-> CHOOSE x \in s : TRUE]

\* The operator and the function agree.
LEMMA SumDef ==
  ASSUME NEW f, NEW S, IsFiniteSet(S)
  PROVE  \E it : IsSum(it, f, Chosen(S), S) /\ SumFunctionOnSet(f, S) = it[S]
<1> DEFINE c == Chosen(S)
           Eq(it) == it = [s \in SUBSET S |-> IF s = {} THEN 0
                       ELSE f[CHOOSE x \in s : TRUE] + it[s \ {CHOOSE x \in s : TRUE}]]
           it == CHOOSE it : Eq(it)
<1>1. SumFunctionOnSet(f, S) = it[S]
  BY DEF SumFunctionOnSet, FoldFunctionOnSet, MapThenFoldSet
<1>2. \A s \in SUBSET S : s # {} => c[s] \in s
  BY DEF Chosen
<1>3. \A jt : IsSum(jt, f, c, S) <=> Eq(jt)
  BY DEF IsSum, Chosen
<1> HIDE DEF c, Eq
<1>4. \E jt : Eq(jt)
  BY <1>2, <1>3, SumExists
<1>5. Eq(it)
  BY <1>4
<1> HIDE DEF it
<1> QED BY <1>1, <1>3, <1>5 DEF c

\* Nothing to add.
LEMMA SumEmpty ==
  ASSUME NEW f
  PROVE  SumFunctionOnSet(f, {}) = 0
<1>1. IsFiniteSet({})
  BY FS_EmptySet
<1> DEFINE c == Chosen({})
<1>2. PICK it : IsSum(it, f, c, {}) /\ SumFunctionOnSet(f, {}) = it[{}]
  BY <1>1, SumDef
<1> QED BY <1>2 DEF IsSum

\* Two functions that agree on S have the same sum.
LEMMA SumSame ==
  ASSUME NEW f, NEW g, NEW S, IsFiniteSet(S), \A x \in S : f[x] = g[x]
  PROVE  SumFunctionOnSet(f, S) = SumFunctionOnSet(g, S)
<1> DEFINE c == Chosen(S)
<1>1. PICK it : IsSum(it, f, c, S) /\ SumFunctionOnSet(f, S) = it[S]
  BY SumDef
<1>2. PICK jt : IsSum(jt, g, c, S) /\ SumFunctionOnSet(g, S) = jt[S]
  BY SumDef
<1>3. \A s \in SUBSET S : s # {} => c[s] \in s
  BY DEF Chosen
<1> HIDE DEF c
<1>4. SameOn(S, f, g, c, c, S)
  BY <1>3 DEF SameOn
<1>5. it[S] = jt[S]
  BY <1>1, <1>2, <1>4, SumAgrees, SMTT(60)
<1> QED BY <1>1, <1>2, <1>5

\* The first element chosen comes off the sum.
LEMMA SumChosen ==
  ASSUME NEW f, NEW S, IsFiniteSet(S), S # {}
  PROVE  \E x \in S : SumFunctionOnSet(f, S) = f[x] + SumFunctionOnSet(f, S \ {x})
<1> DEFINE x == CHOOSE x \in S : TRUE
           R == S \ {x}
           c == Chosen(S)
           d == Chosen(R)
<1>1. x \in S /\ IsFiniteSet(R) /\ R \in SUBSET S
  BY FS_RemoveElement
<1>2. PICK it : IsSum(it, f, c, S) /\ SumFunctionOnSet(f, S) = it[S]
  BY SumDef
<1>3. PICK jt : IsSum(jt, f, d, R) /\ SumFunctionOnSet(f, R) = jt[R]
  BY <1>1, SumDef
<1>4. \A s \in SUBSET S : s # {} => c[s] \in s
  BY DEF Chosen
<1>5. \A s \in SUBSET R : c[s] = d[s]
  <2> SUFFICES ASSUME NEW s \in SUBSET R PROVE c[s] = d[s]
    OBVIOUS
  <2>1. s \in SUBSET S
    BY <1>1
  <2> HIDE DEF R
  <2>2. c[s] = CHOOSE y \in s : TRUE
    BY <2>1 DEF Chosen
  <2>3. d[s] = CHOOSE y \in s : TRUE
    BY DEF Chosen
  <2> QED BY <2>2, <2>3
<1>6. c[S] = x
  BY DEF Chosen
<1> HIDE DEF c, d, R, x
<1>7. it[R] = jt[R]
  <2>1. SameOn(R, f, f, c, d, S)
    BY <1>1, <1>4, <1>5 DEF SameOn
  <2> QED BY <2>1, <1>2, <1>3, SumAgrees, SMTT(60)
<1>8. it[S] = f[x] + it[R]
  BY <1>2, <1>6 DEF IsSum, R
<1> QED BY <1>1, <1>2, <1>3, <1>7, <1>8 DEF R

\* A sum of naturals is one, and any element can be taken off it.
LEMMA SumTake ==
  ASSUME NEW S, IsFiniteSet(S), NEW f, \A x \in S : f[x] \in Nat
  PROVE  /\ SumFunctionOnSet(f, S) \in Nat
         /\ \A x \in S : SumFunctionOnSet(f, S) = f[x] + SumFunctionOnSet(f, S \ {x})
<1> DEFINE F(s) == SumFunctionOnSet(f, s)
           Good(s) == F(s) \in Nat /\ \A x \in s : F(s) = f[x] + F(s \ {x})
           N == {n \in Nat : \A s \in SUBSET S : Cardinality(s) <= n => Good(s)}
<1>1. \A s \in SUBSET S : IsFiniteSet(s) /\ Cardinality(s) \in Nat
  BY FS_Subset, FS_CardinalityType
<1>2. F({}) = 0
  BY SumEmpty
<1>3. ASSUME NEW s \in SUBSET S, s # {} PROVE \E x \in s : F(s) = f[x] + F(s \ {x})
  BY <1>1, <1>3, SumChosen, SMTT(60)
<1> HIDE DEF F
<1>4. 0 \in N
  <2> SUFFICES ASSUME NEW s \in SUBSET S, Cardinality(s) <= 0 PROVE Good(s)
    OBVIOUS
  <2>1. Cardinality(s) = 0
    BY <1>1, SMTT(60)
  <2> QED BY <2>1, <1>1, <1>2, FS_EmptySet
<1>5. ASSUME NEW n \in Nat, n \in N PROVE n + 1 \in N
  <2>1. n + 1 \in Nat /\ n + 1 # 0 /\ (n + 1) - 1 = n
    BY SMTT(60)
  <2>2. \A s \in SUBSET S : Cardinality(s) <= n + 1 => Cardinality(s) <= n \/ Cardinality(s) = n + 1
    BY <1>1, SMTT(60)
  <2> SUFFICES ASSUME NEW s \in SUBSET S, Cardinality(s) = n + 1 PROVE Good(s)
    <3> HIDE DEF Good
    <3> QED BY <2>2, <2>1, <1>5
  <2>3. s # {}
    BY <2>1, FS_EmptySet
  <2>4. \A x \in s : Cardinality(s \ {x}) = n /\ s \ {x} \in SUBSET S
    BY <1>1, <2>1, FS_RemoveElement
  <2>5. \A x \in s : Good(s \ {x})
    <3>1. n <= n
      BY SMTT(60)
    <3> HIDE DEF Good
    <3> QED BY <2>4, <3>1, <1>5
  <2>6. PICK y \in s : F(s) = f[y] + F(s \ {y})
    BY <1>3, <2>3
  <2>7. F(s) \in Nat
    <3>1. f[y] \in Nat /\ F(s \ {y}) \in Nat
      BY <2>5
    <3>2. \A a, b \in Nat : a + b \in Nat
      BY SMTT(60)
    <3> QED BY <2>6, <3>1, <3>2
  <2>8. ASSUME NEW x \in s, x # y PROVE F(s) = f[x] + F(s \ {x})
    <3>1. F(s \ {y}) = f[x] + F((s \ {y}) \ {x})
      BY <2>5, <2>8
    <3>2. F(s \ {x}) = f[y] + F((s \ {x}) \ {y})
      BY <2>5, <2>8
    <3>3. (s \ {y}) \ {x} = (s \ {x}) \ {y}
      OBVIOUS
    <3>4. F((s \ {x}) \ {y}) \in Nat
      <4>1. s \ {x} \in SUBSET S /\ y \in s \ {x} /\ (s \ {x}) \ {y} \in SUBSET S
        BY <2>8
      <4>2. Cardinality((s \ {x}) \ {y}) = n - 1
        <5> DEFINE r == s \ {x}
        <5>1. IsFiniteSet(r) /\ Cardinality(r) = n /\ y \in r
          BY <1>1, <2>4, <4>1
        <5> HIDE DEF r
        <5>2. Cardinality(r \ {y}) = n - 1
          BY <5>1, FS_RemoveElement
        <5> QED BY <5>2 DEF r
      <4>3. n - 1 <= n
        BY SMTT(60)
      <4>4. Good((s \ {x}) \ {y})
        <5> HIDE DEF Good
        <5> QED BY <4>1, <4>2, <4>3, <1>5
      <4> QED BY <4>4
    <3>5. f[x] \in Nat /\ f[y] \in Nat
      OBVIOUS
    <3> DEFINE z == F((s \ {x}) \ {y})
    <3>6. f[y] + (f[x] + z) = f[x] + (f[y] + z)
      <4> DEFINE a == f[x]
                 b == f[y]
      <4>1. a \in Nat /\ b \in Nat /\ z \in Nat
        BY <3>4, <3>5
      <4> HIDE DEF a, b, z
      <4>2. b + (a + z) = a + (b + z)
        BY <4>1, SMTT(60)
      <4> QED BY <4>2 DEF a, b, z
    <3> QED BY <2>6, <3>1, <3>2, <3>3, <3>6
  <2> QED BY <2>6, <2>7, <2>8
<1> HIDE DEF N
<1>6. \A n \in Nat : n \in N
  BY <1>4, <1>5, NatInd
<1>7. Cardinality(S) \in Nat /\ S \in SUBSET S
  BY <1>1
<1>8. Good(S)
  <2>1. Cardinality(S) <= Cardinality(S)
    BY <1>7, SMTT(60)
  <2> HIDE DEF Good
  <2> QED BY <1>6, <1>7, <2>1 DEF N
<1> QED BY <1>8 DEF F

\* Nothing adds up to nothing.
LEMMA SumZero ==
  ASSUME NEW S, IsFiniteSet(S), NEW f, \A y \in S : f[y] = 0
  PROVE  SumFunctionOnSet(f, S) = 0
<1> DEFINE U == {s \in SUBSET S : SumFunctionOnSet(f, s) = 0}
<1>1. {} \in U
  BY SumEmpty
<1>2. ASSUME NEW s \in SUBSET S, NEW x \in s, s \ {x} \in U PROVE s \in U
  <2>1. IsFiniteSet(s)
    BY FS_Subset
  <2>2. (\A y \in s : f[y] \in Nat) /\ f[x] = 0
    BY SMTT(60)
  <2>3. SumFunctionOnSet(f, s) = f[x] + SumFunctionOnSet(f, s \ {x})
    BY <2>1, <2>2, SumTake
  <2>4. SumFunctionOnSet(f, s \ {x}) = 0
    BY <1>2
  <2>5. 0 + 0 = 0
    BY SMTT(60)
  <2> QED BY <2>2, <2>3, <2>4, <2>5
<1> HIDE DEF U
<1>3. S \in U
  BY <1>1, <1>2, SetInd
<1> QED BY <1>3 DEF U

\* One element more.
LEMMA SumMore ==
  ASSUME NEW S, IsFiniteSet(S), NEW x, x \notin S, NEW f, NEW g,
         \A y \in S : f[y] \in Nat /\ g[y] = f[y], g[x] \in Nat
  PROVE  SumFunctionOnSet(g, S \cup {x}) = SumFunctionOnSet(f, S) + g[x]
<1> DEFINE R == S \cup {x}
<1>1. IsFiniteSet(R) /\ x \in R /\ R \ {x} = S /\ \A y \in R : g[y] \in Nat
  BY FS_AddElement
<1>2. SumFunctionOnSet(g, R) = g[x] + SumFunctionOnSet(g, R \ {x})
  <2> HIDE DEF R
  <2> QED BY <1>1, SumTake
<1>3. SumFunctionOnSet(f, S) = SumFunctionOnSet(g, S)
  BY SumSame
<1>4. SumFunctionOnSet(f, S) \in Nat
  BY SumTake
<1> QED BY <1>1, <1>2, <1>3, <1>4, SMTT(60)

\* One element less.
LEMMA SumLess ==
  ASSUME NEW S, IsFiniteSet(S), NEW x \in S, NEW f, NEW g,
         \A y \in S : f[y] \in Nat, \A y \in S \ {x} : g[y] = f[y]
  PROVE  /\ SumFunctionOnSet(g, S \ {x}) \in Nat
         /\ SumFunctionOnSet(f, S) = SumFunctionOnSet(g, S \ {x}) + f[x]
<1>1. IsFiniteSet(S \ {x}) /\ \A y \in S \ {x} : f[y] \in Nat
  BY FS_RemoveElement
<1>2. SumFunctionOnSet(f, S) = f[x] + SumFunctionOnSet(f, S \ {x})
  BY SumTake
<1>3. SumFunctionOnSet(f, S \ {x}) = SumFunctionOnSet(g, S \ {x})
  BY <1>1, SumSame
<1>4. SumFunctionOnSet(f, S \ {x}) \in Nat
  BY <1>1, SumTake
<1> QED BY <1>2, <1>3, <1>4, SMTT(60)

\* One element changed.
LEMMA SumChange ==
  ASSUME NEW S, IsFiniteSet(S), NEW x \in S, NEW f, NEW g,
         \A y \in S : f[y] \in Nat, \A y \in S \ {x} : g[y] = f[y], g[x] \in Nat
  PROVE  SumFunctionOnSet(g, S) + f[x] = SumFunctionOnSet(f, S) + g[x]
<1> DEFINE rest == SumFunctionOnSet(g, S \ {x})
<1>1. rest \in Nat /\ SumFunctionOnSet(f, S) = rest + f[x]
  BY SumLess
<1>2. \A y \in S : g[y] \in Nat
  OBVIOUS
<1>3. SumFunctionOnSet(g, S) = g[x] + rest
  BY <1>2, SumTake
<1> HIDE DEF rest
<1> QED BY <1>1, <1>3, SMTT(60)

\* A multiple of another function added everywhere.
LEMMA SumScaled ==
  ASSUME NEW S, IsFiniteSet(S), NEW k \in Nat, NEW f, NEW g, NEW h,
         \A y \in S : f[y] \in Nat /\ h[y] \in Nat /\ g[y] = f[y] + k * h[y]
  PROVE  SumFunctionOnSet(g, S) = SumFunctionOnSet(f, S) + k * SumFunctionOnSet(h, S)
<1> DEFINE F(s) == SumFunctionOnSet(f, s)
           G(s) == SumFunctionOnSet(g, s)
           H(s) == SumFunctionOnSet(h, s)
           U == {s \in SUBSET S : F(s) \in Nat /\ H(s) \in Nat /\ G(s) = F(s) + k * H(s)}
<1>0. \A y \in S : f[y] \in Nat /\ h[y] \in Nat /\ g[y] \in Nat
  BY SMTT(60)
<1>1. {} \in U
  <2>1. F({}) = 0 /\ G({}) = 0 /\ H({}) = 0
    BY SumEmpty
  <2>2. 0 \in Nat /\ 0 = 0 + k * 0
    BY SMTT(60)
  <2> QED BY <2>1, <2>2
<1>2. ASSUME NEW s \in SUBSET S, NEW x \in s, s \ {x} \in U PROVE s \in U
  <2>1. IsFiniteSet(s)
    BY FS_Subset
  <2>2. \A y \in s : f[y] \in Nat /\ h[y] \in Nat /\ g[y] \in Nat
    BY <1>0
  <2>3. F(s) = f[x] + F(s \ {x}) /\ F(s) \in Nat
    BY <2>1, <2>2, SumTake
  <2>4. G(s) = g[x] + G(s \ {x})
    BY <2>1, <2>2, SumTake
  <2>5. H(s) = h[x] + H(s \ {x}) /\ H(s) \in Nat
    BY <2>1, <2>2, SumTake
  <2>6. /\ F(s \ {x}) \in Nat /\ H(s \ {x}) \in Nat
        /\ G(s \ {x}) = F(s \ {x}) + k * H(s \ {x})
    BY <1>2
  <2>7. f[x] \in Nat /\ h[x] \in Nat /\ g[x] = f[x] + k * h[x]
    OBVIOUS
  <2> HIDE DEF F, G, H
  <2>8. G(s) = F(s) + k * H(s)
    BY <2>3, <2>4, <2>5, <2>6, <2>7, SMTT(60)
  <2> QED BY <2>3, <2>5, <2>8
<1> HIDE DEF U
<1>3. S \in U
  BY <1>1, <1>2, SetInd
<1> QED BY <1>3 DEF U

\* Where k times a function is nowhere more than k above another, its sum is at
\* most k above for every element.
LEMMA SumRounded ==
  ASSUME NEW S, IsFiniteSet(S), NEW k \in Nat, NEW f, NEW g,
         \A y \in S : f[y] \in Nat /\ g[y] \in Nat /\ k * f[y] <= g[y] + k
  PROVE  k * SumFunctionOnSet(f, S) <= SumFunctionOnSet(g, S) + k * Cardinality(S)
<1> DEFINE F(s) == SumFunctionOnSet(f, s)
           G(s) == SumFunctionOnSet(g, s)
           U == {s \in SUBSET S : F(s) \in Nat /\ G(s) \in Nat
                                  /\ k * F(s) <= G(s) + k * Cardinality(s)}
<1>1. {} \in U
  <2>1. F({}) = 0 /\ G({}) = 0 /\ Cardinality({}) = 0
    BY SumEmpty, FS_EmptySet
  <2>2. 0 \in Nat /\ k * 0 <= 0 + k * 0
    BY SMTT(60)
  <2> QED BY <2>1, <2>2
<1>2. ASSUME NEW s \in SUBSET S, NEW x \in s, s \ {x} \in U PROVE s \in U
  <2>1. IsFiniteSet(s) /\ IsFiniteSet(s \ {x})
    BY FS_Subset, FS_RemoveElement
  <2>2. \A y \in s : f[y] \in Nat /\ g[y] \in Nat
    OBVIOUS
  <2>3. F(s) = f[x] + F(s \ {x}) /\ F(s) \in Nat
    BY <2>1, <2>2, SumTake
  <2>4. G(s) = g[x] + G(s \ {x}) /\ G(s) \in Nat
    BY <2>1, <2>2, SumTake
  <2>5. Cardinality(s \ {x}) = Cardinality(s) - 1
    BY <2>1, FS_RemoveElement
  <2>6. Cardinality(s) \in Nat /\ Cardinality(s \ {x}) \in Nat
    BY <2>1, FS_CardinalityType
  <2>7. /\ F(s \ {x}) \in Nat /\ G(s \ {x}) \in Nat
        /\ k * F(s \ {x}) <= G(s \ {x}) + k * Cardinality(s \ {x})
    BY <1>2
  <2>8. f[x] \in Nat /\ g[x] \in Nat /\ k * f[x] <= g[x] + k
    OBVIOUS
  <2> DEFINE n == Cardinality(s)
             m == Cardinality(s \ {x})
  <2> HIDE DEF F, G, n, m
  <2>9. k * F(s) <= G(s) + k * n
    BY <2>3, <2>4, <2>5, <2>6, <2>7, <2>8, SMTT(60) DEF n, m
  <2> QED BY <2>3, <2>4, <2>9 DEF n
<1> HIDE DEF U
<1>3. S \in U
  BY <1>1, <1>2, SetInd
<1> QED BY <1>3 DEF U

----------------------------------------------------------------------------
(* Functions defined one step at a time.                                   *)

\* n steps that stay in V.
AreSteps(G, n, V) == n \in Nat /\ G \in [1 .. n -> [V -> V]]

\* f has what comes of base after each step.
Follows(f, base, G, n, V) ==
  f \in [0 .. n -> V] /\ f[0] = base /\ \A k \in 1 .. n : f[k] = G[k][f[k - 1]]

\* There is one.
LEMMA StepsExist ==
  ASSUME NEW V, NEW base \in V, NEW n, NEW G, AreSteps(G, n, V)
  PROVE  \E f : Follows(f, base, G, n, V)
<1> USE DEF AreSteps
<1> DEFINE Goes(f, m) == f[0] = base /\ \A k \in 1 .. m : f[k] = G[k][f[k - 1]]
           T == {m \in Nat : m <= n => \E f \in [0 .. m -> V] : Goes(f, m)}
<1>1. 0 \in T
  <2> DEFINE f == [i \in 0 .. 0 |-> base]
  <2>1. f \in [0 .. 0 -> V] /\ 0 \in 0 .. 0 /\ 1 .. 0 = {}
    BY SMTT(60)
  <2>2. Goes(f, 0)
    BY <2>1
  <2> QED BY <2>1, <2>2
<1>2. ASSUME NEW m \in Nat, m \in T PROVE m + 1 \in T
  <2> SUFFICES ASSUME m + 1 <= n PROVE \E f \in [0 .. m + 1 -> V] : Goes(f, m + 1)
    BY SMTT(60)
  <2>1. m <= n /\ m + 1 \in 1 .. n /\ m \in 0 .. m /\ (m + 1) - 1 = m
    BY SMTT(60)
  <2>2. PICK f \in [0 .. m -> V] : Goes(f, m)
    BY <1>2, <2>1
  <2>3. G[m + 1][f[m]] \in V
    BY <2>1
  <2> DEFINE g == [i \in 0 .. m + 1 |-> IF i = m + 1 THEN G[m + 1][f[m]] ELSE f[i]]
  <2>4. \A i \in 0 .. m + 1 : i # m + 1 => i \in 0 .. m
    BY SMTT(60)
  <2>5. g \in [0 .. m + 1 -> V]
    BY <2>3, <2>4
  <2>6. \A i \in 0 .. m : i \in 0 .. m + 1 /\ i # m + 1
    BY SMTT(60)
  <2>7. (\A i \in 0 .. m : g[i] = f[i]) /\ g[m + 1] = G[m + 1][f[m]]
    <3>1. m + 1 \in 0 .. m + 1
      BY SMTT(60)
    <3> QED BY <2>6, <3>1
  <2> HIDE DEF g
  <2>8. g[0] = base
    <3>1. 0 \in 0 .. m
      BY SMTT(60)
    <3> QED BY <2>2, <2>7, <3>1
  <2>9. ASSUME NEW k \in 1 .. m + 1 PROVE g[k] = G[k][g[k - 1]]
    <3>1. CASE k = m + 1
      BY <3>1, <2>1, <2>7
    <3>2. CASE k # m + 1
      <4>1. k \in 1 .. m /\ k \in 0 .. m /\ k - 1 \in 0 .. m
        BY <3>2, SMTT(60)
      <4> QED BY <4>1, <2>2, <2>7
    <3> QED BY <3>1, <3>2
  <2> QED BY <2>5, <2>8, <2>9
<1> HIDE DEF T
<1>3. n \in T
  BY <1>1, <1>2, NatInd
<1>4. n <= n
  BY SMTT(60)
<1> QED BY <1>3, <1>4 DEF T, Follows

----------------------------------------------------------------------------
(* Sorting.                                                                *)

\* p lists the m elements of D in the order of f.
Sorts(p, f, m, D) ==
    /\ p \in [1 .. m -> D]
    /\ \A i, j \in 1 .. m : i < j => f[p[i]] < f[p[j]]

\* A set of indices with different values can be put in the order of the values.
LEMMA SortExists ==
    ASSUME NEW n \in Nat, NEW f \in [1 .. n -> Nat],
           \A i, j \in 1 .. n : i # j => f[i] # f[j]
    PROVE  \E p : Sorts(p, f, n, 1 .. n)
<1> DEFINE T == {m \in Nat : \A D \in SUBSET (1 .. n) :
                   Cardinality(D) = m => \E p : Sorts(p, f, m, D)}
<1>1. IsFiniteSet(1 .. n) /\ Cardinality(1 .. n) = n
    <2>1. 1 \in Int /\ n \in Int /\ (1 > n => n = 0) /\ n - 1 + 1 = n
        BY SMTT(60)
    <2> QED
        BY <2>1, FS_Interval, SMTT(60)
<1>2. \A D \in SUBSET (1 .. n) : IsFiniteSet(D)
    BY <1>1, FS_Subset
<1>3. 0 \in T
    <2>1. ASSUME NEW D \in SUBSET (1 .. n)
          PROVE  \E p : Sorts(p, f, 0, D)
        <3>1. \A i \in 1 .. 0 : FALSE
            BY SMTT(60)
        <3>2. Sorts([i \in 1 .. 0 |-> i], f, 0, D)
            BY <3>1 DEF Sorts
        <3> QED
            BY <3>2
    <2> QED
        BY <2>1, SMTT(60)
<1>4. ASSUME NEW m \in Nat, m \in T
      PROVE  m + 1 \in T
    <2>1. ASSUME NEW D \in SUBSET (1 .. n), Cardinality(D) = m + 1
          PROVE  \E p : Sorts(p, f, m + 1, D)
        <3> DEFINE V == {f[x] : x \in D}
        <3>1. D # {}
            <4>1. m + 1 # 0
                BY SMTT(60)
            <4> QED
                BY <2>1, <4>1, FS_EmptySet
        <3>2. V \in SUBSET Nat /\ V # {}
            BY <3>1
        <3>3. PICK v \in V : \A y \in V : ~(y < v)
            BY <3>2, NatMin
        <3>4. PICK d \in D : f[d] = v
            OBVIOUS
        <3>5. \A x \in D \ {d} : f[d] < f[x]
            <4>1. ASSUME NEW x \in D \ {d} PROVE f[d] < f[x]
                <5>1. f[x] # f[d] /\ f[x] \in Nat /\ f[d] \in Nat /\ ~(f[x] < f[d])
                    BY <3>3, <3>4
                <5> QED
                    BY <5>1, SMTT(60)
            <4> QED
                BY <4>1
        <3>6. Cardinality(D \ {d}) = m
            <4>1. Cardinality(D \ {d}) = (m + 1) - 1
                BY <1>2, <2>1, FS_RemoveElement
            <4> QED
                BY <4>1, SMTT(60)
        <3>7. PICK q : Sorts(q, f, m, D \ {d})
            BY <1>4, <3>6
        <3> DEFINE p == [i \in 1 .. m + 1 |-> IF i = 1 THEN d ELSE q[i - 1]]
        <3>8. \A i \in 1 .. m + 1 : i # 1 => i - 1 \in 1 .. m
            BY SMTT(60)
        <3>9. q \in [1 .. m -> D \ {d}] /\ \A i, j \in 1 .. m : i < j => f[q[i]] < f[q[j]]
            BY <3>7 DEF Sorts
        <3>10. p \in [1 .. m + 1 -> D]
            BY <3>8, <3>9
        <3>11. ASSUME NEW i \in 1 .. m + 1, NEW j \in 1 .. m + 1, i < j
               PROVE  f[p[i]] < f[p[j]]
            <4>1. j # 1 /\ (i # 1 => i - 1 < j - 1)
                BY <3>11, SMTT(60)
            <4>2. p[j] = q[j - 1] /\ q[j - 1] \in D \ {d}
                BY <4>1, <3>8, <3>9
            <4>3. CASE i = 1
                BY <4>2, <4>3, <3>5
            <4>4. CASE i # 1
                <5>1. p[i] = q[i - 1]
                    BY <4>4
                <5>2. f[q[i - 1]] < f[q[j - 1]]
                    BY <3>8, <3>9, <4>1, <4>4
                <5> QED
                    BY <4>2, <5>1, <5>2
            <4> QED
                BY <4>3, <4>4
        <3> HIDE DEF p
        <3>12. Sorts(p, f, m + 1, D)
            BY <3>10, <3>11 DEF Sorts
        <3> QED
            BY <3>12
    <2> QED
        BY <2>1, SMTT(60)
<1> HIDE DEF T
<1>5. n \in T
    BY <1>3, <1>4, NatInd
<1> QED
    BY <1>1, <1>5 DEF T

\* A function from indices to indices that takes none twice takes every one.
LEMMA Onto ==
    ASSUME NEW n \in Nat, NEW p \in [1 .. n -> 1 .. n],
           \A i, j \in 1 .. n : p[i] = p[j] => i = j
    PROVE  \A k \in 1 .. n : \E i \in 1 .. n : p[i] = k
<1>1. p \in Injection(1 .. n, 1 .. n)
    BY DEF Injection, IsInjective
<1>2. IsFiniteSet(1 .. n)
    BY FS_Interval, SMTT(60)
<1>3. p \in Surjection(1 .. n, 1 .. n)
    BY <1>1, <1>2, FS_Injection
<1> QED
    BY <1>3 DEF Surjection

----------------------------------------------------------------------------
(* Remainders.                                                             *)

\* A remainder is determined.
LEMMA Remainder ==
    ASSUME NEW a \in Int, NEW b \in Int, NEW q \in Int, NEW t \in Nat \ {0},
           a = q * t + b, 0 <= b, b < t
    PROVE  a % t = b
BY SMTT(60)

\* A number is its quotient times the divisor and its remainder.
LEMMA Quotient ==
    ASSUME NEW a \in Int, NEW t \in Nat \ {0}
    PROVE  /\ a \div t \in Int /\ a % t \in Int /\ 0 <= a % t /\ a % t < t
           /\ a = (a \div t) * t + (a % t)
BY SMTT(60)

\* Going h back and then h on, modulo t, is staying.
LEMMA BackAndOn ==
    ASSUME NEW t \in Nat \ {0}, NEW h \in Nat, NEW s \in 0 .. t - 1
    PROVE  (s - h) % t \in 0 .. t - 1 /\ (h + ((s - h) % t)) % t = s
<1> DEFINE q == (s - h) \div t
           r == (s - h) % t
<1>1. s - h \in Int /\ s \in Int /\ 0 <= s /\ s < t /\ t \in Int
    BY SMTT(60)
<1>2. q \in Int /\ r \in Int /\ 0 <= r /\ r < t /\ s - h = q * t + r
    BY <1>1, Quotient
<1> HIDE DEF q, r
<1>3. h + r \in Int /\ -q \in Int
    BY <1>2, SMTT(60)
<1>4. PICK m \in Int : m = q * t
    BY <1>1, <1>2, SMTT(60)
<1>5. (-q) * t = -m
    BY <1>1, <1>2, <1>4, SMTT(60)
<1>6. h + r = -m + s
    BY <1>1, <1>2, <1>4, SMTT(60)
<1>7. h + r = (-q) * t + s
    BY <1>5, <1>6
<1>8. (h + r) % t = s
    BY <1>1, <1>3, <1>7, Remainder
<1>9. r \in 0 .. t - 1
    BY <1>1, <1>2, SMTT(60)
<1> QED
    BY <1>8, <1>9 DEF r

\* Going h on and then h back, modulo t, is staying.
LEMMA OnAndBack ==
    ASSUME NEW t \in Nat \ {0}, NEW h \in Nat, NEW r \in 0 .. t - 1
    PROVE  (((h + r) % t) - h) % t = r
<1> DEFINE q == (h + r) \div t
           s == (h + r) % t
<1>1. h + r \in Int /\ r \in Int /\ 0 <= r /\ r < t /\ t \in Int
    BY SMTT(60)
<1>2. q \in Int /\ s \in Int /\ h + r = q * t + s
    BY <1>1, Quotient
<1> HIDE DEF q, s
<1>3. s - h \in Int /\ -q \in Int
    BY <1>2, SMTT(60)
<1>4. PICK m \in Int : m = q * t
    BY <1>1, <1>2, SMTT(60)
<1>5. (-q) * t = -m
    BY <1>1, <1>2, <1>4, SMTT(60)
<1>6. s - h = -m + r
    BY <1>1, <1>2, <1>4, SMTT(60)
<1>7. s - h = (-q) * t + r
    BY <1>5, <1>6
<1>8. (s - h) % t = r
    BY <1>1, <1>3, <1>7, Remainder
<1> QED
    BY <1>8 DEF s

\* The numbers r below t for which h + r, modulo t, is in a stretch of 0 .. t - 1.
InStretch(t, h, lo, hi) == {r \in 0 .. t - 1 : (h + r) % t \in lo .. hi - 1}

\* It is a stretch of 0 .. t - 1, and not empty.
IsStretch(t, h, lo, hi) ==
    t \in Nat \ {0} /\ h \in Nat /\ lo \in Nat /\ hi \in Nat /\ lo < hi /\ hi <= t

\* Of t numbers in a row from any h on, a stretch gets as many as it is long.
LEMMA SlotsOfStretch ==
    ASSUME NEW t, NEW h, NEW lo, NEW hi, IsStretch(t, h, lo, hi)
    PROVE  Cardinality(InStretch(t, h, lo, hi)) = hi - lo
<1> DEFINE Q == {r \in 0 .. t - 1 : (h + r) % t \in lo .. hi - 1}
           D == lo .. hi - 1
           f == [s \in D |-> (s - h) % t]
<1> USE DEF IsStretch
<1>1. \A s \in D : s \in 0 .. t - 1
    BY SMTT(60)
<1>2. \A s \in D : f[s] \in 0 .. t - 1 /\ (h + f[s]) % t = s
    BY <1>1, BackAndOn
<1>3. f \in [D -> Q]
    BY <1>2
<1>4. \A a, b \in D : f[a] = f[b] => a = b
    <2>1. ASSUME NEW a \in D, NEW b \in D, f[a] = f[b]
          PROVE  a = b
        <3>1. (h + f[a]) % t = a /\ (h + f[b]) % t = b
            BY <1>2
        <3> HIDE DEF f
        <3> QED
            BY <2>1, <3>1
    <2> QED
        BY <2>1
<1>5. \A r \in Q : \E s \in D : f[s] = r
    <2>1. ASSUME NEW r \in Q
          PROVE  \E s \in D : f[s] = r
        <3>1. r \in 0 .. t - 1 /\ (h + r) % t \in D
            OBVIOUS
        <3>2. f[(h + r) % t] = r
            BY <3>1, OnAndBack
        <3> QED
            BY <3>1, <3>2
    <2> QED
        BY <2>1
<1> HIDE DEF f, Q
<1>6. f \in Bijection(D, Q)
    BY <1>3, <1>4, <1>5 DEF Bijection, Injection, Surjection, IsInjective
<1>7. ExistsBijection(D, Q)
    BY <1>6 DEF ExistsBijection
<1>8. IsFiniteSet(D) /\ Cardinality(D) = hi - lo
    <2>1. lo \in Int /\ hi - 1 \in Int /\ ~(lo > hi - 1) /\ (hi - 1) - lo + 1 = hi - lo
        BY SMTT(60)
    <2>2. IsFiniteSet(lo .. hi - 1)
          /\ Cardinality(lo .. hi - 1) = IF lo > hi - 1 THEN 0 ELSE (hi - 1) - lo + 1
        BY <2>1, FS_Interval
    <2> QED
        BY <2>1, <2>2
<1> HIDE DEF D
<1>9. Cardinality(Q) = hi - lo
    BY <1>7, <1>8, FS_Bijection
<1> QED
    BY <1>9 DEF Q, InStretch
=============================================================================
