------------------------- MODULE ArithmeticTheorems -------------------------
(***************************************************************************)
(* What loads, energies and counts are made of: sums of a function's       *)
(* values over a finite set (SumFunctionOnSet), the greatest of a set, and *)
(* products.  The induction is over sets of subsets and takes no operator  *)
(* as a parameter: a smallest subset that is wrong exists, and is not.     *)
(***************************************************************************)
EXTENDS FiniteSetsExt, Sequences, FiniteSetTheorems, WellFoundedInduction, TLAPS

(* A set of subsets of a finite set has a smallest member. *)
LEMMA SmallestSet ==
  ASSUME NEW S, IsFiniteSet(S), NEW T, T \subseteq SUBSET S, T # {}
  PROVE  \E s \in T : \A t \in T : t \subseteq s => t = s
<1>1. T \subseteq FiniteSubsetsOf(S)
  BY FS_FiniteSubsetsOfFinite
<1>2. PICK s \in T : \A t \in T : ~ (<<t, s>> \in StrictSubsetOrdering(S))
  BY <1>1, FS_StrictSubsetOrderingWellFounded, WFMin
<1> QED BY <1>2 DEF StrictSubsetOrdering

(* What holds of the empty set, and of a set as soon as it holds without one of its members, holds. *)
LEMMA SetsOneByOne ==
  ASSUME NEW S, IsFiniteSet(S), NEW F, {} \in F,
         \A s \in SUBSET S : (s # {} /\ \A x \in s : s \ {x} \in F) => s \in F
  PROVE  S \in F
<1> SUFFICES ASSUME S \notin F PROVE FALSE
  OBVIOUS
<1> DEFINE T == {s \in SUBSET S : s \notin F}
<1>1. T \subseteq SUBSET S /\ T # {}
  OBVIOUS
<1>2. PICK s \in T : \A t \in T : t \subseteq s => t = s
  <2> HIDE DEF T
  <2> QED BY <1>1, SmallestSet
<1>3. \A x \in s : s \ {x} \in F
  BY <1>2
<1> QED BY <1>2, <1>3

(* The sum of the values from some member on, by the order the library adds them in. *)
First(s) == CHOOSE x \in s : TRUE
SumsUpTo(it, f, S) ==
  it = [s \in SUBSET S |-> IF s = {} THEN 0 ELSE f[First(s)] + it[s \ {First(s)}]]

(* The library's sum is such a function, chosen. *)
LEMMA SumIsChosen ==
  ASSUME NEW f, NEW S
  PROVE  SumFunctionOnSet(f, S) = (CHOOSE it : SumsUpTo(it, f, S))[S]
BY DEF SumFunctionOnSet, FoldFunctionOnSet, MapThenFoldSet, SumsUpTo, First

(* The first of a set that has members is one of them. *)
LEMMA FirstIsMember == ASSUME NEW s, s # {} PROVE First(s) \in s
BY DEF First

(* Two such orders agree where both are defined. *)
LEMMA SumsAgree ==
  ASSUME NEW f, NEW S, IsFiniteSet(S), NEW T \in SUBSET S, NEW p, NEW q, SumsUpTo(p, f, S), SumsUpTo(q, f, T)
  PROVE  p[T] = q[T]
<1> DEFINE F == {s \in SUBSET T : p[s] = q[s]}
<1>1. {} \in F
  BY DEF SumsUpTo
<1>2. ASSUME NEW s \in SUBSET T, s # {}, \A x \in s : s \ {x} \in F PROVE s \in F
  <2>1. s \ {First(s)} \in F
    BY <1>2, FirstIsMember
  <2>2. s \in SUBSET S
    OBVIOUS
  <2>3. p[s] = f[First(s)] + p[s \ {First(s)}]
    BY <1>2, <2>2 DEF SumsUpTo
  <2>4. q[s] = f[First(s)] + q[s \ {First(s)}]
    BY <1>2 DEF SumsUpTo
  <2> QED BY <2>1, <2>3, <2>4
<1>3. IsFiniteSet(T)
  BY FS_Subset
<1>4. T \in F
  <2> HIDE DEF F
  <2> QED BY <1>1, <1>2, <1>3, SetsOneByOne
<1> QED BY <1>4

(* There is one for every finite set. *)
LEMMA SumsExist ==
  ASSUME NEW f, NEW S, IsFiniteSet(S)
  PROVE  \E it : SumsUpTo(it, f, S)
<1> DEFINE T == {s \in SUBSET S : ~ \E it : SumsUpTo(it, f, s)}
<1> SUFFICES ASSUME T # {} PROVE FALSE
  OBVIOUS
<1>1. PICK s \in T : \A t \in T : t \subseteq s => t = s
  <2>1. T \subseteq SUBSET S
    OBVIOUS
  <2> HIDE DEF T
  <2> QED BY <2>1, SmallestSet
<1> DEFINE G(t) == CHOOSE it : SumsUpTo(it, f, t)
           h == [t \in SUBSET s |-> IF t = {} THEN 0 ELSE f[First(t)] + G(t \ {First(t)})[t \ {First(t)}]]
<1>2. ASSUME NEW t \in SUBSET s, t # s PROVE SumsUpTo(G(t), f, t)
  <2>1. t \notin T /\ t \in SUBSET S
    BY <1>1, <1>2
  <2> QED BY <2>1
<1>3. ASSUME NEW t \in SUBSET s, t # {} PROVE h[t \ {First(t)}] = G(t \ {First(t)})[t \ {First(t)}]
  <2> DEFINE u == t \ {First(t)}
  <2>1. u \in SUBSET s /\ u # s
    BY <1>3, FirstIsMember
  <2>2. SumsUpTo(G(u), f, u)
    <3> HIDE DEF u, G
    <3> QED BY <1>2, <2>1
  <2>3. CASE u = {}
    BY <2>2, <2>3 DEF SumsUpTo
  <2>4. CASE u # {}
    <3> DEFINE v == u \ {First(u)}
    <3>1. v \in SUBSET u /\ v \in SUBSET s /\ v # s /\ u \in SUBSET u
      BY <2>1
    <3>2. SumsUpTo(G(v), f, v)
      <4> HIDE DEF v, G
      <4> QED BY <1>2, <3>1
    <3>3. IsFiniteSet(u)
      <4>1. u \in SUBSET S
        BY <1>1, <2>1
      <4> QED BY <4>1, FS_Subset
    <3>4. G(u)[v] = G(v)[v]
      <4> HIDE DEF u, v, G
      <4> QED BY <2>2, <3>1, <3>2, <3>3, SumsAgree
    <3>5. G(u)[u] = f[First(u)] + G(u)[v]
      <4> HIDE DEF G
      <4> QED BY <2>2, <2>4, <3>1 DEF SumsUpTo
    <3>6. h[u] = f[First(u)] + G(v)[v]
      <4> HIDE DEF G
      <4> QED BY <2>1, <2>4
    <3> QED BY <3>4, <3>5, <3>6
  <2> QED BY <2>3, <2>4
<1>4. SumsUpTo(h, f, s)
  <2>1. ASSUME NEW t \in SUBSET s
        PROVE  h[t] = IF t = {} THEN 0 ELSE f[First(t)] + h[t \ {First(t)}]
    <3>1. CASE t = {}
      BY <3>1
    <3>2. CASE t # {}
      <4>1. h[t] = f[First(t)] + G(t \ {First(t)})[t \ {First(t)}]
        BY <3>2
      <4> HIDE DEF h, G
      <4> QED BY <1>3, <3>2, <4>1
    <3> QED BY <3>1, <3>2
  <2>2. h = [t \in SUBSET s |-> h[t]]
    OBVIOUS
  <2> HIDE DEF h
  <2> QED BY <2>1, <2>2 DEF SumsUpTo
<1> QED BY <1>1, <1>4

-----------------------------------------------------------------------------
(* The sum over nothing. *)
LEMMA SumOfNone == ASSUME NEW f PROVE SumFunctionOnSet(f, {}) = 0
<1>1. IsFiniteSet({})
  BY FS_EmptySet
<1> DEFINE it == CHOOSE p : SumsUpTo(p, f, {})
<1>2. SumsUpTo(it, f, {})
  BY <1>1, SumsExist
<1>3. it[{}] = 0
  <2> HIDE DEF it
  <2> QED BY <1>2 DEF SumsUpTo
<1> QED BY <1>3, SumIsChosen

(* The sum over a set is one member's value and the rest's sum. *)
LEMMA SumUnfolds ==
  ASSUME NEW f, NEW S, IsFiniteSet(S), S # {}
  PROVE  SumFunctionOnSet(f, S) = f[First(S)] + SumFunctionOnSet(f, S \ {First(S)})
<1> DEFINE R == S \ {First(S)}
           p == CHOOSE it : SumsUpTo(it, f, S)
           q == CHOOSE it : SumsUpTo(it, f, R)
<1>1. R \in SUBSET S /\ IsFiniteSet(R)
  BY FS_Subset
<1>2. SumsUpTo(p, f, S)
  BY SumsExist
<1>3. SumsUpTo(q, f, R)
  <2> HIDE DEF R
  <2> QED BY <1>1, SumsExist
<1>4. p[R] = q[R]
  <2> HIDE DEF p, q, R
  <2> QED BY <1>1, <1>2, <1>3, SumsAgree
<1>5. p[S] = f[First(S)] + p[R]
  <2> HIDE DEF p
  <2> QED BY <1>2 DEF SumsUpTo
<1>6. SumFunctionOnSet(f, S) = p[S] /\ SumFunctionOnSet(f, R) = q[R]
  <2> HIDE DEF R
  <2> QED BY SumIsChosen
<1> QED BY <1>4, <1>5, <1>6

(* A sum of integers is one. *)
LEMMA SumIsInt ==
  ASSUME NEW f, NEW S, IsFiniteSet(S), \A x \in S : f[x] \in Int
  PROVE  SumFunctionOnSet(f, S) \in Int
<1> DEFINE F == {s \in SUBSET S : SumFunctionOnSet(f, s) \in Int}
<1>1. {} \in F
  BY SumOfNone
<1>2. ASSUME NEW s \in SUBSET S, s # {}, \A x \in s : s \ {x} \in F PROVE s \in F
  <2>1. IsFiniteSet(s) /\ First(s) \in s
    BY <1>2, FS_Subset, FirstIsMember
  <2>2. SumFunctionOnSet(f, s \ {First(s)}) \in Int /\ f[First(s)] \in Int
    BY <1>2, <2>1
  <2> QED BY <1>2, <2>1, <2>2, SumUnfolds
<1>3. S \in F
  <2> HIDE DEF F
  <2> QED BY <1>1, <1>2, SetsOneByOne
<1> QED BY <1>3

(* Any member can be taken out of a sum. *)
LEMMA SumTakesOut ==
  ASSUME NEW f, NEW S, IsFiniteSet(S), \A x \in S : f[x] \in Int, NEW a \in S
  PROVE  SumFunctionOnSet(f, S) = f[a] + SumFunctionOnSet(f, S \ {a})
<1> DEFINE F == {s \in SUBSET S : \A b \in s : SumFunctionOnSet(f, s) = f[b] + SumFunctionOnSet(f, s \ {b})}
<1>1. {} \in F
  OBVIOUS
<1>2. ASSUME NEW s \in SUBSET S, s # {}, \A x \in s : s \ {x} \in F PROVE s \in F
  <2> DEFINE c == First(s)
  <2>1. IsFiniteSet(s) /\ c \in s /\ \A r \in SUBSET s : IsFiniteSet(r) /\ SumFunctionOnSet(f, r) \in Int
    <3>1. IsFiniteSet(s) /\ c \in s
      BY <1>2, FS_Subset, FirstIsMember
    <3>2. ASSUME NEW r \in SUBSET s PROVE IsFiniteSet(r) /\ SumFunctionOnSet(f, r) \in Int
      BY <3>1, FS_Subset, SumIsInt
    <3> QED BY <3>1, <3>2
  <2>2. SumFunctionOnSet(f, s) = f[c] + SumFunctionOnSet(f, s \ {c})
    BY <1>2, <2>1, SumUnfolds
  <2>3. ASSUME NEW b \in s PROVE SumFunctionOnSet(f, s) = f[b] + SumFunctionOnSet(f, s \ {b})
    <3> HIDE DEF c
    <3>1. CASE b = c
      BY <2>2, <3>1
    <3>2. CASE b # c
      <4>1. s \ {c} \in F /\ s \ {b} \in F
        BY <1>2, <2>1
      <4>2. SumFunctionOnSet(f, s \ {c}) = f[b] + SumFunctionOnSet(f, (s \ {c}) \ {b})
        BY <3>2, <4>1
      <4>3. SumFunctionOnSet(f, s \ {b}) = f[c] + SumFunctionOnSet(f, (s \ {b}) \ {c})
        BY <2>1, <3>2, <4>1
      <4>4. (s \ {c}) \ {b} = (s \ {b}) \ {c}
        OBVIOUS
      <4>5. PICK r \in Int : r = SumFunctionOnSet(f, (s \ {b}) \ {c})
        BY <2>1
      <4>6. f[b] \in Int /\ f[c] \in Int
        BY <2>1
      <4>7. SumFunctionOnSet(f, s) = f[c] + (f[b] + r)
        BY <2>2, <4>2, <4>4, <4>5, Zenon
      <4>8. f[b] + SumFunctionOnSet(f, s \ {b}) = f[b] + (f[c] + r)
        BY <4>3, <4>5, Zenon
      <4>9. f[c] + (f[b] + r) = f[b] + (f[c] + r)
        <5> HIDE <4>5
        <5> QED BY <4>6
      <4> QED BY <4>7, <4>8, <4>9, Zenon
    <3> QED BY <3>1, <3>2
  <2> QED BY <2>3
<1>3. S \in F
  <2> HIDE DEF F
  <2> QED BY <1>1, <1>2, SetsOneByOne
<1> QED BY <1>3

(* What is more everywhere adds up to more, or as much. *)
LEMMA SumIsMonotone ==
  ASSUME NEW f, NEW g, NEW S, IsFiniteSet(S), \A x \in S : f[x] \in Int /\ g[x] \in Int /\ f[x] <= g[x]
  PROVE  SumFunctionOnSet(f, S) <= SumFunctionOnSet(g, S)
<1> DEFINE F == {s \in SUBSET S : SumFunctionOnSet(f, s) <= SumFunctionOnSet(g, s)}
<1>1. {} \in F
  BY SumOfNone
<1>2. ASSUME NEW s \in SUBSET S, s # {}, \A x \in s : s \ {x} \in F PROVE s \in F
  <2>1. PICK c \in s : TRUE
    BY <1>2
  <2>2. IsFiniteSet(s) /\ IsFiniteSet(s \ {c})
    BY FS_Subset
  <2>3. SumFunctionOnSet(f, s) = f[c] + SumFunctionOnSet(f, s \ {c})
    BY <2>1, <2>2, SumTakesOut
  <2>4. SumFunctionOnSet(g, s) = g[c] + SumFunctionOnSet(g, s \ {c})
    BY <2>1, <2>2, SumTakesOut
  <2>5. SumFunctionOnSet(f, s \ {c}) \in Int /\ SumFunctionOnSet(g, s \ {c}) \in Int
    BY <2>2, SumIsInt
  <2>6. SumFunctionOnSet(f, s \ {c}) <= SumFunctionOnSet(g, s \ {c})
    BY <1>2, <2>1
  <2>7. f[c] \in Int /\ g[c] \in Int /\ f[c] <= g[c]
    BY <2>1
  <2> QED BY <2>3, <2>4, <2>5, <2>6, <2>7
<1>3. S \in F
  <2> HIDE DEF F
  <2> QED BY <1>1, <1>2, SetsOneByOne
<1> QED BY <1>3

(* Values that agree have one sum. *)
LEMMA SumDependsOnValues ==
  ASSUME NEW f, NEW g, NEW S, IsFiniteSet(S), \A x \in S : f[x] \in Int /\ f[x] = g[x]
  PROVE  SumFunctionOnSet(f, S) = SumFunctionOnSet(g, S)
<1>1. SumFunctionOnSet(f, S) \in Int /\ SumFunctionOnSet(g, S) \in Int
  BY SumIsInt
<1>2. SumFunctionOnSet(f, S) <= SumFunctionOnSet(g, S) /\ SumFunctionOnSet(g, S) <= SumFunctionOnSet(f, S)
  <2>1. \A x \in S : f[x] \in Int /\ g[x] \in Int /\ f[x] <= g[x] /\ g[x] <= f[x]
    OBVIOUS
  <2> QED BY <2>1, SumIsMonotone
<1> QED BY <1>1, <1>2

(* A sum of zeros. *)
LEMMA SumOfZeros ==
  ASSUME NEW f, NEW S, IsFiniteSet(S), \A x \in S : f[x] = 0
  PROVE  SumFunctionOnSet(f, S) = 0
<1> DEFINE F == {s \in SUBSET S : SumFunctionOnSet(f, s) = 0}
<1>1. {} \in F
  BY SumOfNone
<1>2. ASSUME NEW s \in SUBSET S, s # {}, \A x \in s : s \ {x} \in F PROVE s \in F
  <2>1. IsFiniteSet(s) /\ First(s) \in s
    BY <1>2, FS_Subset, FirstIsMember
  <2>2. SumFunctionOnSet(f, s) = f[First(s)] + SumFunctionOnSet(f, s \ {First(s)})
    BY <1>2, <2>1, SumUnfolds
  <2>3. f[First(s)] = 0 /\ SumFunctionOnSet(f, s \ {First(s)}) = 0
    BY <1>2, <2>1
  <2> QED BY <2>2, <2>3
<1>3. S \in F
  <2> HIDE DEF F
  <2> QED BY <1>1, <1>2, SetsOneByOne
<1> QED BY <1>3

(* A sum of numbers that are not negative is not, and no part of it is more than the whole. *)
LEMMA SumOfNaturals ==
  ASSUME NEW f, NEW S, IsFiniteSet(S), \A x \in S : f[x] \in Nat
  PROVE  /\ SumFunctionOnSet(f, S) \in Nat
         /\ \A a \in S : f[a] <= SumFunctionOnSet(f, S)
<1> DEFINE zero == [x \in S |-> 0]
<1>1. SumFunctionOnSet(zero, S) = 0
  BY SumOfZeros
<1>2. ASSUME NEW R \in SUBSET S PROVE SumFunctionOnSet(f, R) \in Nat
  <2>1. IsFiniteSet(R)
    BY FS_Subset
  <2>2. SumFunctionOnSet(zero, R) = 0
    BY <2>1, SumOfZeros
  <2>3. SumFunctionOnSet(zero, R) <= SumFunctionOnSet(f, R)
    <3>1. \A x \in R : zero[x] \in Int /\ f[x] \in Int /\ zero[x] <= f[x]
      OBVIOUS
    <3> HIDE DEF zero
    <3> QED BY <2>1, <3>1, SumIsMonotone
  <2>4. SumFunctionOnSet(f, R) \in Int
    BY <2>1, SumIsInt
  <2> QED BY <2>2, <2>3, <2>4
<1>3. ASSUME NEW a \in S PROVE f[a] <= SumFunctionOnSet(f, S)
  <2>1. SumFunctionOnSet(f, S) = f[a] + SumFunctionOnSet(f, S \ {a})
    BY SumTakesOut
  <2>2. SumFunctionOnSet(f, S \ {a}) \in Nat /\ f[a] \in Nat
    BY <1>2
  <2> QED BY <2>1, <2>2
<1> QED BY <1>2, <1>3

-----------------------------------------------------------------------------
(* Every set of natural numbers but the empty one has a least. *)
LEMMA LeastNumber ==
  ASSUME NEW T, T \subseteq Nat, T # {}
  PROVE  \E n \in T : \A m \in T : n <= m
<1>1. PICK n \in T : \A m \in T : ~ (<<m, n>> \in OpToRel(<, Nat))
  BY NatLessThanWellFounded, WFMin
<1>2. ASSUME NEW m \in T PROVE n <= m
  <2>1. m \in Nat /\ n \in Nat
    OBVIOUS
  <2>2. ~ (m < n)
    BY <1>1, <2>1 DEF OpToRel
  <2> QED BY <2>1, <2>2
<1> QED BY <1>2

(* A finite set of integers has a greatest member, and Max is it. *)
LEMMA MaxIsGreatest ==
  ASSUME NEW S, IsFiniteSet(S), S \subseteq Int, S # {}
  PROVE  Max(S) \in S /\ \A x \in S : x <= Max(S)
<1> DEFINE F == {s \in SUBSET S : s # {} => \E m \in s : \A x \in s : x <= m}
<1>1. {} \in F
  OBVIOUS
<1>2. ASSUME NEW s \in SUBSET S, s # {}, \A x \in s : s \ {x} \in F PROVE s \in F
  <2>1. PICK c \in s : TRUE
    BY <1>2
  <2>2. CASE s \ {c} = {}
    <3>1. \A x \in s : x <= c
      BY <2>2
    <3> QED BY <3>1
  <2>3. CASE s \ {c} # {}
    <3>1. PICK m \in s \ {c} : \A x \in s \ {c} : x <= m
      BY <1>2, <2>1, <2>3
    <3>2. \A x \in s : x = c \/ x <= m
      BY <3>1
    <3>3. m \in Int /\ c \in Int /\ \A x \in s : x \in Int
      BY <3>1
    <3>4. CASE c <= m
      BY <3>1, <3>2, <3>3, <3>4
    <3>5. CASE m <= c
      <4>1. \A x \in s : x <= c
        BY <3>2, <3>3, <3>5
      <4> QED BY <4>1
    <3> QED BY <3>3, <3>4, <3>5
  <2> QED BY <2>2, <2>3
<1>3. S \in F
  <2> HIDE DEF F
  <2> QED BY <1>1, <1>2, SetsOneByOne
<1>4. \E m \in S : \A x \in S : m >= x
  BY <1>3
<1>5. Max(S) \in S /\ \A x \in S : Max(S) >= x
  BY <1>4 DEF Max
<1> QED BY <1>5

(* The greater of nothing and a number. *)
LEMMA MaxWithZero ==
  ASSUME NEW a \in Int
  PROVE  Max({0, a}) \in Nat /\ Max({0, a}) = IF a > 0 THEN a ELSE 0
<1>1. IsFiniteSet({0, a})
  <2>1. IsFiniteSet({0}) /\ {0, a} = {0} \cup {a}
    BY FS_Singleton
  <2> QED BY <2>1, FS_AddElement
<1>2. Max({0, a}) \in {0, a} /\ \A x \in {0, a} : x <= Max({0, a})
  <2>1. {0, a} \subseteq Int /\ {0, a} # {}
    OBVIOUS
  <2> QED BY <1>1, <2>1, MaxIsGreatest
<1> QED BY <1>2

(* A product of a number that is not negative. *)
LEMMA TimesIsMonotone == \A k, m, n \in Nat : k * m \in Nat /\ (m <= n => k * m <= k * n)
OBVIOUS

(* What a sequence holds at its places is of the set it is a sequence over. *)
LEMMA MembersOfSequence ==
  ASSUME NEW S, NEW s \in Seq(S)
  PROVE  /\ DOMAIN s = 1 .. Len(s) /\ Len(s) \in Nat
         /\ \A k \in DOMAIN s : k \in Nat /\ s[k] \in S
  OBVIOUS

(* The values of a function over a finite set are finitely many. *)
LEMMA ImageIsFinite ==
  ASSUME NEW S, IsFiniteSet(S), NEW f
  PROVE  IsFiniteSet({f[x] : x \in S})
<1> DEFINE T == {f[x] : x \in S}
           g == [x \in S |-> f[x]]
<1>1. g \in Surjection(S, T)
  BY DEF Surjection
<1> QED BY <1>1, FS_Surjection

(* Distinct values are as many as what they are the values of. *)
LEMMA CountByName ==
  ASSUME NEW S, IsFiniteSet(S), NEW f, \A x, y \in S : f[x] = f[y] => x = y
  PROVE  IsFiniteSet({f[x] : x \in S}) /\ Cardinality({f[x] : x \in S}) = Cardinality(S)
<1> DEFINE T == {f[x] : x \in S}
           g == [x \in S |-> f[x]]
<1>1. g \in Bijection(S, T)
  BY DEF Bijection, Injection, Surjection, IsInjective
<1> HIDE DEF g, T
<1>2. ExistsBijection(S, T)
  BY <1>1 DEF ExistsBijection
<1> QED BY <1>2, FS_Bijection DEF T

(* A set is what of it is in a part and what is not. *)
LEMMA CountInParts ==
  ASSUME NEW S, IsFiniteSet(S), NEW A, NEW B, A \cup B = S, A \cap B = {}
  PROVE  /\ IsFiniteSet(A) /\ IsFiniteSet(B)
         /\ Cardinality(A) \in Nat /\ Cardinality(B) \in Nat /\ Cardinality(A) + Cardinality(B) = Cardinality(S)
<1>1. IsFiniteSet(A) /\ IsFiniteSet(B)
  BY FS_Subset
<1>2. Cardinality(A) \in Nat /\ Cardinality(B) \in Nat
  BY <1>1, FS_CardinalityType
<1>3. Cardinality(A \cup B) = Cardinality(A) + Cardinality(B) - Cardinality({})
  BY <1>1, FS_Union
<1> QED BY <1>1, <1>2, <1>3, FS_EmptySet

(* The library's two ways of adding up the values of a function are one. *)
LEMMA SumsAreOne ==
  ASSUME NEW f, NEW S
  PROVE  MapThenSumSet(LAMBDA x : f[x], S) = SumFunctionOnSet(f, S)
BY DEF MapThenSumSet, SumFunctionOnSet, FoldFunctionOnSet, MapThenFoldSet

(* Counted by kind, and the kinds added up, each member is counted once. *)
KindsOf(S, kind) == {kind[x] : x \in S}
OfKind(S, kind, k) == {x \in S : kind[x] = k}
LEMMA CountByKind ==
  ASSUME NEW S, IsFiniteSet(S), NEW kind, NEW K, K = KindsOf(S, kind),
         NEW count, \A k \in K : count[k] = Cardinality(OfKind(S, kind, k))
  PROVE  SumFunctionOnSet(count, K) = Cardinality(S)
<1> USE DEF KindsOf, OfKind
<1> DEFINE Of(T) == {x \in S : kind[x] \in T}
           F == {T \in SUBSET K : SumFunctionOnSet(count, T) = Cardinality(Of(T))}
<1>1. IsFiniteSet(K)
  BY ImageIsFinite
<1>2. {} \in F
  <2>1. Of({}) = {}
    OBVIOUS
  <2> QED BY <2>1, SumOfNone, FS_EmptySet
<1>3. ASSUME NEW T \in SUBSET K, T # {}, \A k \in T : T \ {k} \in F
      PROVE  T \in F
  <2>1. PICK k \in T : TRUE
    BY <1>3
  <2>2. SumFunctionOnSet(count, T \ {k}) = Cardinality(Of(T \ {k}))
    BY <1>3, <2>1
  <2>3. IsFiniteSet(T) /\ \A j \in T : count[j] \in Int
    <3>1. ASSUME NEW j \in K PROVE count[j] \in Int
      <4>1. IsFiniteSet({x \in S : kind[x] = j})
        BY FS_Subset
      <4>2. Cardinality({x \in S : kind[x] = j}) \in Nat
        BY <4>1, FS_CardinalityType
      <4>3. count[j] = Cardinality({x \in S : kind[x] = j})
        BY Zenon
      <4> QED BY <4>2, <4>3
    <3> QED BY <1>1, <3>1, FS_Subset
  <2>4. SumFunctionOnSet(count, T) = count[k] + SumFunctionOnSet(count, T \ {k})
    BY <2>1, <2>3, SumTakesOut
  <2> DEFINE A == {x \in S : kind[x] = k}
             B == Of(T \ {k})
  <2>5. A \cup B = Of(T) /\ A \cap B = {} /\ IsFiniteSet(Of(T))
    <3>1. IsFiniteSet(Of(T))
      BY FS_Subset
    <3>2. A \cup B = Of(T) /\ A \cap B = {}
      BY <2>1
    <3> QED BY <3>1, <3>2
  <2>6. count[k] = Cardinality(A)
    BY <2>1
  <2> HIDE DEF A, B
  <2>7. Cardinality(A) + Cardinality(B) = Cardinality(Of(T))
    BY <2>5, CountInParts
  <2>8. SumFunctionOnSet(count, T) = Cardinality(Of(T))
    BY <2>2, <2>4, <2>6, <2>7 DEF B
  <2> QED BY <2>8
<1> HIDE DEF F
<1>4. K \in F
  BY <1>1, <1>2, <1>3, SetsOneByOne
<1>5. Of(K) = S
  OBVIOUS
<1> QED BY <1>4, <1>5 DEF F

(* In a line, those with fewer than so many before them are so many, where anybody has that many before them. *)
IsLine(R, S) ==
  /\ \A a, b \in S : a # b => <<a, b>> \in R \/ <<b, a>> \in R
  /\ \A a, b, c \in S : <<a, b>> \in R /\ <<b, c>> \in R => <<a, c>> \in R
  /\ \A a \in S : <<a, a>> \notin R
Before(R, S, a) == {b \in S : <<b, a>> \in R}
LEMMA FirstInLine ==
  ASSUME NEW S, IsFiniteSet(S), NEW R, IsLine(R, S), NEW m \in Nat, NEW z \in S, ~(Cardinality(Before(R, S, z)) < m)
  PROVE  Cardinality({a \in S : Cardinality(Before(R, S, a)) < m}) = m
<1> DEFINE rank == [a \in S |-> Cardinality(Before(R, S, a))]
           N == Cardinality(S)
           T == {rank[a] : a \in S}
<1>1. N \in Nat
  BY FS_CardinalityType
<1> HIDE DEF N
<1>13. \A a \in S : rank[a] = Cardinality(Before(R, S, a))
  OBVIOUS
<1> HIDE DEF rank
<1>2. \A a \in S : IsFiniteSet(Before(R, S, a)) /\ rank[a] \in Nat /\ rank[a] < N
  <2> SUFFICES ASSUME NEW a \in S PROVE IsFiniteSet(Before(R, S, a)) /\ rank[a] \in Nat /\ rank[a] < N
    OBVIOUS
  <2>1. Before(R, S, a) \in SUBSET S /\ a \notin Before(R, S, a)
    BY DEF Before, IsLine
  <2>2. /\ IsFiniteSet(Before(R, S, a)) /\ Cardinality(Before(R, S, a)) <= N
        /\ N = Cardinality(Before(R, S, a)) => S = Before(R, S, a)
    BY <2>1, FS_Subset DEF N
  <2>3. Cardinality(Before(R, S, a)) \in Nat
    BY <2>2, FS_CardinalityType
  <2> QED BY <1>1, <1>13, <2>1, <2>2, <2>3
<1>3. \A a, b \in S : <<a, b>> \in R => rank[a] < rank[b]
  <2> SUFFICES ASSUME NEW a \in S, NEW b \in S, <<a, b>> \in R PROVE rank[a] < rank[b]
    OBVIOUS
  <2>1. Before(R, S, a) \in SUBSET Before(R, S, b) /\ a \in Before(R, S, b) /\ a \notin Before(R, S, a)
    BY DEF Before, IsLine
  <2>2. /\ Cardinality(Before(R, S, a)) <= Cardinality(Before(R, S, b))
        /\ Cardinality(Before(R, S, b)) = Cardinality(Before(R, S, a)) => Before(R, S, b) = Before(R, S, a)
    BY <1>2, <2>1, FS_Subset
  <2> QED BY <1>2, <1>13, <2>1, <2>2
<1>4. \A a, b \in S : rank[a] = rank[b] => a = b
  <2> SUFFICES ASSUME NEW a \in S, NEW b \in S, a # b PROVE rank[a] # rank[b]
    OBVIOUS
  <2>1. <<a, b>> \in R \/ <<b, a>> \in R
    BY DEF IsLine
  <2>2. rank[a] \in Nat /\ rank[b] \in Nat /\ (rank[a] < rank[b] \/ rank[b] < rank[a])
    BY <1>2, <1>3, <2>1
  <2> QED BY <2>2
<1>5. IsFiniteSet(T) /\ Cardinality(T) = N
  BY <1>4, CountByName DEF N
<1>6. T = 0 .. N - 1
  <2>1. IsFiniteSet(0 .. N - 1) /\ Cardinality(0 .. N - 1) = N
    BY <1>1, FS_Interval
  <2>2. T \in SUBSET (0 .. N - 1)
    BY <1>1, <1>2
  <2> HIDE DEF T
  <2> QED BY <1>5, <2>1, <2>2, FS_Subset
<1> DEFINE first == {a \in S : rank[a] < m}
           low == {rank[a] : a \in first}
<1>7. m < N
  BY <1>1, <1>2, <1>13
<1>8. low = 0 .. m - 1
  <2>1. \A k \in 0 .. m - 1 : \E a \in S : rank[a] = k
    <3>1. \A k \in T : \E a \in S : rank[a] = k
      OBVIOUS
    <3>2. 0 .. m - 1 \subseteq 0 .. N - 1
      BY <1>1, <1>7
    <3> HIDE DEF T
    <3> QED BY <1>6, <3>1, <3>2
  <2>2. \A a \in first : rank[a] \in 0 .. m - 1
    BY <1>2
  <2>3. \A k \in 0 .. m - 1 : \E a \in first : rank[a] = k
    BY <2>1
  <2> HIDE DEF first
  <2> QED BY <2>2, <2>3
<1>9. IsFiniteSet(first)
  BY FS_Subset
<1>10. Cardinality(low) = Cardinality(first)
  <2>1. \A a, b \in first : rank[a] = rank[b] => a = b
    BY <1>4
  <2> HIDE DEF first
  <2> QED BY <1>9, <2>1, CountByName
<1>11. Cardinality(0 .. m - 1) = m
  BY FS_Interval
<1>12. first = {a \in S : Cardinality(Before(R, S, a)) < m}
  BY <1>13
<1> HIDE DEF first, low
<1> QED BY <1>8, <1>10, <1>11, <1>12

(* Places in a sequence, and those before one of them. *)
PlacesBefore(places, i) == {j \in places : j < i}

(* A set of places has one that any given number of others come before. *)
LEMMA RankExists ==
  ASSUME NEW places, places \subseteq Nat, IsFiniteSet(places)
  PROVE  \A n \in Nat : n < Cardinality(places) => \E i \in places : Cardinality(PlacesBefore(places, i)) = n
<1> DEFINE Has(n) == \E i \in places : Cardinality(PlacesBefore(places, i)) = n
           Bad == {n \in Nat : n < Cardinality(places) /\ ~Has(n)}
<1> SUFFICES ASSUME Bad # {} PROVE FALSE
  OBVIOUS
<1>1. PICK n \in Bad : \A m \in Bad : n <= m
  BY LeastNumber
<1>2. Cardinality(places) \in Nat
  BY FS_CardinalityType
<1>3. CASE n = 0
  <2>1. places # {}
    BY <1>1, <1>3, FS_EmptySet
  <2>2. PICK i \in places : \A j \in places : i <= j
    BY <2>1, LeastNumber
  <2>3. PlacesBefore(places, i) = {}
    <3>1. \A j \in places : ~(j < i)
      BY <2>2
    <3> QED BY <3>1 DEF PlacesBefore
  <2>4. Cardinality(PlacesBefore(places, i)) = 0
    BY <2>3, FS_EmptySet
  <2> QED BY <1>1, <1>3, <2>4
<1>4. CASE n # 0
  <2>1. n - 1 \in Nat /\ n - 1 < Cardinality(places) /\ n < Cardinality(places) /\ ~Has(n)
    BY <1>1, <1>2, <1>4
  <2>2. Has(n - 1)
    <3>1. n - 1 \notin Bad
      BY <1>1, <2>1
    <3> QED BY <2>1, <3>1
  <2>3. PICK i \in places : Cardinality(PlacesBefore(places, i)) = n - 1
    BY <2>2
  <2> DEFINE L == PlacesBefore(places, i)
             R == places \ (L \cup {i})
  <2>4. IsFiniteSet(L) /\ L \subseteq places /\ i \notin L
    BY FS_Subset DEF PlacesBefore
  <2>5. IsFiniteSet(L \cup {i}) /\ Cardinality(L \cup {i}) = n
    <3>1. Cardinality(L \cup {i}) = Cardinality(L) + 1 /\ IsFiniteSet(L \cup {i})
      BY <2>4, FS_AddElement
    <3>2. Cardinality(L) = n - 1
      BY <2>3
    <3> QED BY <1>1, <3>1, <3>2
  <2>6. R # {}
    <3>1. SUFFICES ASSUME R = {} PROVE FALSE
      OBVIOUS
    <3>2. places = L \cup {i}
      BY <2>4, <3>1
    <3> HIDE DEF L
    <3> QED BY <2>1, <2>5, <3>2
  <2>7. PICK k \in R : \A j \in R : k <= j
    <3>1. R \subseteq Nat
      OBVIOUS
    <3> HIDE DEF R
    <3> QED BY <2>6, <3>1, LeastNumber
  <2>8. k \in places /\ k > i
    BY <2>7 DEF PlacesBefore
  <2>9. PlacesBefore(places, k) = L \cup {i}
    <3>1. \A j \in places : j < k <=> (j \in L \/ j = i)
      <4> SUFFICES ASSUME NEW j \in places PROVE j < k <=> (j \in L \/ j = i)
        OBVIOUS
      <4>1. j \in L => j < k
        BY <2>8 DEF PlacesBefore
      <4>2. j \notin L /\ j # i => k <= j
        BY <2>7
      <4> QED BY <2>8, <4>1, <4>2
    <3>2. L \cup {i} \subseteq places
      BY <2>4
    <3> HIDE DEF L
    <3> QED BY <3>1, <3>2 DEF PlacesBefore
  <2>10. Cardinality(PlacesBefore(places, k)) = n
    BY <2>5, <2>9
  <2> QED BY <2>1, <2>8, <2>10
<1> QED BY <1>3, <1>4

==============================================================================
