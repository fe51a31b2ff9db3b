---------------------------- MODULE PanelsProofs ----------------------------
(***************************************************************************)
(* Proofs about Panels, for every corpus, query, price table and limit.    *)
(*                                                                         *)
(* The panels are sums of sums, over sets whose size is not known: so the  *)
(* first part is about SumFunctionOnSet, which the library defines by a    *)
(* fold.  What is said of it for every finite set is proved by taking a    *)
(* least counterexample.  Then come the records behind a source's rows,    *)
(* the request and what it has seen, one part for each panel, and the      *)
(* pages of the session list.                                              *)
(***************************************************************************)
EXTENDS Panels, FiniteSetTheorems, SequenceTheorems, WellFoundedInduction, TLAPS

-----------------------------------------------------------------------------
(* Finite sets and the sums over them.                                     *)

(* How the fold takes a set apart: some element, and the rest.             *)
Some(s) == CHOOSE x \in s : TRUE

(* F adds up f over every part of S.                                       *)
Adds(f, S, F) ==
    F = [s \in SUBSET S |-> IF s = {} THEN 0 ELSE f[Some(s)] + F[s \ {Some(s)}]]

(* A set of numbers has a least one.                                       *)
LEMMA LeastNat ==
  ASSUME NEW S \in SUBSET Nat, S # {}
  PROVE  \E n \in S : \A m \in S : n <= m
<1>1. IsWellFoundedOn(OpToRel(<, Nat), Nat)
  BY NatLessThanWellFounded
<1>2. PICK n \in S : \A m \in S : <<m, n>> \notin OpToRel(<, Nat)
  BY <1>1, WFMin
<1>3. \A m \in S : ~(m < n)
  BY <1>2 DEF OpToRel
<1>4. QED
  BY <1>3

(* Induction, for a set of numbers.                                        *)
LEMMA Induct ==
  ASSUME NEW S \in SUBSET Nat, 0 \in S, \A n \in S : n + 1 \in S
  PROVE  S = Nat
<1> SUFFICES ASSUME Nat \ S # {} PROVE FALSE
  OBVIOUS
<1>1. PICK n \in Nat \ S : \A m \in Nat \ S : n <= m
  BY LeastNat
<1>2. n # 0 /\ n - 1 \in Nat
  BY <1>1
<1>3. n - 1 \in S
  BY <1>1, <1>2
<1>4. (n - 1) + 1 = n
  BY <1>1
<1>5. QED
  BY <1>1, <1>3, <1>4

(* Induction over the parts of a finite set, for a set of them.            *)
LEMMA FiniteInduct ==
  ASSUME NEW S, IsFiniteSet(S), NEW G, {} \in G,
         \A T \in SUBSET S : \A x \in S \ T : T \in G => T \cup {x} \in G
  PROVE  S \in G
<1> DEFINE N == {n \in Nat : \A T \in SUBSET S : Cardinality(T) = n => T \in G}
<1>1. 0 \in N
  BY FS_Subset, FS_EmptySet
<1>2. ASSUME NEW n \in N
      PROVE  n + 1 \in N
  <2> SUFFICES ASSUME NEW T \in SUBSET S, Cardinality(T) = n + 1
               PROVE  T \in G
    OBVIOUS
  <2>1. IsFiniteSet(T) /\ T # {}
    BY FS_Subset, FS_EmptySet
  <2>2. PICK x \in T : TRUE
    BY <2>1
  <2>3. Cardinality(T \ {x}) = n
    <3>1. n \in Nat
      OBVIOUS
    <3>2. Cardinality(T \ {x}) = Cardinality(T) - 1
      BY <2>1, <2>2, FS_RemoveElement
    <3>3. QED
      BY <3>1, <3>2
  <2>4. T \ {x} \in G
    BY <2>3
  <2>5. T = (T \ {x}) \cup {x}
    OBVIOUS
  <2>6. QED
    BY <2>4, <2>5
<1>3. N = Nat
  <2> HIDE DEF N
  <2>1. N \in SUBSET Nat
    BY DEF N
  <2> QED
    BY <1>1, <1>2, <2>1, Induct
<1>4. Cardinality(S) \in Nat
  BY FS_CardinalityType
<1>5. QED
  BY <1>3, <1>4

(* The library's sum is a value of a function that adds up every part.     *)
LEMMA SumIsAdds ==
  ASSUME NEW f, NEW S
  PROVE  SumFunctionOnSet(f, S) = (CHOOSE F : Adds(f, S, F))[S]
BY DEF SumFunctionOnSet, FoldFunctionOnSet, MapThenFoldSet, Adds, Some

(* Any finite set has such a function, and its values are integers.        *)
LEMMA AddsExists ==
  ASSUME NEW S, IsFiniteSet(S), NEW f, \A x \in S : f[x] \in Int
  PROVE  \E F \in [SUBSET S -> Int] : Adds(f, S, F)
<1> DEFINE Small(n) == {s \in SUBSET S : Cardinality(s) <= n}
           Value(F, s) == IF s = {} THEN 0 ELSE f[Some(s)] + F[s \ {Some(s)}]
           N == {n \in Nat : \E F \in [Small(n) -> Int] :
                              \A s \in Small(n) : F[s] = Value(F, s)}
<1>1. \A s \in SUBSET S : IsFiniteSet(s) /\ Cardinality(s) \in Nat
  BY FS_Subset, FS_CardinalityType
<1>2. \A s \in SUBSET S : s # {} =>
         /\ Some(s) \in s
         /\ Cardinality(s \ {Some(s)}) = Cardinality(s) - 1
         /\ s \ {Some(s)} \in SUBSET S
  <2> SUFFICES ASSUME NEW s \in SUBSET S, s # {}
               PROVE  Some(s) \in s /\ Cardinality(s \ {Some(s)}) = Cardinality(s) - 1
    OBVIOUS
  <2>1. Some(s) \in s
    BY DEF Some
  <2>2. QED
    BY <1>1, <2>1, FS_RemoveElement
<1>3. 0 \in N
  <2>1. \A s \in Small(0) : s = {}
    BY <1>1, FS_EmptySet
  <2> DEFINE F == [s \in Small(0) |-> 0]
  <2>2. F \in [Small(0) -> Int] /\ \A s \in Small(0) : F[s] = Value(F, s)
    BY <2>1
  <2>3. QED
    BY <2>2
<1>4. ASSUME NEW n \in N
      PROVE  n + 1 \in N
  <2>1. n \in Nat
    OBVIOUS
  <2>2. PICK F \in [Small(n) -> Int] : \A s \in Small(n) : F[s] = Value(F, s)
    OBVIOUS
  <2> DEFINE H == [s \in Small(n + 1) |-> Value(F, s)]
  <2>3. \A s \in Small(n + 1) : s # {} => s \ {Some(s)} \in Small(n)
    BY <1>1, <1>2, <2>1
  <2>4. \A s \in Small(n + 1) : Value(F, s) \in Int
    BY <1>2, <2>2, <2>3
  <2>5. \A s \in Small(n) : s \in Small(n + 1) /\ H[s] = F[s]
    BY <1>1, <2>1, <2>2
  <2>6. \A s \in Small(n + 1) : H[s] = Value(H, s)
    BY <2>3, <2>5
  <2>7. H \in [Small(n + 1) -> Int]
    BY <2>4
  <2> HIDE DEF Small, Value, H
  <2>8. \E G \in [Small(n + 1) -> Int] : \A s \in Small(n + 1) : G[s] = Value(G, s)
    BY <2>6, <2>7
  <2>9. QED
    BY <2>1, <2>8
<1>5. N = Nat
  <2>1. N \in SUBSET Nat
    OBVIOUS
  <2> HIDE DEF N
  <2> QED
    BY <1>3, <1>4, <2>1, Induct
<1>6. Cardinality(S) \in N
  BY <1>1, <1>5
<1>7. PICK F \in [Small(Cardinality(S)) -> Int] :
         \A s \in Small(Cardinality(S)) : F[s] = Value(F, s)
  BY <1>6
<1>8. Small(Cardinality(S)) = SUBSET S
  BY FS_Subset
<1>9. QED
  BY <1>7, <1>8 DEF Adds

(* And only one.                                                           *)
LEMMA AddsUnique ==
  ASSUME NEW S, IsFiniteSet(S), NEW T, S \subseteq T, NEW f,
         NEW F, Adds(f, S, F), NEW H, Adds(f, T, H)
  PROVE  F[S] = H[S]
<1> DEFINE N == {n \in Nat : \A s \in SUBSET S : Cardinality(s) = n => F[s] = H[s]}
<1>1. \A s \in SUBSET S : IsFiniteSet(s) /\ Cardinality(s) \in Nat
  BY FS_Subset, FS_CardinalityType
<1>2. \A s \in SUBSET S :
         /\ F[s] = IF s = {} THEN 0 ELSE f[Some(s)] + F[s \ {Some(s)}]
         /\ H[s] = IF s = {} THEN 0 ELSE f[Some(s)] + H[s \ {Some(s)}]
  BY DEF Adds
<1>3. 0 \in N
  BY <1>1, <1>2, FS_EmptySet
<1>4. ASSUME NEW n \in N
      PROVE  n + 1 \in N
  <2> SUFFICES ASSUME NEW s \in SUBSET S, Cardinality(s) = n + 1
               PROVE  F[s] = H[s]
    OBVIOUS
  <2>1. n \in Nat /\ s # {}
    BY FS_EmptySet
  <2>2. Some(s) \in s
    BY <2>1 DEF Some
  <2>3. Cardinality(s \ {Some(s)}) = n
    <3>1. Cardinality(s \ {Some(s)}) = Cardinality(s) - 1
      BY <1>1, <2>2, FS_RemoveElement
    <3>2. QED
      BY <2>1, <3>1
  <2>4. F[s \ {Some(s)}] = H[s \ {Some(s)}]
    BY <2>3
  <2>5. QED
    BY <1>2, <2>1, <2>4
<1>5. N = Nat
  <2>1. N \in SUBSET Nat
    OBVIOUS
  <2> HIDE DEF N
  <2> QED
    BY <1>3, <1>4, <2>1, Induct
<1>6. QED
  BY <1>1, <1>5

(* What a sum is of: nothing, or the element chosen first and the rest.    *)
LEMMA SumStep ==
  ASSUME NEW S, IsFiniteSet(S), NEW f, \A x \in S : f[x] \in Int
  PROVE  /\ SumFunctionOnSet(f, S) \in Int
         /\ S = {} => SumFunctionOnSet(f, S) = 0
         /\ S # {} => SumFunctionOnSet(f, S)
                        = f[Some(S)] + SumFunctionOnSet(f, S \ {Some(S)})
<1> DEFINE F == CHOOSE G : Adds(f, S, G)
<1>1. PICK K \in [SUBSET S -> Int] : Adds(f, S, K)
  BY AddsExists
<1>2. Adds(f, S, F)
  BY <1>1
<1> HIDE DEF F
<1>3. F[S] = K[S]
  BY <1>1, <1>2, AddsUnique
<1>4. SumFunctionOnSet(f, S) = F[S]
  BY SumIsAdds DEF F
<1>5. CASE S = {}
  BY <1>1, <1>2, <1>3, <1>4, <1>5 DEF Adds
<1>6. CASE S # {}
  <2> DEFINE R == S \ {Some(S)}
             G == CHOOSE L : Adds(f, R, L)
  <2>1. IsFiniteSet(R) /\ \A x \in R : f[x] \in Int
    BY FS_Subset
  <2>2. Adds(f, R, G)
    BY <2>1, AddsExists
  <2>3. SumFunctionOnSet(f, R) = G[R]
    BY SumIsAdds
  <2> HIDE DEF G
  <2>4. G[R] = F[R]
    BY <1>2, <2>1, <2>2, AddsUnique
  <2>5. F[S] = f[Some(S)] + F[R]
    BY <1>2, <1>6 DEF Adds
  <2>6. QED
    BY <1>1, <1>3, <1>4, <1>6, <2>3, <2>4, <2>5
<1>7. QED
  BY <1>5, <1>6

(* A sum is of the values only.                                            *)
LEMMA SumSame ==
  ASSUME NEW S, IsFiniteSet(S), NEW f, NEW g, \A x \in S : f[x] \in Int /\ g[x] = f[x]
  PROVE  SumFunctionOnSet(f, S) = SumFunctionOnSet(g, S)
<1> DEFINE N == {n \in Nat : \A T \in SUBSET S : Cardinality(T) = n =>
                                SumFunctionOnSet(f, T) = SumFunctionOnSet(g, T)}
<1>1. \A T \in SUBSET S : IsFiniteSet(T) /\ Cardinality(T) \in Nat
  BY FS_Subset, FS_CardinalityType
<1>2. \A T \in SUBSET S :
         /\ T = {} => SumFunctionOnSet(f, T) = SumFunctionOnSet(g, T)
         /\ T # {} => /\ SumFunctionOnSet(f, T)
                           = f[Some(T)] + SumFunctionOnSet(f, T \ {Some(T)})
                      /\ SumFunctionOnSet(g, T)
                           = f[Some(T)] + SumFunctionOnSet(g, T \ {Some(T)})
                      /\ Some(T) \in T
  <2> SUFFICES ASSUME NEW T \in SUBSET S
               PROVE  /\ T = {} => SumFunctionOnSet(f, T) = SumFunctionOnSet(g, T)
                      /\ T # {} => /\ SumFunctionOnSet(f, T)
                                        = f[Some(T)] + SumFunctionOnSet(f, T \ {Some(T)})
                                   /\ SumFunctionOnSet(g, T)
                                        = f[Some(T)] + SumFunctionOnSet(g, T \ {Some(T)})
                                   /\ Some(T) \in T
    OBVIOUS
  <2>1. T # {} => Some(T) \in T
    BY DEF Some
  <2>2. /\ T = {} => SumFunctionOnSet(f, T) = 0
        /\ T # {} => SumFunctionOnSet(f, T)
                       = f[Some(T)] + SumFunctionOnSet(f, T \ {Some(T)})
    BY <1>1, SumStep
  <2>3. /\ T = {} => SumFunctionOnSet(g, T) = 0
        /\ T # {} => SumFunctionOnSet(g, T)
                       = g[Some(T)] + SumFunctionOnSet(g, T \ {Some(T)})
    BY <1>1, SumStep
  <2>4. QED
    BY <2>1, <2>2, <2>3
<1>3. 0 \in N
  BY <1>1, <1>2, FS_EmptySet
<1>4. ASSUME NEW n \in N
      PROVE  n + 1 \in N
  <2> SUFFICES ASSUME NEW T \in SUBSET S, Cardinality(T) = n + 1
               PROVE  SumFunctionOnSet(f, T) = SumFunctionOnSet(g, T)
    OBVIOUS
  <2>1. n \in Nat /\ T # {}
    BY FS_EmptySet
  <2>2. Cardinality(T \ {Some(T)}) = n
    <3>1. Cardinality(T \ {Some(T)}) = Cardinality(T) - 1
      BY <1>1, <1>2, <2>1, FS_RemoveElement
    <3>2. QED
      BY <2>1, <3>1
  <2>3. SumFunctionOnSet(f, T \ {Some(T)}) = SumFunctionOnSet(g, T \ {Some(T)})
    BY <2>2
  <2>4. QED
    BY <1>2, <2>1, <2>3
<1>5. N = Nat
  <2>1. N \in SUBSET Nat
    OBVIOUS
  <2> HIDE DEF N
  <2> QED
    BY <1>3, <1>4, <2>1, Induct
<1>6. QED
  BY <1>1, <1>5

(* Any element may be taken out first.                                     *)
LEMMA SumRemove ==
  ASSUME NEW S, IsFiniteSet(S), NEW f, \A x \in S : f[x] \in Int, NEW x \in S
  PROVE  SumFunctionOnSet(f, S) = f[x] + SumFunctionOnSet(f, S \ {x})
<1> DEFINE Total(T) == SumFunctionOnSet(f, T)
           N == {n \in Nat : \A T \in SUBSET S : Cardinality(T) = n =>
                                \A y \in T : Total(T) = f[y] + Total(T \ {y})}
<1>1. \A T \in SUBSET S : IsFiniteSet(T) /\ Cardinality(T) \in Nat
  BY FS_Subset, FS_CardinalityType
<1>2. \A T \in SUBSET S :
         /\ Total(T) \in Int
         /\ T # {} => Some(T) \in T /\ Total(T) = f[Some(T)] + Total(T \ {Some(T)})
  BY <1>1, SumStep DEF Some
<1> HIDE DEF Total
<1>3. 0 \in N
  BY <1>1, FS_EmptySet
<1>4. ASSUME NEW n \in N
      PROVE  n + 1 \in N
  <2> SUFFICES ASSUME NEW T \in SUBSET S, Cardinality(T) = n + 1, NEW y \in T
               PROVE  Total(T) = f[y] + Total(T \ {y})
    OBVIOUS
  <2>1. n \in Nat /\ T # {}
    OBVIOUS
  <2>2. CASE y = Some(T)
    BY <1>2, <2>1, <2>2
  <2>3. CASE y # Some(T)
    <3> DEFINE z == Some(T)
    <3>1. z \in T
      BY <1>2, <2>1
    <3> HIDE DEF z
    <3>2. Cardinality(T \ {z}) = n /\ Cardinality(T \ {y}) = n
      <4>1. /\ Cardinality(T \ {z}) = Cardinality(T) - 1
            /\ Cardinality(T \ {y}) = Cardinality(T) - 1
        BY <1>1, <3>1, FS_RemoveElement
      <4>2. QED
        BY <2>1, <4>1
    <3>3. Total(T \ {z}) = f[y] + Total((T \ {z}) \ {y})
      BY <2>3, <3>2 DEF z
    <3>4. Total(T \ {y}) = f[z] + Total((T \ {y}) \ {z})
      BY <2>3, <3>1, <3>2 DEF z
    <3>5. (T \ {z}) \ {y} = (T \ {y}) \ {z}
      OBVIOUS
    <3>6. Total(T) = f[z] + Total(T \ {z})
      BY <1>2, <2>1 DEF z
    <3>7. f[z] \in Int /\ f[y] \in Int /\ Total((T \ {y}) \ {z}) \in Int
      BY <1>2, <3>1
    <3>8. Total(T \ {z}) = f[y] + Total((T \ {y}) \ {z})
      BY <3>3, <3>5
    <3>9. QED
      BY <3>4, <3>6, <3>7, <3>8
  <2>4. QED
    BY <2>2, <2>3
<1>5. N = Nat
  <2>1. N \in SUBSET Nat
    OBVIOUS
  <2> HIDE DEF N
  <2> QED
    BY <1>3, <1>4, <2>1, Induct
<1>6. Total(S) = f[x] + Total(S \ {x})
  BY <1>1, <1>5
<1>7. QED
  BY <1>6 DEF Total

(* An element that is added adds its value.                                *)
LEMMA SumAdd ==
  ASSUME NEW S, IsFiniteSet(S), NEW x, x \notin S, NEW f, \A y \in S \cup {x} : f[y] \in Int
  PROVE  SumFunctionOnSet(f, S \cup {x}) = f[x] + SumFunctionOnSet(f, S)
<1>1. IsFiniteSet(S \cup {x}) /\ (S \cup {x}) \ {x} = S
  BY FS_AddElement
<1>2. SumFunctionOnSet(f, S \cup {x}) = f[x] + SumFunctionOnSet(f, (S \cup {x}) \ {x})
  BY <1>1, SumRemove
<1>3. QED
  BY <1>1, <1>2

(* Nothing adds up to nothing.                                             *)
LEMMA SumEmpty == ASSUME NEW f PROVE SumFunctionOnSet(f, {}) = 0
BY SumStep, FS_EmptySet

(* A sum of integers is one.                                               *)
LEMMA SumInt ==
  ASSUME NEW S, IsFiniteSet(S), NEW f, \A x \in S : f[x] \in Int
  PROVE  SumFunctionOnSet(f, S) \in Int
BY SumStep

(* Adding up the sums of the fibres of a function adds up the whole.       *)
LEMMA SumFibres ==
  ASSUME NEW S, IsFiniteSet(S), NEW T, IsFiniteSet(T),
         NEW h, \A x \in S : h[x] \in T,
         NEW f, \A x \in S : f[x] \in Int
  PROVE  SumFunctionOnSet(f, S)
           = SumFunctionOnSet([t \in T |-> SumFunctionOnSet(f, {x \in S : h[x] = t})], T)
<1> DEFINE Fibre(U, t) == {x \in U : h[x] = t}
           Parts(U) == [t \in T |-> SumFunctionOnSet(f, Fibre(U, t))]
           G == {U \in SUBSET S :
                   SumFunctionOnSet(f, U) = SumFunctionOnSet(Parts(U), T)}
<1>1. \A U \in SUBSET S : IsFiniteSet(U) /\ \A t : IsFiniteSet(Fibre(U, t))
  BY FS_Subset
<1>2. \A U \in SUBSET S : \A t \in T : Parts(U)[t] \in Int
  <2> SUFFICES ASSUME NEW U \in SUBSET S, NEW t \in T
               PROVE  SumFunctionOnSet(f, Fibre(U, t)) \in Int
    OBVIOUS
  <2>1. IsFiniteSet(Fibre(U, t)) /\ \A x \in Fibre(U, t) : f[x] \in Int
    BY <1>1
  <2>2. QED
    BY <2>1, SumInt
<1>3. {} \in G
  <2>1. \A t \in T : Fibre({}, t) = {}
    OBVIOUS
  <2>2. \A t \in T : Parts({})[t] = 0
    BY <2>1, SumEmpty
  <2> HIDE DEF Parts
  <2> DEFINE M == {V \in SUBSET T : SumFunctionOnSet(Parts({}), V) = 0}
  <2>3. {} \in M
    BY SumEmpty
  <2>4. ASSUME NEW V \in SUBSET T, NEW t \in T \ V, V \in M
        PROVE  V \cup {t} \in M
    <3>1. IsFiniteSet(V) /\ \A y \in V \cup {t} : Parts({})[y] \in Int
      BY <2>2, FS_Subset
    <3>2. SumFunctionOnSet(Parts({}), V) = 0
      BY <2>4
    <3>3. SumFunctionOnSet(Parts({}), V \cup {t})
            = Parts({})[t] + SumFunctionOnSet(Parts({}), V)
      BY <3>1, SumAdd
    <3>4. SumFunctionOnSet(Parts({}), V \cup {t}) = 0
      BY <2>2, <3>2, <3>3
    <3>5. QED
      BY <3>4
  <2>5. T \in M
    <3> HIDE DEF M
    <3> QED
      BY <2>3, <2>4, FiniteInduct
  <2>6. QED
    BY <2>5, SumEmpty
<1>4. ASSUME NEW U \in SUBSET S, NEW x \in S \ U, U \in G
      PROVE  U \cup {x} \in G
  <2> DEFINE p == Parts(U)
             q == Parts(U \cup {x})
             c == h[x]
  <2>1. c \in T /\ U \cup {x} \in SUBSET S /\ x \notin U
    OBVIOUS
  <2>2. \A t \in T : p[t] \in Int /\ q[t] \in Int
    BY <1>2, <2>1
  <2>3. \A t \in T \ {c} : q[t] = p[t]
    <3> SUFFICES ASSUME NEW t \in T \ {c} PROVE Fibre(U \cup {x}, t) = Fibre(U, t)
      OBVIOUS
    <3> QED
      OBVIOUS
  <2>4. q[c] = f[x] + p[c]
    <3>1. Fibre(U \cup {x}, c) = Fibre(U, c) \cup {x} /\ x \notin Fibre(U, c)
      BY <2>1
    <3>2. IsFiniteSet(Fibre(U, c)) /\ \A y \in Fibre(U, c) \cup {x} : f[y] \in Int
      BY <1>1
    <3> HIDE DEF Fibre
    <3>3. SumFunctionOnSet(f, Fibre(U, c) \cup {x})
            = f[x] + SumFunctionOnSet(f, Fibre(U, c))
      BY <3>1, <3>2, SumAdd
    <3>4. QED
      BY <2>1, <3>1, <3>3
  <2>5. SumFunctionOnSet(f, U \cup {x}) = f[x] + SumFunctionOnSet(f, U)
    BY <1>1, <2>1, SumAdd
  <2> HIDE DEF p, q, c, Parts
  <2>6. IsFiniteSet(T \ {c})
    BY FS_Subset
  <2>7. /\ SumFunctionOnSet(p, T) = p[c] + SumFunctionOnSet(p, T \ {c})
        /\ SumFunctionOnSet(q, T) = q[c] + SumFunctionOnSet(q, T \ {c})
    BY <2>1, <2>2, SumRemove
  <2>8. SumFunctionOnSet(p, T \ {c}) = SumFunctionOnSet(q, T \ {c})
    BY <2>2, <2>3, <2>6, SumSame
  <2>9. SumFunctionOnSet(p, T \ {c}) \in Int
    BY <2>2, <2>6, SumInt
  <2>10. SumFunctionOnSet(f, U) = SumFunctionOnSet(p, T)
    BY <1>4 DEF p
  <2>11. f[x] \in Int /\ p[c] \in Int
    BY <2>1, <2>2
  <2>12. SumFunctionOnSet(f, U \cup {x}) = SumFunctionOnSet(q, T)
    BY <2>4, <2>5, <2>7, <2>8, <2>9, <2>10, <2>11
  <2>13. QED
    BY <2>1, <2>12 DEF q
<1>5. S \in G
  <2> HIDE DEF G
  <2> QED
    BY <1>3, <1>4, FiniteInduct
<1>6. QED
  BY <1>5

(* The image of a finite set.                                              *)
LEMMA ImageFinite ==
  ASSUME NEW S, IsFiniteSet(S), NEW T, NEW h, \A x \in S : h[x] \in T,
         \A t \in T : \E x \in S : h[x] = t
  PROVE  IsFiniteSet(T)
<1> DEFINE k == [x \in S |-> h[x]]
<1>1. k \in Surjection(S, T)
  BY DEF Surjection
<1>2. QED
  BY <1>1, FS_Surjection

(* What counts for nothing may be left out.                                *)
LEMMA SumPart ==
  ASSUME NEW S, IsFiniteSet(S), NEW T \in SUBSET S,
         NEW f, \A x \in S : f[x] \in Int, \A x \in S \ T : f[x] = 0
  PROVE  SumFunctionOnSet(f, S) = SumFunctionOnSet(f, T)
<1> DEFINE R == S \ T
           G == {U \in SUBSET R : SumFunctionOnSet(f, T \cup U) = SumFunctionOnSet(f, T)}
<1>1. {} \in G
  <2>1. T \cup {} = T
    OBVIOUS
  <2>2. QED
    BY <2>1
<1>2. ASSUME NEW U \in SUBSET R, NEW x \in R \ U, U \in G
      PROVE  U \cup {x} \in G
  <2>1. IsFiniteSet(T \cup U) /\ x \notin T \cup U
    BY FS_Subset
  <2>2. SumFunctionOnSet(f, (T \cup U) \cup {x}) = f[x] + SumFunctionOnSet(f, T \cup U)
    BY <2>1, SumAdd
  <2>3. (T \cup U) \cup {x} = T \cup (U \cup {x})
    OBVIOUS
  <2>4. SumFunctionOnSet(f, T) \in Int
    <3>1. IsFiniteSet(T)
      BY FS_Subset
    <3>2. QED
      BY <3>1, SumInt
  <2>5. f[x] = 0
    OBVIOUS
  <2>6. SumFunctionOnSet(f, T \cup U) = SumFunctionOnSet(f, T)
    BY <1>2
  <2>7. SumFunctionOnSet(f, (T \cup U) \cup {x}) = SumFunctionOnSet(f, T)
    BY <2>2, <2>4, <2>5, <2>6
  <2>8. SumFunctionOnSet(f, T \cup (U \cup {x})) = SumFunctionOnSet(f, T)
    BY <2>3, <2>7
  <2>9. QED
    BY <2>8
<1>3. R \in G
  <2>1. IsFiniteSet(R)
    BY FS_Subset
  <2> HIDE DEF G, R
  <2> QED
    BY <1>1, <1>2, <2>1, FiniteInduct
<1>4. T \cup R = S
  OBVIOUS
<1>5. QED
  BY <1>3, <1>4

(* A sum of zeroes.                                                        *)
LEMMA SumZero ==
  ASSUME NEW S, IsFiniteSet(S), NEW f, \A x \in S : f[x] = 0
  PROVE  SumFunctionOnSet(f, S) = 0
<1>1. SumFunctionOnSet(f, S) = SumFunctionOnSet(f, {})
  BY SumPart
<1>2. QED
  BY <1>1, SumEmpty

(* A sum of what is not negative is not, and is no less than its parts.    *)
LEMMA SumNat ==
  ASSUME NEW S, IsFiniteSet(S), NEW f, \A x \in S : f[x] \in Nat
  PROVE  /\ SumFunctionOnSet(f, S) \in Nat
         /\ SumFunctionOnSet(f, S) = 0 <=> \A x \in S : f[x] = 0
<1> DEFINE G == {T \in SUBSET S : SumFunctionOnSet(f, T) \in Nat}
<1>1. {} \in G
  BY SumEmpty
<1>2. ASSUME NEW T \in SUBSET S, NEW x \in S \ T, T \in G
      PROVE  T \cup {x} \in G
  <2>1. IsFiniteSet(T) /\ x \notin T /\ \A y \in T \cup {x} : f[y] \in Int
    BY FS_Subset
  <2>2. SumFunctionOnSet(f, T \cup {x}) = f[x] + SumFunctionOnSet(f, T)
    <3> HIDE DEF G
    <3> QED
      BY <2>1, SumAdd
  <2>3. f[x] \in Nat /\ SumFunctionOnSet(f, T) \in Nat
    BY <1>2
  <2>4. QED
    BY <2>2, <2>3
<1> HIDE DEF G
<1>3. ASSUME NEW T \in SUBSET S
      PROVE  SumFunctionOnSet(f, T) \in Nat
  <2>1. IsFiniteSet(T)
    BY FS_Subset
  <2>2. {} \in G /\ \A U \in SUBSET T : \A x \in T \ U : U \in G => U \cup {x} \in G
    BY <1>1, <1>2
  <2>3. T \in G
    BY <2>1, <2>2, FiniteInduct
  <2>4. QED
    BY <2>3 DEF G
<1>4. ASSUME SumFunctionOnSet(f, S) = 0, NEW x \in S
      PROVE  f[x] = 0
  <2>1. SumFunctionOnSet(f, S) = f[x] + SumFunctionOnSet(f, S \ {x})
    BY SumRemove
  <2>2. SumFunctionOnSet(f, S \ {x}) \in Nat
    BY <1>3
  <2>3. QED
    BY <1>4, <2>1, <2>2
<1>5. QED
  BY <1>3, <1>4, SumZero

(* A sum of ones counts.                                                   *)
LEMMA SumOnes ==
  ASSUME NEW S, IsFiniteSet(S), NEW f, \A x \in S : f[x] = 1
  PROVE  SumFunctionOnSet(f, S) = Cardinality(S)
<1> DEFINE G == {T \in SUBSET S : SumFunctionOnSet(f, T) = Cardinality(T)}
<1>1. {} \in G
  BY SumEmpty, FS_EmptySet
<1>2. ASSUME NEW T \in SUBSET S, NEW x \in S \ T, T \in G
      PROVE  T \cup {x} \in G
  <2>1. /\ IsFiniteSet(T) /\ x \notin T /\ Cardinality(T) \in Nat
        /\ \A y \in T \cup {x} : f[y] \in Int
    BY FS_Subset, FS_CardinalityType
  <2>2. SumFunctionOnSet(f, T \cup {x}) = f[x] + SumFunctionOnSet(f, T)
    BY <2>1, SumAdd
  <2>3. Cardinality(T \cup {x}) = Cardinality(T) + 1
    BY <2>1, FS_AddElement
  <2>4. QED
    BY <1>2, <2>1, <2>2, <2>3
<1>3. S \in G
  <2> HIDE DEF G
  <2> QED
    BY <1>1, <1>2, FiniteInduct
<1>4. QED
  BY <1>3

-----------------------------------------------------------------------------
(* The least number of a set is in it, and is the least.                   *)
LEMMA MinNat ==
  ASSUME NEW S \in SUBSET Nat, S # {}
  PROVE  Min(S) \in S /\ \A y \in S : Min(S) <= y
BY LeastNat DEF Min

Fibre(S, h, t) == {y \in S : h[y] = t}

(* What a panel g shows, grouped by h out of the rows S that have the      *)
(* values f: for every key the sum of its rows.                            *)
IsPanel(g, P, h, f, S) ==
    /\ \A x \in S : h[x] \in P
    /\ \A t \in P : \E x \in S : h[x] = t
    /\ DOMAIN g = P
    /\ \A t \in P : g[t] = SumFunction(Restrict(f, Fibre(S, h, t)))

(* A panel adds up to what its rows add up to.                             *)
LEMMA PanelSum ==
  ASSUME NEW S, IsFiniteSet(S), NEW f \in [S -> Int],
         NEW P, NEW h, NEW g, IsPanel(g, P, h, f, S)
  PROVE  /\ IsFiniteSet(P) /\ \A t \in P : g[t] \in Int
         /\ SumFunction(g) = SumFunction(f)
<1> DEFINE Total(t) == SumFunctionOnSet(f, {y \in S : h[y] = t})
           p == [t \in P |-> Total(t)]
<1>1. ASSUME NEW t \in P
      PROVE  g[t] = Total(t) /\ Total(t) \in Int
  <2> DEFINE F == {y \in S : h[y] = t}
             part == [x \in F |-> f[x]]
  <2>1. IsFiniteSet(F) /\ DOMAIN part = F
    BY FS_Subset
  <2>2. \A x \in F : f[x] \in Int /\ part[x] = f[x]
    OBVIOUS
  <2>3. g[t] = SumFunctionOnSet(part, F)
    BY <2>1 DEF SumFunction, Restrict, Fibre, IsPanel
  <2> HIDE DEF part, F
  <2>4. /\ SumFunctionOnSet(f, F) = SumFunctionOnSet(part, F)
        /\ SumFunctionOnSet(f, F) \in Int
    BY <2>1, <2>2, SumSame, SumInt
  <2>5. QED
    BY <2>3, <2>4 DEF F
<1>2. (\A x \in S : h[x] \in P) /\ (\A t \in P : \E x \in S : h[x] = t) /\ DOMAIN g = P
  BY DEF IsPanel
<1>3. IsFiniteSet(P)
  BY <1>2, ImageFinite
<1>4. SumFunctionOnSet(f, S) = SumFunctionOnSet(p, P)
  <2>1. \A x \in S : f[x] \in Int
    OBVIOUS
  <2>2. QED
    BY <1>2, <1>3, <2>1, SumFibres
<1>5. \A t \in P : g[t] = p[t] /\ g[t] \in Int
  BY <1>1
<1>6. DOMAIN f = S
  OBVIOUS
<1> HIDE DEF p
<1>7. SumFunctionOnSet(g, P) = SumFunctionOnSet(p, P)
  BY <1>3, <1>5, SumSame
<1>8. QED
  BY <1>2, <1>3, <1>4, <1>5, <1>6, <1>7 DEF SumFunction

-----------------------------------------------------------------------------
(* What a source has of the records.                                       *)

(* The records that have a time.                                           *)
Timed == Stamped(Records)

(* What is assumed of a record, of these.                                  *)
LEMMA TimedRecords ==
  /\ \A r, x \in Timed : r.id = x.id => r = x
  /\ \A r \in Timed :
        /\ r.ts \in Nat /\ r.cost \in Nat
        /\ \A b \in Buckets : r.toks[b] \in Nat
        /\ r.cost = ComputeCost(r.model, r.toks, r.long, r.ts)
        /\ r.project # None
        /\ \E i \in DOMAIN ModelOrder : ModelOrder[i] = r.model
  /\ DOMAIN ModelOrder \subseteq Nat
<1>1. \A r \in Timed : r \in Records /\ r.ts # None
  BY DEF Timed, Stamped
<1>2. QED
  BY <1>1, CorpusAssumption

(* What a range drops of some rows.                                        *)
LEMMA StampedPart ==
  ASSUME NEW R, IsFiniteSet(R)
  PROVE  /\ IsFiniteSet(Stamped(R)) /\ Stamped(R) \in SUBSET R
         /\ R \in SUBSET Records => Stamped(R) \in SUBSET Timed
<1>1. Stamped(R) \in SUBSET R
  BY DEF Stamped
<1>2. QED
  BY <1>1, FS_Subset DEF Stamped, Timed

(* The records R that a query is about, and the row of its source that     *)
(* such a record is counted in.                                            *)
Asked(R, q) ==
    {r \in R : /\ SourceHour(r.ts, q) >= SourceHour(Since(q), q)
               /\ q.project \in {None, r.project} /\ q.model \in {None, r.model}}

Sourced(R, hourly, r) == IF hourly THEN RollupRow(R, r) ELSE LiveRow(r)

(* The records counted in the same row.                                    *)
Beside(R, hourly, r) ==
    IF hourly THEN {x \in R : RollupKey(x) = RollupKey(r)} ELSE {r}

(* An instant and the hour it is in, against a limit and the hour that is  *)
(* in.                                                                     *)
LEMMA Hours ==
  ASSUME NEW a \in Nat, NEW b \in Nat
  PROVE  /\ HourOf(a) \in Nat /\ HourOf(a) <= a
         /\ a >= HourOf(b) <=> HourOf(a) >= HourOf(b)
         /\ HourOf(a) >= b <=> /\ a >= HourOf(b)
                               /\ HourOf(a) # HourOf(b) \/ HourOf(a) = b
<1> DEFINE h == HourTicks
           m == a \div h
           k == b \div h
<1>1. h \in Nat /\ h > 0
  BY PanelsAssumption
<1>2. /\ m \in Nat /\ m * h <= a /\ a < m * h + h
      /\ k \in Nat /\ k * h <= b /\ b < k * h + h
  BY <1>1
<1>3. HourOf(a) = m * h /\ HourOf(b) = k * h
  BY DEF HourOf
<1> HIDE DEF h, m, k
<1>4. /\ m * h \in Nat /\ k * h \in Nat
      /\ (m + 1) * h = m * h + h /\ (k + 1) * h = k * h + h
  BY <1>1, <1>2
<1>5. /\ m >= k + 1 => m * h >= (k + 1) * h
      /\ k >= m + 1 => k * h >= (m + 1) * h
  BY <1>1, <1>2
<1>6. m >= k + 1 \/ k >= m + 1 \/ m = k
  BY <1>2
<1>7. QED
  BY <1>1, <1>2, <1>3, <1>4, <1>5, <1>6

(* No range begins before the clock does.                                  *)
LEMMA SinceNat == ASSUME NEW q, q.span \in Spans PROVE Since(q) \in Nat
BY PanelsAssumption DEF Since

(* The records a query is about, as PanelsAgree says it.                   *)
LEMMA AskedInRange ==
  ASSUME Stamped(db) \subseteq Timed, NEW q, q.span \in Spans
  PROVE  InRange(db, q) = Asked(Stamped(db), q)
<1>1. \A r \in Stamped(db) : r.ts \in Nat /\ Since(q) \in Nat
  BY TimedRecords, SinceNat
<1>2. \A r \in Stamped(db) : (r.ts >= (IF UseRollup(q) THEN HourOf(Since(q)) ELSE Since(q)))
                      <=> SourceHour(r.ts, q) >= SourceHour(Since(q), q)
  BY <1>1, Hours DEF SourceHour
<1>3. QED
  BY <1>2 DEF InRange, Filtered, Asked

(* The fields of a row that filters and panels group by.                   *)
LEMMA SourceFields ==
  ASSUME NEW R, NEW hourly, NEW r
  PROVE  /\ Sourced(R, hourly, r).session = r.session
         /\ Sourced(R, hourly, r).project = r.project
         /\ Sourced(R, hourly, r).model = r.model
         /\ Sourced(R, hourly, r).hour = IF hourly THEN HourOf(r.ts) ELSE r.ts
BY DEF Sourced, RollupRow, LiveRow

(* The rows a query reads count the records it is about, and no other.     *)
LEMMA SourceRows ==
  ASSUME NEW R, NEW q, NEW snap, Stamped(snap.db) = R, Stamped(snap.rolled) = R
  PROVE  /\ RollSource(q, snap) = {Sourced(R, UseRollup(q), r) : r \in Asked(R, q)}
         /\ {r \in R : Sourced(R, UseRollup(q), r) \in RollSource(q, snap)} = Asked(R, q)
<1> DEFINE Row(r) == Sourced(R, UseRollup(q), r)
<1>1. RollSource(q, snap)
        = {u \in {Row(r) : r \in R} :
             /\ u.hour >= SourceHour(Since(q), q)
             /\ q.project \in {None, u.project} /\ q.model \in {None, u.model}}
  BY DEF RollSource, Filtered, UsageRollup, LiveUsage, Sourced, SourceHour
<1>2. \A r : /\ Row(r).hour = SourceHour(r.ts, q)
             /\ Row(r).project = r.project /\ Row(r).model = r.model
  BY SourceFields DEF SourceHour
<1> HIDE DEF Row
<1>3. \A r \in R : Row(r) \in RollSource(q, snap) <=> r \in Asked(R, q)
  BY <1>1, <1>2 DEF Asked
<1>4. RollSource(q, snap) = {Row(r) : r \in Asked(R, q)}
  BY <1>1, <1>3 DEF Asked
<1>5. QED
  BY <1>3, <1>4 DEF Row, Asked

(* A row counts the records of one key.                                    *)
LEMMA SourceFibre ==
  ASSUME NEW R \in SUBSET Timed, NEW hourly \in BOOLEAN, NEW r \in R
  PROVE  {x \in R : Sourced(R, hourly, x) = Sourced(R, hourly, r)} = Beside(R, hourly, r)
<1>1. CASE hourly
  <2>1. ASSUME NEW x \in R, RollupKey(x) = RollupKey(r)
        PROVE  Sourced(R, hourly, x) = Sourced(R, hourly, r)
    <3>1. /\ x.session = r.session /\ HourOf(x.ts) = HourOf(r.ts)
          /\ x.model = r.model /\ x.project = r.project
      BY <2>1 DEF RollupKey
    <3>2. RollupRow(R, x) = RollupRow(R, r)
      BY <2>1, <3>1 DEF RollupRow
    <3>3. QED
      BY <1>1, <3>2 DEF Sourced
  <2>2. ASSUME NEW x \in R, Sourced(R, hourly, x) = Sourced(R, hourly, r)
        PROVE  RollupKey(x) = RollupKey(r)
    <3>1. /\ x.session = r.session /\ HourOf(x.ts) = HourOf(r.ts)
          /\ x.model = r.model /\ x.project = r.project
      <4> DEFINE u == Sourced(R, hourly, x)
                 v == Sourced(R, hourly, r)
      <4>1. /\ u.session = x.session /\ v.session = r.session
            /\ u.model = x.model /\ v.model = r.model
            /\ u.project = x.project /\ v.project = r.project
        BY SourceFields
      <4>2. u.hour = HourOf(x.ts) /\ v.hour = HourOf(r.ts)
        BY <1>1, SourceFields
      <4>3. u = v
        BY <2>2
      <4> HIDE DEF u, v
      <4>4. QED
        BY <4>1, <4>2, <4>3
    <3>2. QED
      BY <3>1 DEF RollupKey
  <2>3. QED
    BY <1>1, <2>1, <2>2 DEF Beside
<1>2. CASE ~hourly
  <2>1. \A x : Sourced(R, hourly, x).id = x.id
    BY <1>2 DEF Sourced, LiveRow
  <2>2. \A x \in R : Sourced(R, hourly, x) = Sourced(R, hourly, r) => x = r
    BY <2>1, TimedRecords
  <2>3. QED
    BY <1>2, <2>2 DEF Beside
<1>3. QED
  BY <1>1, <1>2

-----------------------------------------------------------------------------
(* Sums over the rows of a source are sums over the records they count.    *)

Source(R, hourly) == {Sourced(R, hourly, r) : r \in R}

Columns == {"cost", "requests"} \cup Buckets

(* A column of a row, and what one record adds to it.                      *)
Of(u, col) ==
    IF col = "cost" THEN u.cost ELSE IF col = "requests" THEN u.requests ELSE u.toks[col]

Adding(r, col) ==
    IF col = "cost" THEN r.cost ELSE IF col = "requests" THEN 1 ELSE r.toks[col]

(* A record adds a number to any column.                                   *)
LEMMA AddingNat ==
  ASSUME NEW r \in Timed, NEW col \in Columns
  PROVE  Adding(r, col) \in Nat
BY TimedRecords DEF Adding, Columns

(* The sum of one value.                                                   *)
LEMMA SumOverOne ==
  ASSUME NEW x, NEW f, DOMAIN f = {x}, f[x] \in Int
  PROVE  SumFunction(f) = f[x]
<1>1. IsFiniteSet({x}) /\ {x} \ {x} = {}
  BY FS_Singleton
<1>2. SumFunctionOnSet(f, {x}) = f[x] + SumFunctionOnSet(f, {x} \ {x})
  BY <1>1, SumRemove
<1>3. SumFunctionOnSet(f, {}) = 0
  BY SumEmpty
<1>4. QED
  BY <1>1, <1>2, <1>3 DEF SumFunction

(* A column of a row is the sum of what its records add to it.             *)
LEMMA SourceColumn ==
  ASSUME NEW R \in SUBSET Timed, IsFiniteSet(R), NEW hourly \in BOOLEAN, NEW r \in R,
         NEW col \in Columns
  PROVE  Of(Sourced(R, hourly, r), col)
           = SumFunction([x \in Beside(R, hourly, r) |-> Adding(x, col)])
<1> DEFINE f == [x \in Beside(R, hourly, r) |-> Adding(x, col)]
<1>1. CASE hourly
  <2> DEFINE group == {x \in R : RollupKey(x) = RollupKey(r)}
  <2>1. Beside(R, hourly, r) = group /\ Sourced(R, hourly, r) = RollupRow(R, r)
    BY <1>1 DEF Beside, Sourced
  <2>2. /\ RollupRow(R, r).cost = SumFunction([x \in group |-> x.cost])
        /\ \A b \in Buckets : RollupRow(R, r).toks[b] = SumFunction([x \in group |-> x.toks[b]])
        /\ RollupRow(R, r).requests = Cardinality(group)
    BY DEF RollupRow, Sum, SumOver
  <2>3. CASE col = "cost"
    BY <2>1, <2>2, <2>3 DEF Of, Adding
  <2>4. CASE col \in Buckets
    <3>1. col # "cost" /\ col # "requests"
      BY <2>4 DEF Buckets
    <3>2. \A x : Adding(x, col) = x.toks[col] /\ Of(x, col) = x.toks[col]
      BY <3>1 DEF Of, Adding
    <3>3. f = [x \in group |-> x.toks[col]]
      BY <2>1, <3>2
    <3>4. QED
      BY <2>1, <2>2, <2>4, <3>2, <3>3
  <2>5. CASE col = "requests"
    <3>1. \A x : Adding(x, col) = 1 /\ Of(x, col) = x.requests
      BY <2>5 DEF Of, Adding
    <3>2. IsFiniteSet(group) /\ DOMAIN f = group /\ \A x \in group : f[x] = 1
      BY <2>1, <3>1, FS_Subset
    <3> HIDE DEF f, group
    <3>3. SumFunction(f) = Cardinality(group)
      BY <3>2, SumOnes DEF SumFunction
    <3>4. QED
      BY <2>1, <2>2, <3>1, <3>3 DEF f
  <2>6. QED
    BY <2>3, <2>4, <2>5 DEF Columns
<1>2. CASE ~hourly
  <2>1. DOMAIN f = {r} /\ f[r] = Adding(r, col) /\ Sourced(R, hourly, r) = LiveRow(r)
    BY <1>2 DEF Beside, Sourced
  <2>2. Of(LiveRow(r), col) = Adding(r, col)
    BY DEF Of, Adding, LiveRow
  <2>3. Adding(r, col) \in Int
    BY AddingNat
  <2> HIDE DEF f
  <2>4. SumFunction(f) = f[r]
    BY <2>1, <2>3, SumOverOne
  <2>5. QED
    BY <2>1, <2>2, <2>4 DEF f
<1>3. QED
  BY <1>1, <1>2

(* A column of some rows of a source, and of the records they count.       *)
LEMMA SourceSum ==
  ASSUME NEW R \in SUBSET Timed, IsFiniteSet(R), NEW hourly \in BOOLEAN,
         NEW U \in SUBSET Source(R, hourly),
         NEW col \in Columns
  PROVE  /\ IsFiniteSet(U)
         /\ \A u \in U : Of(u, col) \in Nat
         /\ SumFunction([u \in U |-> Of(u, col)])
              = SumFunction([r \in {x \in R : Sourced(R, hourly, x) \in U}
                               |-> Adding(r, col)])
<1> DEFINE S == {x \in R : Sourced(R, hourly, x) \in U}
           f == [r \in S |-> Adding(r, col)]
           h == [r \in S |-> Sourced(R, hourly, r)]
           g == [u \in U |-> Of(u, col)]
<1>1. IsFiniteSet(S) /\ S \subseteq Timed
  BY FS_Subset
<1>2. f \in [S -> Nat] /\ f \in [S -> Int]
  BY <1>1, AddingNat
<1>3. /\ \A x \in S : h[x] \in U /\ h[x] = Sourced(R, hourly, x)
      /\ \A u \in U : \E x \in S : h[x] = u
  BY DEF Source
<1>4. ASSUME NEW u \in U
      PROVE  g[u] = SumFunction(Restrict(f, Fibre(S, h, u)))
  <2>1. PICK r \in S : u = Sourced(R, hourly, r)
    BY <1>3
  <2>2. Fibre(S, h, u) = Beside(R, hourly, r)
    <3>1. {y \in S : h[y] = u} = {x \in R : Sourced(R, hourly, x) = Sourced(R, hourly, r)}
      BY <2>1
    <3>2. QED
      BY <3>1, SourceFibre DEF Fibre
  <2>3. Restrict(f, Fibre(S, h, u)) = [x \in Beside(R, hourly, r) |-> Adding(x, col)]
    <3>1. \A x \in Fibre(S, h, u) : f[x] = Adding(x, col)
      BY DEF Fibre
    <3> HIDE DEF f, h, S
    <3>2. QED
      BY <2>2, <3>1 DEF Restrict
  <2>4. r \in R
    OBVIOUS
  <2> HIDE DEF S, f, h
  <2>5. QED
    BY <2>1, <2>3, <2>4, SourceColumn
<1>5. DOMAIN g = U
  OBVIOUS
<1>6. ASSUME NEW u \in U
      PROVE  g[u] \in Nat
  <2> DEFINE F == Fibre(S, h, u)
             p == Restrict(f, F)
  <2>1. IsFiniteSet(F) /\ DOMAIN p = F /\ \A x \in F : p[x] \in Nat
    BY <1>1, <1>2, FS_Subset DEF Fibre, Restrict
  <2>2. g[u] = SumFunction(p)
    BY <1>4
  <2> HIDE DEF p, F, g
  <2>3. QED
    BY <2>1, <2>2, SumNat DEF SumFunction
<1> HIDE DEF S, f, h, g
<1>7. IsFiniteSet(U) /\ SumFunction(g) = SumFunction(f)
  <2>1. IsPanel(g, U, h, f, S)
    BY <1>3, <1>4, <1>5 DEF IsPanel
  <2>2. QED
    BY <1>1, <1>2, <2>1, PanelSum
<1>8. QED
  BY <1>6, <1>7 DEF g, f, S

-----------------------------------------------------------------------------
(* The states: a request that nothing was committed under has seen one     *)
(* snapshot throughout, that of now.                                       *)

Snaps == [db : SUBSET Records, calls : SUBSET Calls,
          rolled : SUBSET Records, toolRolled : SUBSET Calls]
Requests == [query : Queries, seen : Seq(Snaps), disturbed : Nat]

ReadInv ==
    /\ db \in SUBSET Records /\ IsFiniteSet(db)
    /\ calls \in SUBSET Calls /\ IsFiniteSet(calls)
    /\ rolled \in SUBSET Records /\ toolRolled \in SUBSET Calls
    /\ request \in Requests \cup {None}
    /\ request # None /\ request.disturbed = 0 =>
         \A i \in DOMAIN request.seen : request.seen[i] = Snapshot

(* Nothing is asked for at the beginning.                                  *)
LEMMA ReadInvInit == Init => ReadInv
BY FS_EmptySet DEF Init, ReadInv

(* A file adds to what is committed.                                       *)
LEMMA Committed ==
  ASSUME CommitFile, db \in SUBSET Records, IsFiniteSet(db),
         calls \in SUBSET Calls, IsFiniteSet(calls)
  PROVE  /\ db' \in SUBSET Records /\ IsFiniteSet(db') /\ db \in SUBSET db'
         /\ calls' \in SUBSET Calls /\ IsFiniteSet(calls')
<1>1. PICK f \in Corpus : db' = db \cup f.records /\ calls' = calls \cup f.calls
  BY DEF CommitFile
<1>2. /\ f.records \subseteq Records /\ f.calls \subseteq Calls
      /\ IsFiniteSet(f.records) /\ IsFiniteSet(f.calls)
  BY CorpusAssumption DEF Records, Calls
<1>3. IsFiniteSet(db \cup f.records) /\ IsFiniteSet(calls \cup f.calls)
  BY <1>2, FS_Union
<1>4. QED
  BY <1>1, <1>2, <1>3

(* A change under a request is noted in it.                                *)
LEMMA DisturbInv ==
  ASSUME ReadInv, Disturb
  PROVE  /\ request' \in Requests \cup {None}
         /\ request' # None => request'.disturbed # 0
<1>1. CASE request = None
  BY <1>1 DEF Disturb
<1>2. CASE request # None
  <2>1. request \in Requests /\ request.disturbed \in Nat
    BY <1>2 DEF ReadInv, Requests
  <2>2. request' = [request EXCEPT !.disturbed = request.disturbed + 1]
    BY <1>2 DEF Disturb
  <2>3. request.disturbed + 1 \in Nat /\ request.disturbed + 1 # 0
    BY <2>1
  <2>4. request' \in Requests /\ request'.disturbed = request.disturbed + 1
    BY <2>1, <2>2, <2>3 DEF Requests
  <2>5. QED
    BY <2>3, <2>4
<1>3. QED
  BY <1>1, <1>2

(* No step breaks the invariant: what a request has seen is what there is, *)
(* unless a change was noted.                                              *)
LEMMA ReadInvNext == ReadInv /\ [Next]_vars => ReadInv'
<1> SUFFICES ASSUME ReadInv, [Next]_vars
             PROVE  ReadInv'
  OBVIOUS
<1>1. CASE CommitFile
  <2>2. /\ db' \in SUBSET Records /\ IsFiniteSet(db')
        /\ calls' \in SUBSET Calls /\ IsFiniteSet(calls')
    BY <1>1, Committed DEF ReadInv
  <2>3. request' \in Requests \cup {None} /\ (request' # None => request'.disturbed # 0)
    BY <1>1, DisturbInv DEF CommitFile
  <2>4. QED
    BY <1>1, <2>2, <2>3 DEF CommitFile, ReadInv
<1>2. CASE RebuildUsage
  <2>1. request' \in Requests \cup {None} /\ (request' # None => request'.disturbed # 0)
    BY <1>2, DisturbInv DEF RebuildUsage
  <2>2. QED
    BY <1>2, <2>1 DEF RebuildUsage, ReadInv
<1>3. CASE RebuildTools
  <2>1. request' \in Requests \cup {None} /\ (request' # None => request'.disturbed # 0)
    BY <1>3, DisturbInv DEF RebuildTools
  <2>2. QED
    BY <1>3, <2>1 DEF RebuildTools, ReadInv
<1>4. CASE Ask
  <2>1. PICK q \in Queries : request' = [query |-> q, seen |-> <<>>, disturbed |-> 0]
    BY <1>4 DEF Ask
  <2>2. request' \in Requests /\ request'.seen = <<>>
    BY <2>1 DEF Requests
  <2>3. QED
    BY <1>4, <2>2 DEF Ask, ReadInv
<1>5. CASE RunStatement
  <2>1. /\ request \in Requests /\ request.seen \in Seq(Snaps)
        /\ request' = [request EXCEPT !.seen = Append(request.seen, Snapshot)]
    BY <1>5 DEF RunStatement, ReadInv, Requests
  <2>2. Snapshot \in Snaps /\ Snapshot' = Snapshot
    BY <1>5 DEF RunStatement, ReadInv, Snapshot, Snaps
  <2>3. /\ Append(request.seen, Snapshot) \in Seq(Snaps)
        /\ \A i \in DOMAIN Append(request.seen, Snapshot) :
              \/ Append(request.seen, Snapshot)[i] = Snapshot
              \/ i \in DOMAIN request.seen
                 /\ Append(request.seen, Snapshot)[i] = request.seen[i]
    BY <2>1, <2>2
  <2>4. /\ request' \in Requests /\ request'.disturbed = request.disturbed
        /\ request'.seen = Append(request.seen, Snapshot)
    BY <2>1, <2>3 DEF Requests
  <2>5. request # None
    BY <1>5 DEF RunStatement
  <2>6. request.disturbed = 0 => \A i \in DOMAIN request.seen : request.seen[i] = Snapshot
    BY <2>5 DEF ReadInv
  <2>7. request'.disturbed = 0 =>
          \A i \in DOMAIN request'.seen : request'.seen[i] = Snapshot'
    BY <2>2, <2>3, <2>4, <2>6
  <2>8. QED
    BY <1>5, <2>4, <2>7 DEF RunStatement, ReadInv
<1>6. CASE Answer
  BY <1>6 DEF Answer, ReadInv
<1>7. CASE UNCHANGED <<db, calls, rolled, toolRolled, request>>
  BY <1>7 DEF ReadInv, Snapshot
<1>8. QED
  BY <1>1, <1>2, <1>3, <1>4, <1>5, <1>6, <1>7
     DEF Next, vars, StartRun, OpenList, FetchPage, CloseList

(* What an answer is built from, if nothing was committed under it.        *)
LEMMA AnswerSeesNow ==
  ASSUME ReadInv, Answered, request.disturbed = 0
  PROVE  /\ request.query \in Queries
         /\ Payload(request).hourly = Hourly(request.query, Snapshot)
         /\ Payload(request).token_types = TokenTypes(Hourly(request.query, Snapshot))
         /\ Payload(request).cost_by_model = CostByModel(Hourly(request.query, Snapshot))
         /\ Payload(request).total_sessions = TotalSessions(request.query, Snapshot)
         /\ Payload(request).cost_by_project = CostByProject(request.query, Snapshot)
         /\ Payload(request).sessions = SessionRows(request.query, Snapshot)
         /\ Payload(request).churn = Churn(request.query, Snapshot)
<1>1. /\ request.query \in Queries /\ request.seen \in Seq(Snaps)
      /\ Len(request.seen) = Len(Statements)
      /\ \A i \in DOMAIN request.seen : request.seen[i] = Snapshot
  BY DEF Answered, ReadInv, Requests
<1>2. Len(Statements) = 5 /\ DOMAIN Statements = 1 .. 5
  BY DEF Statements
<1>3. \A i \in 1 .. 5 : request.seen[i] = Snapshot
  BY <1>1, <1>2
<1> DEFINE At(name) == request.seen[CHOOSE i \in DOMAIN Statements : Statements[i] = name]
<1>4. ASSUME NEW name, \E i \in 1 .. 5 : Statements[i] = name
      PROVE  At(name) = Snapshot
  <2>1. (CHOOSE i \in 1 .. 5 : Statements[i] = name) \in 1 .. 5
    BY <1>4
  <2>2. QED
    BY <1>2, <1>3, <2>1
<1>5. /\ Statements[1] = "hourly" /\ Statements[2] = "total_sessions"
      /\ Statements[3] = "cost_by_project" /\ Statements[4] = "sessions"
      /\ Statements[5] = "churn"
  BY DEF Statements
<1>6. /\ At("hourly") = Snapshot /\ At("total_sessions") = Snapshot
      /\ At("cost_by_project") = Snapshot /\ At("sessions") = Snapshot
      /\ At("churn") = Snapshot
  <2> HIDE DEF At
  <2>1. 1 \in 1 .. 5 /\ 2 \in 1 .. 5 /\ 3 \in 1 .. 5 /\ 4 \in 1 .. 5 /\ 5 \in 1 .. 5
    OBVIOUS
  <2>2. QED
    BY <1>4, <1>5, <2>1
<1>7. QED
  BY <1>1, <1>6 DEF Payload

-----------------------------------------------------------------------------
(* Churn.                                                                  *)

(* The buckets of the churn panel count every line of their rows once.     *)
LEMMA ChurnSum ==
  ASSUME NEW rows, IsFiniteSet(rows), \A c \in rows : c.lines \in Nat, NEW q, NEW snap,
         rows = ToolSource(q, snap)
  PROVE  Sum(Churn(q, snap), LAMBDA b : b.lines) = Sum(rows, LAMBDA r : r.lines)
<1> DEFINE Group(r) == {x \in rows : ChurnBucket(x, q) = ChurnBucket(r, q)}
           Bar(r) == [ts |-> ChurnBucket(r, q), lines |-> Sum(Group(r), LAMBDA x : x.lines)]
           P == {Bar(r) : r \in rows}
           h == [r \in rows |-> Bar(r)]
           f == [r \in rows |-> r.lines]
           g == [b \in P |-> b.lines]
<1>1. Churn(q, snap) = P
  BY DEF Churn
<1>2. f \in [rows -> Int]
  OBVIOUS
<1>3. IsPanel(g, P, h, f, rows)
  <2>1. ASSUME NEW b \in P
        PROVE  g[b] = SumFunction(Restrict(f, Fibre(rows, h, b)))
    <3>1. PICK r \in rows : b = Bar(r)
      OBVIOUS
    <3>2. Fibre(rows, h, b) = Group(r)
      <4>1. \A x \in rows : Bar(x).ts = ChurnBucket(x, q)
        OBVIOUS
      <4>2. \A x \in rows : ChurnBucket(x, q) = ChurnBucket(r, q) => Bar(x) = Bar(r)
        OBVIOUS
      <4>3. \A x \in rows : h[x] = Bar(x)
        OBVIOUS
      <4> HIDE DEF Bar, h, P
      <4>4. \A x \in rows : h[x] = b <=> ChurnBucket(x, q) = ChurnBucket(r, q)
        BY <3>1, <4>1, <4>2, <4>3
      <4>5. QED
        BY <4>4 DEF Fibre
    <3>3. Restrict(f, Fibre(rows, h, b)) = [x \in Group(r) |-> x.lines]
      <4> HIDE DEF Bar, h, P
      <4>1. \A x \in Group(r) : f[x] = x.lines
        OBVIOUS
      <4> HIDE DEF Group, f
      <4>2. QED
        BY <3>2, <4>1 DEF Restrict
    <3>4. g[b] = Sum(Group(r), LAMBDA x : x.lines)
      BY <3>1
    <3>5. QED
      BY <3>3, <3>4 DEF Sum, SumOver
  <2>2. (\A x \in rows : h[x] \in P) /\ (\A b \in P : \E x \in rows : h[x] = b) /\ DOMAIN g = P
    OBVIOUS
  <2> HIDE DEF P, h, f, g
  <2>3. QED
    BY <2>1, <2>2 DEF IsPanel
<1>4. SumFunction(g) = SumFunction(f)
  <2> HIDE DEF P, h, f, g
  <2>1. QED
    BY <1>2, <1>3, PanelSum
<1>5. QED
  BY <1>1, <1>4 DEF Sum, SumOver

(* Every line of the hours that the range has whole is in one bucket of    *)
(* the churn panel, and no other line is.                                  *)
THEOREM ChurnShowsWholeHours == Spec => []ChurnOfWholeHours
<1>1. ReadInv => ChurnOfWholeHours
  <2> SUFFICES ASSUME ReadInv, Answered, request.disturbed = 0, Settled
               PROVE  LET q == request.query
                          p == Payload(request)
                          shown == InRange(calls, [q EXCEPT !.model = None])
                          late == {r \in shown :
                                     UseRollup(q) => \/ HourOf(r.ts) # HourOf(Since(q))
                                                     \/ HourOf(r.ts) = Since(q)}
                      IN Sum(p.churn, LAMBDA b : b.lines) = Sum(late, LAMBDA r : r.lines)
    BY DEF ChurnOfWholeHours
  <2> DEFINE q == request.query
             all == [q EXCEPT !.model = None]
             late == {r \in InRange(calls, all) :
                        UseRollup(q) => \/ HourOf(r.ts) # HourOf(Since(q))
                                        \/ HourOf(r.ts) = Since(q)}
             rows == ToolSource(q, Snapshot)
  <2>1. Payload(request).churn = Churn(q, Snapshot) /\ q \in Queries
    BY AnswerSeesNow
  <2>2. /\ Snapshot.calls = calls /\ Snapshot.toolRolled = calls
        /\ calls \in SUBSET Calls /\ IsFiniteSet(calls)
    BY DEF Snapshot, Settled, ReadInv
  <2>3. rows = {r \in Stamped(calls) : /\ SourceHour(r.ts, q) >= Since(q)
                                       /\ q.project \in {None, r.project}}
    BY <2>2 DEF ToolSource, ToolRows
  <2>4. IsFiniteSet(rows) /\ \A c \in rows : c.lines \in Nat
    <3>1. rows \in SUBSET calls
      BY <2>3 DEF Stamped
    <3> HIDE DEF rows
    <3>2. QED
      BY <2>2, <3>1, FS_Subset, CorpusAssumption
  <2>5. late = rows
    <3>1. /\ all.span = q.span /\ all.project = q.project /\ all.model = None
          /\ q.span \in Spans
      BY <2>1 DEF Queries
    <3>2. UseRollup(all) = UseRollup(q) /\ Since(all) = Since(q) /\ Since(q) \in Nat
      BY <3>1, SinceNat DEF UseRollup, Since
    <3>3. \A r \in Stamped(calls) : r.ts \in Nat
      BY <2>2, CorpusAssumption DEF Stamped
    <3> HIDE DEF all, q, rows
    <3>4. late = {r \in Stamped(calls) :
                    /\ r.ts >= (IF UseRollup(q) THEN HourOf(Since(q)) ELSE Since(q))
                    /\ q.project \in {None, r.project}
                    /\ UseRollup(q) => \/ HourOf(r.ts) # HourOf(Since(q))
                                       \/ HourOf(r.ts) = Since(q)}
      BY <3>1, <3>2 DEF InRange, Filtered
    <3>5. \A r \in Stamped(calls) : SourceHour(r.ts, q) >= Since(q) <=>
                    /\ r.ts >= (IF UseRollup(q) THEN HourOf(Since(q)) ELSE Since(q))
                    /\ UseRollup(q) => \/ HourOf(r.ts) # HourOf(Since(q))
                                       \/ HourOf(r.ts) = Since(q)
      BY <3>2, <3>3, Hours DEF SourceHour
    <3>6. QED
      BY <2>3, <3>4, <3>5
  <2> HIDE DEF rows
  <2>6. Sum(Churn(q, Snapshot), LAMBDA b : b.lines) = Sum(rows, LAMBDA r : r.lines)
    BY <2>4, ChurnSum DEF rows
  <2>7. QED
    BY <2>1, <2>5, <2>6
<1>2. QED
  BY <1>1, ReadInvInit, ReadInvNext, PTL DEF Spec

-----------------------------------------------------------------------------
(* The picker.                                                             *)

(* The rollup is a source of rows without a filter.                        *)
LEMMA RollupRows == ASSUME NEW R PROVE UsageRollup(R) = Source(Stamped(R), TRUE)
BY DEF UsageRollup, Source, Sourced

(* SourceSum, of the costs.                                                *)
LEMMA CostColumn ==
  ASSUME NEW R \in SUBSET Timed, IsFiniteSet(R), NEW hourly \in BOOLEAN,
         NEW U \in SUBSET Source(R, hourly)
  PROVE  /\ IsFiniteSet(U) /\ \A u \in U : u.cost \in Nat
         /\ Sum(U, LAMBDA u : u.cost)
              = Sum({x \in R : Sourced(R, hourly, x) \in U}, LAMBDA r : r.cost)
<1>1. \A u : Of(u, "cost") = u.cost /\ Adding(u, "cost") = u.cost
  BY DEF Of, Adding
<1>2. "cost" \in Columns
  BY DEF Columns
<1>3. /\ IsFiniteSet(U) /\ \A u \in U : Of(u, "cost") \in Nat
      /\ SumFunction([u \in U |-> Of(u, "cost")])
           = SumFunction([r \in {x \in R : Sourced(R, hourly, x) \in U} |-> Adding(r, "cost")])
  BY <1>2, SourceSum
<1>4. QED
  BY <1>1, <1>3 DEF Sum, SumOver

(* The names and the costs the picker has are those of the records.        *)
THEOREM PickerShowsSpenders == Spec => []PickerAgrees
<1>1. ReadInv => PickerAgrees
  <2> SUFFICES ASSUME ReadInv, Settled, NEW span \in Spans
               PROVE  LET rows == InRange(db, [span |-> span, project |-> None, model |-> None])
                          picked == Picker(span)
                      IN /\ \A r \in Stamped(db) : r.cost > 0 =>
                              \E b \in picked : b.project = PickerName(r.project)
                         /\ UseRollup([span |-> span]) =>
                              \A b \in picked :
                                b.cost = Sum({r \in rows : PickerName(r.project) = b.project},
                                             LAMBDA r : r.cost)
    BY DEF PickerAgrees
  <2> DEFINE R == Stamped(db)
             q == [span |-> span, project |-> None, model |-> None]
             Row(r) == Sourced(R, TRUE, r)
             Of0(rows, n) == {u \in rows : PickerName(u.project) = n}
             recent == {u \in Source(R, TRUE) : u.hour >= HourOf(Now - span)}
             Bar(n) == [project |-> n, cost |-> Sum(Of0(recent, n), LAMBDA u : u.cost)]
             names == {PickerName(u.project) : u \in Source(R, TRUE)}
  <2>1. Stamped(rolled) = R /\ R \in SUBSET Timed /\ IsFiniteSet(R)
    BY StampedPart DEF Settled, ReadInv
  <2>2. Picker(span) = {Bar(n) : n \in {m \in names :
                            Sum(Of0(Source(R, TRUE), m), LAMBDA u : u.cost) # 0}}
    <3>1. UsageRollup(rolled) = Source(R, TRUE)
      BY <2>1, RollupRows
    <3> QED
      BY <3>1, SMT DEF Picker
  <2>3. \A r \in R : Row(r) \in Source(R, TRUE) /\ Row(r).project = r.project
                        /\ Row(r).hour = HourOf(r.ts)
    BY SourceFields DEF Source
  <2>4. ASSUME NEW U \in SUBSET Source(R, TRUE)
        PROVE  Sum(U, LAMBDA u : u.cost) = Sum({x \in R : Row(x) \in U}, LAMBDA r : r.cost)
    BY <2>1, CostColumn
  <2> HIDE DEF Row, R
  <2>5. ASSUME NEW r \in R, r.cost > 0
        PROVE  \E b \in Picker(span) : b.project = PickerName(r.project)
    <3> DEFINE n == PickerName(r.project)
               U == Of0(Source(R, TRUE), n)
               S == {x \in R : Row(x) \in U}
               f == [x \in S |-> x.cost]
    <3>1. n \in names /\ r \in S
      BY <2>3
    <3>2. /\ IsFiniteSet(S) /\ DOMAIN f = S /\ \A x \in S : f[x] \in Nat
          /\ f[r] = r.cost /\ r.cost \in Nat
      BY <2>1, <3>1, FS_Subset, TimedRecords
    <3>3. Sum(U, LAMBDA u : u.cost) = SumFunction(f)
      BY <2>4 DEF Sum, SumOver
    <3>4. SumFunction(f) # 0
      <4> HIDE DEF f, S
      <4>1. QED
        BY <2>5, <3>1, <3>2, SumNat DEF SumFunction
    <3>5. Bar(n) \in Picker(span) /\ Bar(n).project = n
      BY <2>2, <3>1, <3>3, <3>4
    <3>6. QED
      BY <3>5
  <2>6. ASSUME UseRollup([span |-> span]), NEW b \in Picker(span)
        PROVE  b.cost = Sum({r \in InRange(db, q) : PickerName(r.project) = b.project},
                            LAMBDA r : r.cost)
    <3>1. PICK n : b = Bar(n)
      BY <2>2
    <3>2. b.project = n /\ b.cost = Sum(Of0(recent, n), LAMBDA u : u.cost)
      BY <3>1
    <3>3. b.cost = Sum({x \in R : Row(x) \in Of0(recent, n)}, LAMBDA r : r.cost)
      BY <2>4, <3>2
    <3>4. {x \in R : Row(x) \in Of0(recent, n)}
            = {r \in InRange(db, q) : PickerName(r.project) = n}
      <4>1. UseRollup(q) /\ Since(q) = Now - span /\ q.project = None /\ q.model = None
        BY <2>6 DEF UseRollup, Since
      <4>2. Since(q) \in Nat /\ \A x \in R : x.ts \in Nat
        BY <2>1, SinceNat, TimedRecords
      <4> HIDE DEF q
      <4>3. InRange(db, q) = {x \in R : x.ts >= HourOf(Now - span)}
        BY <4>1 DEF InRange, Filtered, R
      <4>4. \A x \in R : x.ts >= HourOf(Now - span) <=> HourOf(x.ts) >= HourOf(Now - span)
        BY <4>1, <4>2, Hours
      <4>5. \A x \in R : Row(x) \in Of0(recent, n) <=>
                            HourOf(x.ts) >= HourOf(Now - span) /\ PickerName(x.project) = n
        BY <2>3
      <4>6. QED
        BY <4>3, <4>4, <4>5
    <3>5. QED
      BY <3>2, <3>3, <3>4
  <2>7. QED
    BY <2>5, <2>6 DEF R
<1>2. QED
  BY <1>1, ReadInvInit, ReadInvNext, PTL DEF Spec

-----------------------------------------------------------------------------
(* Rate epochs: an instant of an epoch is priced as any other of it.       *)

(* A finite set of integers has a least and a greatest one.                *)
LEMMA FiniteExtremes ==
  ASSUME NEW S \in SUBSET Int, IsFiniteSet(S), S # {}
  PROVE  /\ \E a \in S : \A y \in S : a <= y
         /\ \E b \in S : \A y \in S : y <= b
<1> DEFINE Both(T) == T # {} => /\ \E a \in T : \A y \in T : a <= y
                                /\ \E b \in T : \A y \in T : y <= b
           G == {T \in SUBSET S : Both(T)}
<1>1. {} \in G
  OBVIOUS
<1>2. ASSUME NEW T \in SUBSET S, NEW x \in S \ T, T \in G
      PROVE  T \cup {x} \in G
  <2>1. CASE T = {}
    <3>1. T \cup {x} = {x}
      BY <2>1
    <3>2. x <= x
      OBVIOUS
    <3>3. QED
      BY <3>1, <3>2
  <2>2. CASE T # {}
    <3>1. PICK a \in T : \A y \in T : a <= y
      BY <1>2, <2>2
    <3>2. PICK b \in T : \A y \in T : y <= b
      BY <1>2, <2>2
    <3>3. \E c \in T \cup {x} : \A y \in T \cup {x} : c <= y
      <4>1. CASE x <= a
        BY <3>1, <4>1
      <4>2. CASE a <= x
        BY <3>1, <4>2
      <4>3. QED
        BY <4>1, <4>2
    <3>4. \E c \in T \cup {x} : \A y \in T \cup {x} : y <= c
      <4>1. CASE x <= b
        BY <3>2, <4>1
      <4>2. CASE b <= x
        BY <3>2, <4>2
      <4>3. QED
        BY <4>1, <4>2
    <3>5. QED
      BY <3>3, <3>4
  <2>3. QED
    BY <2>1, <2>2
<1> HIDE DEF G
<1>3. S \in G
  BY <1>1, <1>2, FiniteInduct
<1>4. QED
  BY <1>3 DEF G

(* Rates change finitely often.                                            *)
LEMMA RateEpochsFinite == IsFiniteSet(RateEpochs) /\ RateEpochs \subseteq Int
<1> DEFINE Cuts(m) == {DatedRates[m][i].until : i \in DOMAIN DatedRates[m]}
           D == DOMAIN DatedRates
           All == {Cuts(m) : m \in D}
<1>1. ASSUME NEW m \in D
      PROVE  IsFiniteSet(Cuts(m)) /\ Cuts(m) \subseteq Int
  <2> DEFINE W == DOMAIN DatedRates[m]
             h == [i \in W |-> DatedRates[m][i].until]
             C == Cuts(m)
  <2>1. IsFiniteSet(W) /\ \A i \in W : DatedRates[m][i].until \in Int
    BY PricingAssumption
  <2>2. (\A i \in W : h[i] \in C) /\ (\A t \in C : \E i \in W : h[i] = t)
    OBVIOUS
  <2>3. C \subseteq Int
    BY <2>1
  <2> HIDE DEF h, C, W
  <2>4. IsFiniteSet(C)
    BY <2>1, <2>2, ImageFinite
  <2>5. QED
    BY <2>3, <2>4 DEF C
<1>2. IsFiniteSet(All)
  <2> DEFINE h == [m \in D |-> Cuts(m)]
  <2>1. IsFiniteSet(D)
    BY PricingAssumption
  <2>2. (\A i \in D : h[i] \in All) /\ (\A t \in All : \E i \in D : h[i] = t)
    OBVIOUS
  <2> HIDE DEF h, All, D
  <2>3. QED
    BY <2>1, <2>2, ImageFinite
<1>3. \A T \in All : IsFiniteSet(T) /\ T \subseteq Int
  BY <1>1
<1>4. RateEpochs = UNION All
  BY DEF RateEpochs
<1> HIDE DEF All
<1>5. IsFiniteSet(UNION All)
  BY <1>2, <1>3, FS_UNION
<1>6. QED
  BY <1>3, <1>4, <1>5

(* No instant is past more changes than there are.                         *)
LEMMA RateEpochBound ==
  ASSUME NEW ts \in Int
  PROVE  RateEpoch(ts) \in 0 .. Cardinality(RateEpochs)
<1> DEFINE L == {e \in RateEpochs : e <= ts}
<1>1. /\ IsFiniteSet(L) /\ Cardinality(L) <= Cardinality(RateEpochs)
  BY RateEpochsFinite, FS_Subset
<1>2. Cardinality(L) \in Nat /\ Cardinality(RateEpochs) \in Nat
  BY <1>1, RateEpochsFinite, FS_CardinalityType
<1>3. QED
  BY <1>1, <1>2 DEF RateEpoch

(* The instant chosen for an epoch is past the changes that the epoch is   *)
(* past.                                                                   *)
LEMMA EpochHasSameCuts ==
  ASSUME NEW ts \in Int
  PROVE  /\ EpochTs(RateEpoch(ts)) \in Int
         /\ \A e \in RateEpochs : e <= EpochTs(RateEpoch(ts)) <=> e <= ts
<1> DEFINE Upto(t) == {e \in RateEpochs : e <= t}
           i == RateEpoch(ts)
<1>0. /\ IsFiniteSet(RateEpochs) /\ RateEpochs \subseteq Int
      /\ i \in 0 .. Cardinality(RateEpochs) /\ Cardinality(RateEpochs) \in Nat
  BY RateEpochsFinite, RateEpochBound, FS_CardinalityType
<1>1. CASE RateEpochs = {}
  BY <1>1 DEF EpochTs
<1>2. CASE RateEpochs # {} /\ i = 0
  <2>1. Upto(ts) = {}
    <3>1. IsFiniteSet(Upto(ts)) /\ Cardinality(Upto(ts)) = 0
      BY <1>0, <1>2, FS_Subset DEF RateEpoch
    <3>2. QED
      BY <3>1, FS_EmptySet
  <2>2. Min(RateEpochs) \in RateEpochs /\ \A e \in RateEpochs : Min(RateEpochs) <= e
    BY <1>0, <1>2, FiniteExtremes DEF Min
  <2>3. EpochTs(i) = Min(RateEpochs) - 1
    BY <1>2 DEF EpochTs
  <2>4. \A e \in RateEpochs : ~(e <= ts)
    BY <2>1
  <2> DEFINE a == Min(RateEpochs)
  <2>5. a \in Int /\ EpochTs(i) = a - 1 /\ \A e \in RateEpochs : e \in Int /\ a <= e
    BY <1>0, <2>2, <2>3
  <2> HIDE DEF a, i
  <2>6. EpochTs(i) \in Int /\ \A e \in RateEpochs : ~(e <= EpochTs(i))
    BY <2>5
  <2>7. QED
    BY <2>4, <2>6 DEF i
<1>3. CASE RateEpochs # {} /\ i # 0
  <2>1. i > 0 /\ i = Cardinality(Upto(ts)) /\ IsFiniteSet(Upto(ts)) /\ Upto(ts) \subseteq Int
    <3>1. IsFiniteSet(Upto(ts)) /\ Upto(ts) \subseteq Int
      BY <1>0, FS_Subset
    <3>2. i = Cardinality(Upto(ts))
      BY DEF RateEpoch
    <3> HIDE DEF i
    <3>3. i > 0
      BY <1>0, <1>3
    <3>4. QED
      BY <3>1, <3>2, <3>3
  <2>2. Upto(ts) # {}
    <3> HIDE DEF i
    <3>1. Cardinality(Upto(ts)) # 0
      BY <2>1
    <3>2. QED
      BY <3>1, FS_EmptySet
  <2>3. PICK b \in Upto(ts) : \A y \in Upto(ts) : y <= b
    BY <2>1, <2>2, FiniteExtremes
  <2>4. Upto(b) = Upto(ts)
    <3>1. b \in Int /\ b <= ts /\ \A e \in RateEpochs : e \in Int
      BY <1>0, <2>3
    <3>2. \A e \in RateEpochs : e <= b <=> e <= ts
      BY <2>3, <3>1
    <3>3. QED
      BY <3>2
  <2>5. RateEpoch(b) = i /\ b \in RateEpochs
    BY <2>4, <2>1 DEF RateEpoch
  <2>6. EpochTs(i) = CHOOSE e \in RateEpochs : RateEpoch(e) = i
    <3> HIDE DEF i
    <3>1. i <= 0 <=> FALSE
      BY <1>0, <1>3
    <3>2. (IF i < Cardinality(RateEpochs) THEN i ELSE Cardinality(RateEpochs)) = i
      BY <1>0
    <3>3. QED
      BY <1>3, <3>1, <3>2 DEF EpochTs
  <2>7. EpochTs(i) \in RateEpochs /\ RateEpoch(EpochTs(i)) = i
    BY <2>5, <2>6
  <2> DEFINE c == EpochTs(i)
  <2>8. c \in Int /\ Cardinality(Upto(c)) = Cardinality(Upto(ts))
    BY <1>0, <2>1, <2>7 DEF RateEpoch
  <2> HIDE DEF c, i
  <2>9. Upto(c) = Upto(ts)
    <3>1. CASE c <= ts
      <4>1. \A e \in RateEpochs : e \in Int /\ (e <= c => e <= ts)
        BY <1>0, <2>8, <3>1
      <4>2. Upto(c) \in SUBSET Upto(ts)
        BY <4>1
      <4>3. QED
        BY <2>1, <2>8, <4>2, FS_Subset
    <3>2. CASE ts <= c
      <4>1. \A e \in RateEpochs : e \in Int /\ (e <= ts => e <= c)
        BY <1>0, <2>8, <3>2
      <4>2. Upto(ts) \in SUBSET Upto(c) /\ IsFiniteSet(Upto(c))
        BY <1>0, <4>1, FS_Subset
      <4>3. QED
        BY <2>8, <4>2, FS_Subset
    <3>3. QED
      BY <2>8, <3>1, <3>2
  <2>10. \A e \in RateEpochs : e <= c <=> e <= ts
    BY <2>9
  <2>11. QED
    BY <2>8, <2>10 DEF c, i
<1>4. QED
  BY <1>1, <1>2, <1>3

(* The rates of an epoch's instant are those of every request in it.       *)
LEMMA EpochRates ==
  ASSUME NEW ts \in Int, NEW model
  PROVE  /\ RateFor(model, EpochTs(RateEpoch(ts))) = RateFor(model, ts)
         /\ IsRates(RateFor(model, ts))
<1> DEFINE c == EpochTs(RateEpoch(ts))
           Open(t) == {i \in DOMAIN DatedRates[model] : t < DatedRates[model][i].until}
<1>1. CASE model \notin DOMAIN ModelRates
  BY <1>1, PricingAssumption DEF RateFor
<1>2. CASE model \in DOMAIN ModelRates
  <2>1. c \in Int /\ \A e \in RateEpochs : e <= c <=> e <= ts
    BY EpochHasSameCuts
  <2>2. \A i \in DOMAIN DatedRates[model] : /\ DatedRates[model][i].until \in RateEpochs
                                            /\ DatedRates[model][i].until \in Int
    BY <1>2, PricingAssumption DEF RateEpochs
  <2> HIDE DEF c
  <2>3. \A i \in DOMAIN DatedRates[model] :
          c < DatedRates[model][i].until <=> ts < DatedRates[model][i].until
    <3> SUFFICES ASSUME NEW e, e \in RateEpochs, e \in Int
                 PROVE  c < e <=> ts < e
      BY <2>2
    <3>1. e <= c <=> e <= ts
      BY <2>1
    <3>2. QED
      BY <2>1, <3>1
  <2>4. Open(c) = Open(ts) /\ c # None /\ ts # None
    BY <2>1, <2>3, PanelsAssumption
  <2>5. Dated(model, c) = Dated(model, ts)
    BY <2>4 DEF Dated
  <2>6. IsRates(Dated(model, ts))
    <3>1. /\ Open(ts) \in SUBSET Nat
          /\ \A i \in Open(ts) : IsRates(DatedRates[model][i].rates)
          /\ IsRates(ModelRates[model])
      BY <1>2, PricingAssumption
    <3>2. Open(ts) # {} => Min(Open(ts)) \in Open(ts)
      BY <3>1, MinNat
    <3>3. Dated(model, ts) = IF Open(ts) = {} THEN ModelRates[model]
                             ELSE DatedRates[model][Min(Open(ts))].rates
      BY <2>4 DEF Dated
    <3>4. QED
      BY <3>1, <3>2, <3>3
  <2>7. QED
    BY <1>2, <2>5, <2>6 DEF RateFor, c
<1>3. QED
  BY <1>1, <1>2

-----------------------------------------------------------------------------
(* The breakdown of a model's cost.                                        *)

(* A sum of multiples.                                                     *)
LEMMA SumScale ==
  ASSUME NEW S, IsFiniteSet(S), NEW f, \A x \in S : f[x] \in Int, NEW c \in Int,
         NEW g, \A x \in S : g[x] = c * f[x]
  PROVE  SumFunctionOnSet(g, S) = c * SumFunctionOnSet(f, S)
<1> DEFINE G == {T \in SUBSET S : SumFunctionOnSet(g, T) = c * SumFunctionOnSet(f, T)}
<1>1. {} \in G
  BY SumEmpty
<1>2. ASSUME NEW T \in SUBSET S, NEW x \in S \ T, T \in G
      PROVE  T \cup {x} \in G
  <2>1. IsFiniteSet(T) /\ (\A y \in T \cup {x} : f[y] \in Int)
    BY FS_Subset
  <2>2. \A y \in T \cup {x} : g[y] \in Int
    BY <2>1
  <2>3. SumFunctionOnSet(f, T \cup {x}) = f[x] + SumFunctionOnSet(f, T)
    BY <2>1, SumAdd
  <2>4. SumFunctionOnSet(g, T \cup {x}) = g[x] + SumFunctionOnSet(g, T)
    BY <2>1, <2>2, SumAdd
  <2>5. SumFunctionOnSet(f, T) \in Int
    BY <2>1, SumInt
  <2>6. \A a, b \in Int : c * (a + b) = c * a + c * b
    OBVIOUS
  <2>7. c * (f[x] + SumFunctionOnSet(f, T)) = c * f[x] + c * SumFunctionOnSet(f, T)
    BY <2>1, <2>5, <2>6
  <2>8. QED
    BY <1>2, <2>3, <2>4, <2>7
<1> HIDE DEF G
<1>3. S \in G
  BY <1>1, <1>2, FiniteInduct
<1>4. QED
  BY <1>3 DEF G

(* A sum of sums.                                                          *)
LEMMA SumPlus ==
  ASSUME NEW S, IsFiniteSet(S), NEW f, \A x \in S : f[x] \in Int,
         NEW g, \A x \in S : g[x] \in Int,
         NEW k, \A x \in S : k[x] = f[x] + g[x]
  PROVE  SumFunctionOnSet(k, S) = SumFunctionOnSet(f, S) + SumFunctionOnSet(g, S)
<1> DEFINE G == {T \in SUBSET S : SumFunctionOnSet(k, T)
                                    = SumFunctionOnSet(f, T) + SumFunctionOnSet(g, T)}
<1>1. {} \in G
  BY SumEmpty
<1>2. ASSUME NEW T \in SUBSET S, NEW x \in S \ T, T \in G
      PROVE  T \cup {x} \in G
  <2>1. /\ IsFiniteSet(T) /\ \A y \in T \cup {x} : f[y] \in Int
        /\ \A y \in T \cup {x} : g[y] \in Int
    BY FS_Subset
  <2>2. \A y \in T \cup {x} : k[y] \in Int
    BY <2>1
  <2>3. SumFunctionOnSet(f, T \cup {x}) = f[x] + SumFunctionOnSet(f, T)
    BY <2>1, SumAdd
  <2>4. SumFunctionOnSet(g, T \cup {x}) = g[x] + SumFunctionOnSet(g, T)
    BY <2>1, SumAdd
  <2>5. SumFunctionOnSet(k, T \cup {x}) = k[x] + SumFunctionOnSet(k, T)
    BY <2>1, <2>2, SumAdd
  <2>6. SumFunctionOnSet(f, T) \in Int /\ SumFunctionOnSet(g, T) \in Int
    BY <2>1, SumInt
  <2>7. /\ k[x] = f[x] + g[x] /\ f[x] \in Int /\ g[x] \in Int
        /\ SumFunctionOnSet(k, T) = SumFunctionOnSet(f, T) + SumFunctionOnSet(g, T)
    BY <1>2, <2>1
  <2>8. SumFunctionOnSet(k, T \cup {x})
          = SumFunctionOnSet(f, T \cup {x}) + SumFunctionOnSet(g, T \cup {x})
    BY <2>3, <2>4, <2>5, <2>6, <2>7
  <2>9. QED
    BY <2>8
<1> HIDE DEF G
<1>3. S \in G
  BY <1>1, <1>2, FiniteInduct
<1>4. QED
  BY <1>3 DEF G

(* What records of one model are billed for one kind of token.             *)
Billed(rows, model, b) == [r \in rows |-> 2 * RateFor(model, r.ts)[b] * r.toks[b]]

(* What one record is billed for one kind of token.                        *)
LEMMA BilledInt ==
  ASSUME NEW rows \in SUBSET Timed, NEW model, NEW b \in Buckets, NEW r \in rows
  PROVE  /\ Billed(rows, model, b)[r] = 2 * RateFor(model, r.ts)[b] * r.toks[b]
         /\ Billed(rows, model, b)[r] \in Int
<1>1. r.ts \in Int /\ r.toks[b] \in Nat
  BY TimedRecords
<1>2. RateFor(model, r.ts)[b] \in Nat
  BY <1>1, EpochRates DEF IsRates
<1>3. Billed(rows, model, b)[r] = 2 * RateFor(model, r.ts)[b] * r.toks[b]
  BY DEF Billed
<1>4. QED
  BY <1>1, <1>2, <1>3

(* Every number up to that of the changes is that of an epoch.             *)
LEMMA EpochExists ==
  ASSUME NEW k \in 1 .. Cardinality(RateEpochs)
  PROVE  \E e \in RateEpochs : RateEpoch(e) = k
<1> DEFINE N == Cardinality(RateEpochs)
           Late == {e \in RateEpochs : RateEpoch(e) >= k}
           Upto(t) == {x \in RateEpochs : x <= t}
<1>1. IsFiniteSet(RateEpochs) /\ RateEpochs \subseteq Int /\ N \in Nat
  BY RateEpochsFinite, FS_CardinalityType
<1>2. \A e \in RateEpochs : RateEpoch(e) \in Nat
  BY <1>1, RateEpochBound
<1>3. Late # {}
  <2>1. RateEpochs # {}
    BY <1>1, FS_EmptySet
  <2>2. PICK b \in RateEpochs : \A y \in RateEpochs : y <= b
    BY <1>1, <2>1, FiniteExtremes
  <2>3. Upto(b) = RateEpochs
    BY <2>2
  <2>4. RateEpoch(b) = N
    BY <2>3 DEF RateEpoch
  <2>5. QED
    BY <2>2, <2>4
<1>4. Late \in SUBSET Int /\ IsFiniteSet(Late)
  BY <1>1, FS_Subset
<1>5. PICK e \in Late : \A y \in Late : e <= y
  BY <1>3, <1>4, FiniteExtremes
<1> DEFINE Before == {x \in RateEpochs : x < e}
<1>6. e \in RateEpochs /\ e \in Int /\ RateEpoch(e) >= k /\ RateEpoch(e) \in Nat
  BY <1>1, <1>2, <1>5
<1>7. IsFiniteSet(Before) /\ Before \subseteq Int
  BY <1>1, FS_Subset
<1>8. Cardinality(Before) \in Nat /\ RateEpoch(e) = Cardinality(Before) + 1
  <2>1. Upto(e) = Before \cup {e} /\ e \notin Before
    <3>1. \A x \in RateEpochs : x <= e <=> (x < e \/ x = e)
      BY <1>1, <1>6
    <3>2. ~(e < e)
      BY <1>6
    <3>3. QED
      BY <1>6, <3>1, <3>2
  <2>2. Cardinality(Before) \in Nat
    BY <1>7, FS_CardinalityType
  <2> HIDE DEF Before
  <2>3. Cardinality(Upto(e)) = Cardinality(Before) + 1
    BY <1>7, <2>1, FS_AddElement
  <2>4. QED
    BY <2>2, <2>3 DEF RateEpoch
<1>9. Cardinality(Before) < k
  <2>1. CASE Before = {}
    BY <2>1, FS_EmptySet
  <2>2. CASE Before # {}
    <3>1. PICK p \in Before : \A y \in Before : y <= p
      BY <1>7, <2>2, FiniteExtremes
    <3>2. p \in RateEpochs /\ p \in Int /\ p < e /\ RateEpoch(p) \in Nat
      BY <1>1, <1>2, <3>1
    <3>3. ~(RateEpoch(p) >= k)
      BY <1>5, <1>6, <3>2
    <3>4. Upto(p) = Before
      <4>1. \A x \in RateEpochs : x <= p <=> x < e
        BY <1>1, <1>6, <3>1, <3>2
      <4>2. QED
        BY <4>1
    <3>5. RateEpoch(p) = Cardinality(Before)
      BY <3>4 DEF RateEpoch
    <3>6. QED
      BY <3>2, <3>3, <3>5
  <2>3. QED
    BY <2>1, <2>2
<1>10. RateEpoch(e) = k
  BY <1>6, <1>8, <1>9
<1>11. QED
  BY <1>6, <1>10

(* Every epoch has an instant.                                             *)
LEMMA EpochTsInt ==
  ASSUME NEW k \in 0 .. Cardinality(RateEpochs)
  PROVE  EpochTs(k) \in Int
<1>1. IsFiniteSet(RateEpochs) /\ RateEpochs \subseteq Int /\ Cardinality(RateEpochs) \in Nat
  BY RateEpochsFinite, FS_CardinalityType
<1>2. CASE RateEpochs = {}
  BY <1>2 DEF EpochTs
<1>3. CASE RateEpochs # {} /\ k = 0
  <2>1. Min(RateEpochs) \in RateEpochs
    BY <1>1, <1>3, FiniteExtremes DEF Min
  <2>2. EpochTs(k) = Min(RateEpochs) - 1
    BY <1>3 DEF EpochTs
  <2>3. Min(RateEpochs) \in Int
    BY <1>1, <2>1
  <2>4. QED
    BY <2>2, <2>3
<1>4. CASE RateEpochs # {} /\ k # 0
  <2>1. k \in 1 .. Cardinality(RateEpochs)
    BY <1>1, <1>4
  <2>2. /\ ~(k <= 0)
        /\ (IF k < Cardinality(RateEpochs) THEN k ELSE Cardinality(RateEpochs)) = k
    BY <1>1, <2>1
  <2>3. EpochTs(k) = CHOOSE e \in RateEpochs : RateEpoch(e) = k
    BY <1>4, <2>2 DEF EpochTs
  <2>4. EpochTs(k) \in RateEpochs
    BY <2>1, <2>3, EpochExists
  <2>5. QED
    BY <1>1, <2>4
<1>5. QED
  BY <1>2, <1>3, <1>4

(* Priced again from the sums of the epochs, a component is what its       *)
(* records were billed for it.                                             *)
LEMMA BucketIsBilled ==
  ASSUME NEW all \in SUBSET Timed, IsFiniteSet(all), NEW model, NEW b \in Buckets
  PROVE  CostBucket(all, model, b)
           = SumFunctionOnSet(Billed({r \in all : r.model = model}, model, b),
                              {r \in all : r.model = model})
<1> DEFINE rows == {r \in all : r.model = model}
           B == Billed(rows, model, b)
           E == 0 .. Cardinality(RateEpochs)
           h == [r \in rows |-> RateEpoch(r.ts)]
           In(e) == {r \in rows : h[r] = e}
           term == [e \in E |-> 2 * RateFor(model, EpochTs(e))[b]
                                  * SumFunction([r \in In(e) |-> r.toks[b]])]
           sums == [e \in E |-> SumFunctionOnSet(B, {r \in rows : h[r] = e})]
<1>1. /\ IsFiniteSet(rows) /\ rows \in SUBSET Timed
      /\ \A r \in rows : r.ts \in Int /\ r.toks[b] \in Nat
  BY FS_Subset, TimedRecords
<1>2. Cardinality(RateEpochs) \in Nat /\ IsFiniteSet(E)
  BY RateEpochsFinite, FS_CardinalityType, FS_Interval
<1>3. \A r \in rows : h[r] \in E /\ h[r] = RateEpoch(r.ts)
  BY <1>1, RateEpochBound
<1>4. \A r \in rows : B[r] = 2 * RateFor(model, r.ts)[b] * r.toks[b] /\ B[r] \in Int
  BY <1>1, BilledInt
<1>5. CostBucket(all, model, b) = SumFunction(term)
  <2>1. \A e : {r \in all : r.model = model /\ RateEpoch(r.ts) = e} = In(e)
    BY <1>3
  <2>2. QED
    BY <2>1 DEF CostBucket, SumOver
<1>6. ASSUME NEW e \in E
      PROVE  term[e] = sums[e] /\ sums[e] \in Int
  <2> DEFINE F == {r \in rows : h[r] = e}
             p == [r \in F |-> r.toks[b]]
             c == 2 * RateFor(model, EpochTs(e))[b]
  <2>1. /\ IsFiniteSet(F) /\ F \subseteq rows /\ DOMAIN p = F
        /\ \A r \in F : p[r] = r.toks[b] /\ p[r] \in Int
    <3>1. F \in SUBSET rows
      OBVIOUS
    <3>2. IsFiniteSet(F)
      <4> HIDE DEF F, rows
      <4>1. QED
        BY <1>1, <3>1, FS_Subset
    <3>3. QED
      BY <1>1, <3>1, <3>2
  <2>2. term[e] = c * SumFunctionOnSet(p, F) /\ sums[e] = SumFunctionOnSet(B, F)
    BY <2>1 DEF SumFunction
  <2>3. sums[e] \in Int
    <3> HIDE DEF B, F, p, c, sums
    <3>1. QED
      BY <1>4, <2>1, <2>2, SumInt
  <2>4. CASE F = {}
    <3>1. SumFunctionOnSet(p, F) = 0 /\ SumFunctionOnSet(B, F) = 0
      BY <2>4, SumEmpty
    <3>2. c * 0 = 0
      <4>1. EpochTs(e) \in Int
        BY EpochTsInt
      <4>2. QED
        BY <4>1, EpochRates DEF IsRates
    <3>3. QED
      BY <2>2, <3>1, <3>2
  <2>5. CASE F # {}
    <3>1. PICK x \in F : TRUE
      BY <2>5
    <3>2. \A r \in F : r.ts \in Int /\ RateEpoch(r.ts) = e
      BY <1>1, <1>3
    <3>3. \A r \in F : RateFor(model, r.ts) = RateFor(model, EpochTs(e))
      BY <3>2, EpochRates
    <3>4. c \in Int
      <4>1. RateFor(model, EpochTs(e))[b] \in Nat
        BY <3>1, <3>2, <3>3, EpochRates DEF IsRates
      <4>2. QED
        BY <4>1
    <3>5. \A r \in F : B[r] = c * p[r]
      BY <1>4, <2>1, <3>3
    <3> HIDE DEF B, F, p, c, sums, term
    <3>6. SumFunctionOnSet(B, F) = c * SumFunctionOnSet(p, F)
      BY <2>1, <3>4, <3>5, SumScale
    <3>7. QED
      BY <2>2, <2>3, <3>6
  <2>6. QED
    BY <2>3, <2>4, <2>5
<1>7. SumFunctionOnSet(B, rows) = SumFunctionOnSet(sums, E)
  <2>1. \A r \in rows : h[r] \in E
    BY <1>3
  <2>2. \A r \in rows : B[r] \in Int
    BY <1>4
  <2> HIDE DEF rows, B, E, h
  <2>3. QED
    BY <1>1, <1>2, <2>1, <2>2, SumFibres
<1>8. SumFunction(term) = SumFunctionOnSet(sums, E)
  <2>1. DOMAIN term = E
    OBVIOUS
  <2> HIDE DEF term, sums, E
  <2>2. SumFunctionOnSet(term, E) = SumFunctionOnSet(sums, E)
    BY <1>2, <1>6, SumSame
  <2>3. QED
    BY <2>1, <2>2 DEF SumFunction
<1>9. QED
  BY <1>5, <1>7, <1>8

(* The sum over the three parts of the breakdown.                          *)
LEMMA SumThree ==
  ASSUME NEW f, DOMAIN f = {"fresh", "read", "output"},
         f["fresh"] \in Int, f["read"] \in Int, f["output"] \in Int
  PROVE  SumFunction(f) = f["fresh"] + f["read"] + f["output"]
<1> DEFINE one == {"output"}
           two == {"read", "output"}
           three == {"fresh", "read", "output"}
<1>1. three \ {"fresh"} = two /\ two \ {"read"} = one /\ one \ {"output"} = {}
  OBVIOUS
<1>2. "fresh" \in three /\ "read" \in two /\ "output" \in one
  OBVIOUS
<1>3. three = two \cup {"fresh"} /\ two = one \cup {"read"} /\ IsFiniteSet(one)
  BY FS_Singleton
<1>4. (\A x \in three : f[x] \in Int) /\ two \subseteq three /\ one \subseteq three
  OBVIOUS
<1>5. DOMAIN f = three
  OBVIOUS
<1> HIDE DEF one, two, three
<1>6. IsFiniteSet(two)
  BY <1>3, FS_AddElement
<1>7. IsFiniteSet(three)
  BY <1>3, <1>6, FS_AddElement
<1>8. SumFunctionOnSet(f, three) = f["fresh"] + SumFunctionOnSet(f, two)
  BY <1>1, <1>2, <1>4, <1>7, SumRemove
<1>9. SumFunctionOnSet(f, two) = f["read"] + SumFunctionOnSet(f, one)
  BY <1>1, <1>2, <1>4, <1>6, SumRemove
<1>10. SumFunctionOnSet(f, one) = f["output"] + SumFunctionOnSet(f, {})
  BY <1>1, <1>2, <1>3, <1>4, SumRemove
<1>11. SumFunctionOnSet(f, {}) = 0
  BY SumEmpty
<1>12. SumFunctionOnSet(f, three) = f["fresh"] + f["read"] + f["output"]
  BY <1>8, <1>9, <1>10, <1>11
<1>13. QED
  BY <1>5, <1>12 DEF SumFunction

(* What the breakdown leaves out, such records do not have.                *)
LEMMA PlainCost ==
  ASSUME NEW r \in Timed, r.toks.create = 0, ~r.long
  PROVE  LET B(b) == 2 * RateFor(r.model, r.ts)[b] * r.toks[b]
         IN r.cost = B("fresh") + (B("read") + B("output"))
<1> DEFINE R == RateFor(r.model, r.ts)
           t == r.toks
<1>1. /\ r.cost = ComputeCost(r.model, r.toks, r.long, r.ts) /\ r.ts \in Int
      /\ \A b \in Buckets : r.toks[b] \in Nat
  BY TimedRecords
<1>2. \A b \in Buckets : R[b] \in Nat
  BY <1>1, EpochRates DEF IsRates
<1> HIDE DEF R
<1>3. r.cost = 2 * (t.fresh * R.fresh + t.create * R.create + t.read * R.read)
                 + 2 * (t.output * R.output)
  BY <1>1 DEF ComputeCost, R
<1>4. /\ t.fresh \in Nat /\ t.read \in Nat /\ t.output \in Nat
      /\ R.fresh \in Nat /\ R.read \in Nat /\ R.output \in Nat /\ R.create \in Nat
  BY <1>1, <1>2 DEF Buckets
<1>5. t.create * R.create = 0
  BY <1>4
<1>6. ASSUME NEW x \in Nat, NEW y \in Nat
      PROVE  2 * y * x = 2 * (x * y) /\ x * y \in Nat
  <2>1. y * x = x * y /\ x * y \in Nat
    OBVIOUS
  <2>2. 2 * y * x = 2 * (y * x)
    OBVIOUS
  <2>3. QED
    BY <2>1, <2>2
<1>7. /\ 2 * R.fresh * t.fresh = 2 * (t.fresh * R.fresh) /\ t.fresh * R.fresh \in Nat
      /\ 2 * R.read * t.read = 2 * (t.read * R.read) /\ t.read * R.read \in Nat
      /\ 2 * R.output * t.output = 2 * (t.output * R.output) /\ t.output * R.output \in Nat
  BY <1>4, <1>6
<1> DEFINE f == t.fresh * R.fresh
           d == t.read * R.read
           o == t.output * R.output
<1>8. r.cost = 2 * (f + 0 + d) + 2 * o /\ f \in Nat /\ d \in Nat /\ o \in Nat
  BY <1>3, <1>5, <1>7
<1> HIDE DEF f, d, o
<1>9. r.cost = 2 * f + (2 * d + 2 * o)
  BY <1>8
<1>10. QED
  BY <1>7, <1>9 DEF f, d, o, R

(* Priced again, the tokens of a model's plain requests cost what the      *)
(* requests were billed, however often its rates changed between them.     *)
THEOREM BreakdownIsBilled == Spec => []DecompositionReconciles
<1>1. ReadInv => DecompositionReconciles
  <2> SUFFICES ASSUME ReadInv, NEW span \in Spans
               PROVE  LET rows == {r \in Stamped(db) : r.ts >= Now - span /\ r.toks.create = 0 /\ ~r.long}
                      IN \A m \in {r.model : r \in rows} :
                           CostTotal(rows, m) =
                             Sum({"fresh", "read", "output"}, LAMBDA b : CostBuckets(rows, m)[b])
    BY DEF DecompositionReconciles
  <2> SUFFICES ASSUME NEW m
               PROVE  LET rows == {r \in Stamped(db) : r.ts >= Now - span /\ r.toks.create = 0 /\ ~r.long}
                      IN CostTotal(rows, m) =
                           Sum({"fresh", "read", "output"}, LAMBDA b : CostBuckets(rows, m)[b])
    BY DEF Sum, SumOver
  <2> DEFINE all == {r \in Stamped(db) : r.ts >= Now - span /\ r.toks.create = 0 /\ ~r.long}
             rows == {r \in all : r.model = m}
             F == Billed(rows, m, "fresh")
             D == Billed(rows, m, "read")
             O == Billed(rows, m, "output")
             W == [r \in rows |-> D[r] + O[r]]
             cost == [r \in rows |-> r.cost]
             parts == [b \in {"fresh", "read", "output"} |-> CostBuckets(all, m)[b]]
  <2>1. /\ IsFiniteSet(all) /\ all \in SUBSET Timed
        /\ IsFiniteSet(rows) /\ rows \in SUBSET Timed
    <3>1. IsFiniteSet(all) /\ all \in SUBSET Timed
      <4>1. IsFiniteSet(Stamped(db)) /\ Stamped(db) \in SUBSET Timed
        BY StampedPart DEF ReadInv
      <4>2. all \in SUBSET Stamped(db)
        OBVIOUS
      <4> HIDE DEF all
      <4>3. QED
        BY <4>1, <4>2, FS_Subset
    <3>2. QED
      BY <3>1, FS_Subset
  <2>2. {"fresh", "read", "output"} \subseteq Buckets
    BY DEF Buckets
  <2>3. \A r \in rows : /\ F[r] \in Int /\ D[r] \in Int /\ O[r] \in Int
                         /\ cost[r] = F[r] + (D[r] + O[r])
    <3> SUFFICES ASSUME NEW r \in rows
                 PROVE  /\ F[r] \in Int /\ D[r] \in Int /\ O[r] \in Int
                        /\ cost[r] = F[r] + (D[r] + O[r])
      OBVIOUS
    <3>1. r \in Timed /\ r.toks.create = 0 /\ ~r.long /\ r.model = m /\ cost[r] = r.cost
      BY <2>1
    <3>2. LET B(b) == 2 * RateFor(r.model, r.ts)[b] * r.toks[b]
          IN r.cost = B("fresh") + (B("read") + B("output"))
      BY <3>1, PlainCost
    <3> HIDE DEF rows
    <3>3. /\ F[r] = 2 * RateFor(m, r.ts)["fresh"] * r.toks["fresh"] /\ F[r] \in Int
          /\ D[r] = 2 * RateFor(m, r.ts)["read"] * r.toks["read"] /\ D[r] \in Int
          /\ O[r] = 2 * RateFor(m, r.ts)["output"] * r.toks["output"] /\ O[r] \in Int
      BY <2>1, <2>2, BilledInt
    <3>4. QED
      BY <3>1, <3>2, <3>3
  <2>4. CostTotal(all, m) = SumFunctionOnSet(cost, rows)
    BY DEF CostTotal, SumOver, SumFunction
  <2>5. /\ parts["fresh"] = SumFunctionOnSet(F, rows)
        /\ parts["read"] = SumFunctionOnSet(D, rows)
        /\ parts["output"] = SumFunctionOnSet(O, rows)
    <3>1. \A b \in {"fresh", "read", "output"} : parts[b] = CostBucket(all, m, b)
      BY DEF CostBuckets
    <3> HIDE DEF all, parts
    <3>2. QED
      BY <2>1, <2>2, <3>1, BucketIsBilled
  <2>6. DOMAIN parts = {"fresh", "read", "output"}
        /\ Sum({"fresh", "read", "output"}, LAMBDA b : CostBuckets(all, m)[b])
              = SumFunction(parts)
    BY DEF Sum, SumOver
  <2>7. \A r \in rows : W[r] = D[r] + O[r]
    OBVIOUS
  <2> HIDE DEF all, rows, F, D, O, W, cost, parts
  <2>8. SumFunctionOnSet(W, rows) = SumFunctionOnSet(D, rows) + SumFunctionOnSet(O, rows)
    BY <2>1, <2>3, <2>7, SumPlus
  <2>9. SumFunctionOnSet(cost, rows) = SumFunctionOnSet(F, rows) + SumFunctionOnSet(W, rows)
    <3>1. \A r \in rows : /\ F[r] \in Int /\ W[r] \in Int /\ cost[r] = F[r] + W[r]
      BY <2>3, <2>7
    <3>2. QED
      BY <2>1, <3>1, SumPlus
  <2>10. /\ SumFunctionOnSet(F, rows) \in Int /\ SumFunctionOnSet(D, rows) \in Int
         /\ SumFunctionOnSet(O, rows) \in Int
    BY <2>1, <2>3, SumInt
  <2>11. SumFunction(parts) = parts["fresh"] + parts["read"] + parts["output"]
    <3>1. parts["fresh"] \in Int /\ parts["read"] \in Int /\ parts["output"] \in Int
      BY <2>5, <2>10
    <3>2. DOMAIN parts = {"fresh", "read", "output"}
      BY <2>6
    <3>3. QED
      BY <3>1, <3>2, SumThree
  <2>12. CostTotal(all, m) = Sum({"fresh", "read", "output"}, LAMBDA b : CostBuckets(all, m)[b])
    BY <2>4, <2>5, <2>6, <2>8, <2>9, <2>10, <2>11
  <2>13. QED
    BY <2>12 DEF all
<1>2. QED
  BY <1>1, ReadInvInit, ReadInvNext, PTL DEF Spec

-----------------------------------------------------------------------------
(* Panels of columns: rows P, one for every value of a key k of the rows   *)
(* S, that have the column summed.                                         *)

Column(S, col) == SumFunction([u \in S |-> Of(u, col)])

IsColumnPanel(P, h, k, S, col) ==
    /\ P = {h[u] : u \in S}
    /\ \A u, v \in S : h[u] = h[v] <=> k[u] = k[v]
    /\ \A u \in S : Of(h[u], col) = Column({v \in S : k[v] = k[u]}, col)

(* Sums of costs, as a column.                                             *)
LEMMA CostOf == ASSUME NEW S PROVE Sum(S, LAMBDA u : u.cost) = Column(S, "cost")
<1>1. \A u : Of(u, "cost") = u.cost
  BY DEF Of
<1>2. QED
  BY <1>1 DEF Column, Sum, SumOver

(* A column of numbers adds up to one, and to zero only if all are.        *)
LEMMA ColumnNat ==
  ASSUME NEW S, IsFiniteSet(S), NEW col, \A u \in S : Of(u, col) \in Nat
  PROVE  /\ Column(S, col) \in Nat
         /\ Column(S, col) = 0 <=> \A u \in S : Of(u, col) = 0
<1> DEFINE f == [u \in S |-> Of(u, col)]
<1>1. DOMAIN f = S /\ \A u \in S : f[u] = Of(u, col) /\ f[u] \in Nat
  OBVIOUS
<1>2. Column(S, col) = SumFunctionOnSet(f, S)
  BY DEF Column, SumFunction
<1> HIDE DEF f
<1>3. QED
  BY <1>1, <1>2, SumNat

(* What has nothing in the column may be left out of it.                   *)
LEMMA ColumnPart ==
  ASSUME NEW S, IsFiniteSet(S), NEW col, \A u \in S : Of(u, col) \in Nat,
         NEW T \in SUBSET S, \A u \in S \ T : Of(u, col) = 0
  PROVE  Column(T, col) = Column(S, col)
<1> DEFINE f == [u \in S |-> Of(u, col)]
           g == [u \in T |-> Of(u, col)]
<1>1. /\ DOMAIN f = S /\ \A u \in S : f[u] = Of(u, col) /\ f[u] \in Int
      /\ DOMAIN g = T /\ \A u \in T : g[u] = f[u]
  OBVIOUS
<1>2. IsFiniteSet(T)
  BY FS_Subset
<1>3. Column(S, col) = SumFunctionOnSet(f, S) /\ Column(T, col) = SumFunctionOnSet(g, T)
  BY DEF Column, SumFunction
<1> HIDE DEF f, g
<1>4. SumFunctionOnSet(f, S) = SumFunctionOnSet(f, T)
  BY <1>1, SumPart
<1>5. SumFunctionOnSet(f, T) = SumFunctionOnSet(g, T)
  BY <1>1, <1>2, SumSame
<1>6. QED
  BY <1>3, <1>4, <1>5

(* A column in two parts.                                                  *)
LEMMA ColumnSplit ==
  ASSUME NEW S, IsFiniteSet(S), NEW col, \A u \in S : Of(u, col) \in Nat,
         NEW T \in SUBSET S
  PROVE  Column(S, col) = Column(T, col) + Column(S \ T, col)
<1> DEFINE f == [u \in S |-> IF u \in T THEN Of(u, col) ELSE 0]
           g == [u \in S |-> IF u \in T THEN 0 ELSE Of(u, col)]
           k == [u \in S |-> Of(u, col)]
           p == [u \in T |-> Of(u, col)]
           r == [u \in S \ T |-> Of(u, col)]
<1>1. /\ DOMAIN k = S /\ DOMAIN p = T /\ DOMAIN r = S \ T
      /\ \A u \in S : f[u] \in Int /\ g[u] \in Int /\ k[u] = f[u] + g[u]
      /\ \A u \in T : f[u] = p[u] /\ g[u] = 0
      /\ \A u \in S \ T : g[u] = r[u] /\ f[u] = 0
  OBVIOUS
<1>2. IsFiniteSet(T) /\ IsFiniteSet(S \ T)
  BY FS_Subset
<1>3. /\ Column(S, col) = SumFunctionOnSet(k, S) /\ Column(T, col) = SumFunctionOnSet(p, T)
      /\ Column(S \ T, col) = SumFunctionOnSet(r, S \ T)
  BY DEF Column, SumFunction
<1> HIDE DEF f, g, k, p, r
<1>4. SumFunctionOnSet(k, S) = SumFunctionOnSet(f, S) + SumFunctionOnSet(g, S)
  BY <1>1, SumPlus
<1>5. SumFunctionOnSet(f, S) = SumFunctionOnSet(f, T)
  BY <1>1, SumPart
<1>6. SumFunctionOnSet(g, S) = SumFunctionOnSet(g, S \ T)
  <2>1. S \ (S \ T) = T
    OBVIOUS
  <2>2. S \ T \in SUBSET S /\ \A u \in S \ (S \ T) : g[u] = 0
    BY <1>1, <2>1
  <2>3. \A u \in S : g[u] \in Int
    BY <1>1
  <2>4. QED
    BY <2>2, <2>3, SumPart
<1>7. SumFunctionOnSet(f, T) = SumFunctionOnSet(p, T)
  BY <1>1, <1>2, SumSame
<1>8. SumFunctionOnSet(g, S \ T) = SumFunctionOnSet(r, S \ T)
  <2>1. \A u \in S \ T : g[u] \in Int /\ r[u] = g[u]
    BY <1>1
  <2>2. QED
    BY <1>2, <2>1, SumSame
<1>9. QED
  BY <1>3, <1>4, <1>5, <1>6, <1>7, <1>8

(* A panel grouped by a key has the column of its rows.                    *)
LEMMA ColumnPanel ==
  ASSUME NEW S, IsFiniteSet(S), NEW col, \A u \in S : Of(u, col) \in Nat,
         NEW P, NEW h, NEW k, IsColumnPanel(P, h, k, S, col)
  PROVE  /\ IsFiniteSet(P) /\ \A x \in P : Of(x, col) \in Nat
         /\ Column(P, col) = Column(S, col)
<1> DEFINE f == [u \in S |-> Of(u, col)]
           g == [x \in P |-> Of(x, col)]
           Group(u) == {v \in S : k[v] = k[u]}
<1>1. /\ P = {h[u] : u \in S}
      /\ \A u, v \in S : h[u] = h[v] <=> k[u] = k[v]
      /\ \A u \in S : Of(h[u], col) = Column(Group(u), col)
  BY DEF IsColumnPanel
<1>2. \A u \in S : IsFiniteSet(Group(u)) /\ \A v \in Group(u) : Of(v, col) \in Nat
  BY FS_Subset
<1>3. \A x \in P : Of(x, col) \in Nat
  <2>1. \A u \in S : Column(Group(u), col) \in Nat
    <3> HIDE DEF Group
    <3>1. QED
      BY <1>2, ColumnNat
  <2>2. ASSUME NEW x \in P
        PROVE  Of(x, col) \in Nat
    <3>1. PICK u \in S : x = h[u]
      BY <1>1
    <3>2. Of(x, col) = Column(Group(u), col)
      BY <1>1, <3>1
    <3>3. QED
      BY <2>1, <3>2
  <2>3. QED
    BY <2>2
<1>4. IsPanel(g, P, h, f, S)
  <2>1. ASSUME NEW x \in P
        PROVE  g[x] = SumFunction(Restrict(f, Fibre(S, h, x)))
    <3>1. PICK u \in S : x = h[u]
      BY <1>1
    <3>2. Fibre(S, h, x) = Group(u)
      BY <1>1, <3>1 DEF Fibre
    <3>3. Restrict(f, Group(u)) = [v \in Group(u) |-> Of(v, col)]
      <4>1. \A v \in Group(u) : f[v] = Of(v, col)
        OBVIOUS
      <4> HIDE DEF Group, f
      <4>2. QED
        BY <4>1 DEF Restrict
    <3>4. g[x] = Column(Group(u), col)
      BY <1>1, <3>1
    <3>5. QED
      BY <3>2, <3>3, <3>4 DEF Column
  <2>2. (\A u \in S : h[u] \in P) /\ (\A x \in P : \E u \in S : h[u] = x) /\ DOMAIN g = P
    BY <1>1
  <2> HIDE DEF f, g
  <2>3. QED
    BY <2>1, <2>2 DEF IsPanel
<1>5. f \in [S -> Int]
  OBVIOUS
<1>6. SumFunction(g) = SumFunction(f) /\ IsFiniteSet(P)
  <2> HIDE DEF f, g
  <2>1. QED
    BY <1>4, <1>5, PanelSum
<1>7. QED
  BY <1>3, <1>6 DEF Column

-----------------------------------------------------------------------------
(* A query's source, of the records R.                                     *)

Reads(snap, R) ==
    /\ R \in SUBSET Timed /\ IsFiniteSet(R)
    /\ Stamped(snap.db) = R /\ Stamped(snap.rolled) = R

(* The rows of it.                                                         *)
LEMMA RowsOfQuery ==
  ASSUME NEW R, NEW snap, Reads(snap, R), NEW q
  PROVE  RollSource(q, snap) = {Sourced(R, UseRollup(q), r) : r \in Asked(R, q)}
<1>1. Stamped(snap.db) = R /\ Stamped(snap.rolled) = R
  BY DEF Reads
<1>2. QED
  BY <1>1, SourceRows

(* The columns of what a query reads.                                      *)
LEMMA SourceOfQuery ==
  ASSUME NEW R, NEW snap, Reads(snap, R), NEW q
  PROVE  /\ IsFiniteSet(RollSource(q, snap))
         /\ \A col \in Columns :
              /\ \A u \in RollSource(q, snap) : Of(u, col) \in Nat
              /\ Column(RollSource(q, snap), col)
                   = SumFunction([r \in Asked(R, q) |-> Adding(r, col)])
         /\ IsFiniteSet(Asked(R, q)) /\ Asked(R, q) \subseteq Timed
<1> DEFINE hr == UseRollup(q)
           U == RollSource(q, snap)
<1>0. /\ R \in SUBSET Timed /\ IsFiniteSet(R)
      /\ Stamped(snap.db) = R /\ Stamped(snap.rolled) = R
      /\ hr \in BOOLEAN
  BY DEF Reads, UseRollup
<1>1. U = {Sourced(R, hr, r) : r \in Asked(R, q)}
      /\ {r \in R : Sourced(R, hr, r) \in U} = Asked(R, q)
  BY <1>0, SourceRows
<1>2. U \in SUBSET Source(R, hr)
  BY <1>1 DEF Source, Asked
<1>3. IsFiniteSet(Asked(R, q)) /\ Asked(R, q) \subseteq Timed
  <2>1. Asked(R, q) \in SUBSET R
    BY DEF Asked
  <2>2. QED
    BY <1>0, <2>1, FS_Subset
<1> HIDE DEF hr, U
<1>4. "cost" \in Columns
  BY DEF Columns
<1>5. \A col \in Columns : /\ IsFiniteSet(U) /\ \A u \in U : Of(u, col) \in Nat
                           /\ SumFunction([u \in U |-> Of(u, col)])
                                = SumFunction([r \in {x \in R : Sourced(R, hr, x) \in U}
                                                 |-> Adding(r, col)])
  BY <1>0, <1>2, SourceSum
<1>6. QED
  BY <1>1, <1>3, <1>4, <1>5 DEF U, Column

-----------------------------------------------------------------------------
(* The hourly rows, and what is folded out of them.                        *)

(* The hourly rows have the columns of the records.                        *)
LEMMA HourlyColumn ==
  ASSUME NEW R, NEW snap, Reads(snap, R), NEW q, NEW col \in Columns
  PROVE  /\ IsFiniteSet(Hourly(q, snap)) /\ \A x \in Hourly(q, snap) : Of(x, col) \in Nat
         /\ Column(Hourly(q, snap), col)
              = SumFunction([r \in Asked(R, q) |-> Adding(r, col)])
<1> DEFINE rows == RollSource(q, snap)
           P == Hourly(q, snap)
           h == [u \in rows |-> HourlyRow(rows, u, q)]
           k == [u \in rows |-> <<DisplayBucket(u.hour, q), u.model>>]
           Group(u) == {v \in {w \in rows : DisplayBucket(w.hour, q) = DisplayBucket(u.hour, q)} :
                          v.model = u.model}
<1>1. /\ IsFiniteSet(rows) /\ \A u \in rows : Of(u, col) \in Nat
      /\ Column(rows, col) = SumFunction([r \in Asked(R, q) |-> Adding(r, col)])
  BY SourceOfQuery
<1>2. IsColumnPanel(P, h, k, rows, col)
  <2>1. P = {h[u] : u \in rows}
    BY DEF Hourly
  <2>2. ASSUME NEW u \in rows, NEW v \in rows
        PROVE  h[u] = h[v] <=> k[u] = k[v]
    <3>1. HourlyRow(rows, u, q) = HourlyRow(rows, v, q) =>
            DisplayBucket(u.hour, q) = DisplayBucket(v.hour, q) /\ u.model = v.model
      <4>1. \A w : /\ HourlyRow(rows, w, q).hour = DisplayBucket(w.hour, q)
                   /\ HourlyRow(rows, w, q).model = w.model
        BY DEF HourlyRow
      <4>2. QED
        BY <4>1
    <3>2. DisplayBucket(u.hour, q) = DisplayBucket(v.hour, q) /\ u.model = v.model =>
            HourlyRow(rows, u, q) = HourlyRow(rows, v, q)
      BY DEF HourlyRow
    <3>3. QED
      BY <3>1, <3>2
  <2>3. ASSUME NEW u \in rows
        PROVE  Of(h[u], col) = Column({v \in rows : k[v] = k[u]}, col)
    <3>1. {v \in rows : k[v] = k[u]} = Group(u)
      OBVIOUS
    <3>2. h[u] = HourlyRow(rows, u, q)
      OBVIOUS
    <3>3. /\ HourlyRow(rows, u, q).cost = SumFunction([v \in Group(u) |-> v.cost])
          /\ HourlyRow(rows, u, q).requests = SumFunction([v \in Group(u) |-> v.requests])
          /\ \A b \in Buckets : HourlyRow(rows, u, q).toks[b]
                                  = SumFunction([v \in Group(u) |-> v.toks[b]])
      BY DEF HourlyRow, Sum, SumOver
    <3> HIDE DEF h, k, Group
    <3>4. CASE col = "cost"
      <4>1. \A x : Of(x, col) = x.cost
        BY <3>4 DEF Of
      <4>2. QED
        BY <3>1, <3>2, <3>3, <4>1 DEF Column
    <3>5. CASE col = "requests"
      <4>1. \A x : Of(x, col) = x.requests
        BY <3>5 DEF Of
      <4>2. QED
        BY <3>1, <3>2, <3>3, <4>1 DEF Column
    <3>6. CASE col \in Buckets
      <4>1. \A x : Of(x, col) = x.toks[col]
        BY <3>6 DEF Of, Buckets
      <4>2. QED
        BY <3>1, <3>2, <3>3, <3>6, <4>1 DEF Column
    <3>7. QED
      BY <3>4, <3>5, <3>6 DEF Columns
  <2> HIDE DEF h, k, P, rows
  <2>4. QED
    BY <2>1, <2>2, <2>3 DEF IsColumnPanel
<1> HIDE DEF h, k, P, rows
<1>3. /\ IsFiniteSet(P) /\ \A x \in P : Of(x, col) \in Nat
      /\ Column(P, col) = Column(rows, col)
  BY <1>1, <1>2, ColumnPanel
<1>4. QED
  BY <1>1, <1>3 DEF P

(* A model without a cost is left out, and takes none with it.             *)
LEMMA ByModelColumn ==
  ASSUME NEW H, IsFiniteSet(H), \A x \in H : Of(x, "cost") \in Nat
  PROVE  Column(CostByModel(H), "cost") = Column(H, "cost")
<1> DEFINE S == {x \in H : \E g \in H : g.model = x.model /\ g.cost > 0}
           Row(m) == [model |-> m, cost |-> Sum({x \in H : x.model = m}, LAMBDA x : x.cost)]
           P == CostByModel(H)
           h == [x \in S |-> Row(x.model)]
           k == [x \in S |-> x.model]
<1>0. \A x : Of(x, "cost") = x.cost
  BY DEF Of
<1>1. Column(S, "cost") = Column(H, "cost")
  <2>1. \A x \in H \ S : Of(x, "cost") = 0
    BY <1>0
  <2>2. S \in SUBSET H
    OBVIOUS
  <2> HIDE DEF S
  <2>3. QED
    BY <2>1, <2>2, ColumnPart
<1>2. IsFiniteSet(S) /\ \A x \in S : Of(x, "cost") \in Nat
  BY FS_Subset
<1>3. IsColumnPanel(P, h, k, S, "cost")
  <2>1. P = {h[x] : x \in S}
    <3>1. P = {Row(m) : m \in {x.model : x \in {g \in H : g.cost > 0}}}
      BY DEF CostByModel
    <3>2. {x.model : x \in {g \in H : g.cost > 0}} = {x.model : x \in S}
      OBVIOUS
    <3> HIDE DEF S, P, Row
    <3>3. P = {Row(x.model) : x \in S}
      BY <3>1, <3>2
    <3>4. QED
      BY <3>3
  <2>2. \A x, y \in S : h[x] = h[y] <=> k[x] = k[y]
    <3>1. \A m : Row(m).model = m
      OBVIOUS
    <3> HIDE DEF Row
    <3>2. QED
      BY <3>1
  <2>3. ASSUME NEW x \in S
        PROVE  Of(h[x], "cost") = Column({y \in S : k[y] = k[x]}, "cost")
    <3>1. {y \in S : k[y] = k[x]} = {y \in H : y.model = x.model}
      OBVIOUS
    <3>2. h[x].cost = Sum({y \in H : y.model = x.model}, LAMBDA y : y.cost)
      OBVIOUS
    <3>3. h[x].cost = Column({y \in H : y.model = x.model}, "cost")
      BY <1>0, <3>2 DEF Column, Sum, SumOver
    <3> HIDE DEF h, k, S
    <3>4. QED
      BY <1>0, <3>1, <3>3
  <2> HIDE DEF h, k, P, S
  <2>4. QED
    BY <2>1, <2>2, <2>3 DEF IsColumnPanel
<1> HIDE DEF h, k, P, S
<1>4. Column(P, "cost") = Column(S, "cost")
  BY <1>2, <1>3, ColumnPanel
<1>5. QED
  BY <1>1, <1>4 DEF P

(* A kind of token is shown exactly if a record has some.                  *)
LEMMA TokenTypesUsed ==
  ASSUME NEW R, NEW snap, Reads(snap, R), NEW q
  PROVE  TokenTypes(Hourly(q, snap))
           = {b \in Buckets : \E r \in Asked(R, q) : r.toks[b] # 0}
<1> SUFFICES ASSUME NEW b \in Buckets
             PROVE  Sum(Hourly(q, snap), LAMBDA x : x.toks[b]) # 0
                      <=> \E r \in Asked(R, q) : r.toks[b] # 0
  BY DEF TokenTypes, Sum, SumOver
<1> DEFINE f == [r \in Asked(R, q) |-> Adding(r, b)]
<1>1. b \in Columns /\ b # "cost" /\ b # "requests"
  BY DEF Columns, Buckets
<1>2. \A x : Of(x, b) = x.toks[b] /\ Adding(x, b) = x.toks[b]
  BY <1>1 DEF Of, Adding
<1>3. Sum(Hourly(q, snap), LAMBDA x : x.toks[b]) = SumFunction(f)
  <2>1. Column(Hourly(q, snap), b) = SumFunction(f)
    BY <1>1, HourlyColumn
  <2>2. QED
    BY <1>2, <2>1 DEF Column, Sum, SumOver
<1>4. /\ IsFiniteSet(Asked(R, q)) /\ Asked(R, q) \subseteq Timed
  BY SourceOfQuery
<1>5. DOMAIN f = Asked(R, q) /\ \A r \in Asked(R, q) : f[r] = r.toks[b] /\ f[r] \in Nat
  BY <1>1, <1>2, <1>4, AddingNat
<1> HIDE DEF f
<1>6. SumFunction(f) = 0 <=> \A r \in Asked(R, q) : f[r] = 0
  BY <1>4, <1>5, SumNat DEF SumFunction
<1>7. QED
  BY <1>3, <1>5, <1>6

-----------------------------------------------------------------------------
(* The panels that are cut off.                                            *)

(* There are always k rows that cost no less than the others.              *)
LEMMA CostliestExists ==
  ASSUME NEW S, IsFiniteSet(S), \A x \in S : x.cost \in Nat,
         NEW k \in 0 .. Cardinality(S)
  PROVE  \E T \in kSubset(k, S) : \A a \in T, b \in S \ T : a.cost >= b.cost
<1> DEFINE Top(n) == \E T \in SUBSET S : /\ Cardinality(T) = n
                                         /\ \A a \in T, b \in S \ T : a.cost >= b.cost
           N == {n \in Nat : n <= Cardinality(S) => Top(n)}
<1>0. Cardinality(S) \in Nat
  BY FS_CardinalityType
<1>1. 0 \in N
  BY FS_EmptySet
<1>2. ASSUME NEW n \in N
      PROVE  n + 1 \in N
  <2> SUFFICES ASSUME n + 1 <= Cardinality(S)
               PROVE  Top(n + 1)
    OBVIOUS
  <2>1. n \in Nat /\ n < Cardinality(S)
    BY <1>0
  <2>2. PICK T \in SUBSET S : /\ Cardinality(T) = n
                              /\ \A a \in T, b \in S \ T : a.cost >= b.cost
    BY <1>0, <2>1
  <2>3. IsFiniteSet(T) /\ IsFiniteSet(S \ T) /\ S \ T # {}
    <3>1. IsFiniteSet(T) /\ IsFiniteSet(S \ T)
      BY FS_Subset
    <3>2. T # S
      BY <2>1, <2>2
    <3>3. QED
      BY <3>1, <3>2
  <2> DEFINE K == {x.cost : x \in S \ T}
             f == [x \in S \ T |-> x.cost]
  <2>4. IsFiniteSet(K) /\ K \in SUBSET Int /\ K # {}
    <3>1. (\A x \in S \ T : f[x] \in K) /\ (\A c \in K : \E x \in S \ T : f[x] = c)
      OBVIOUS
    <3>2. K \in SUBSET Int /\ K # {}
      BY <2>3
    <3> HIDE DEF K, f
    <3>3. IsFiniteSet(K)
      BY <2>3, <3>1, ImageFinite
    <3>4. QED
      BY <3>2, <3>3
  <2>5. PICK m \in K : \A c \in K : c <= m
    <3> HIDE DEF K
    <3>1. QED
      BY <2>4, FiniteExtremes
  <2>6. PICK x \in S \ T : x.cost = m
    BY <2>5
  <2>7. \A y \in S \ T : y.cost <= x.cost
    BY <2>5, <2>6
  <2> DEFINE U == T \cup {x}
  <2>8. Cardinality(U) = n + 1
    <3>1. Cardinality(T \cup {x}) = Cardinality(T) + 1
      BY <2>3, <2>6, FS_AddElement
    <3>2. QED
      BY <2>2, <3>1
  <2>9. \A a \in U, b \in S \ U : a.cost >= b.cost
    <3>1. \A b \in S \ U : b \in S \ T /\ b.cost \in Nat /\ x.cost \in Nat /\ x.cost >= b.cost
      BY <2>6, <2>7
    <3>2. QED
      BY <2>2, <3>1
  <2>10. U \in SUBSET S
    BY <2>6
  <2> HIDE DEF U
  <2>11. QED
    BY <2>8, <2>9, <2>10
<1> HIDE DEF N
<1>3. N \in SUBSET Nat
  BY DEF N
<1>4. N = Nat
  BY <1>1, <1>2, <1>3, Induct
<1>5. Top(k)
  BY <1>0, <1>4 DEF N
<1>6. QED
  BY <1>5 DEF kSubset

(* What is kept of the rows is some of them, and all if they are not more. *)
LEMMA CostliestOf ==
  ASSUME NEW S, IsFiniteSet(S), \A x \in S : x.cost \in Nat, NEW k \in Nat
  PROVE  /\ Costliest(k, S) \in SUBSET S
         /\ k >= Cardinality(S) => Costliest(k, S) = S
<1> DEFINE n == IF k < Cardinality(S) THEN k ELSE Cardinality(S)
           Best(T) == \A a \in T, b \in S \ T : a.cost >= b.cost
<1>1. Cardinality(S) \in Nat
  BY FS_CardinalityType
<1>2. n \in 0 .. Cardinality(S) /\ (k >= Cardinality(S) => n = Cardinality(S))
  BY <1>1
<1>3. Costliest(k, S) = CHOOSE T \in kSubset(n, S) : Best(T)
  BY DEF Costliest
<1> HIDE DEF n
<1>4. Costliest(k, S) \in kSubset(n, S)
  <2>1. \E T \in kSubset(n, S) : Best(T)
    BY <1>2, CostliestExists
  <2> HIDE DEF Best
  <2>2. QED
    BY <1>3, <2>1
<1>5. Costliest(k, S) \in SUBSET S /\ Cardinality(Costliest(k, S)) = n
  BY <1>4 DEF kSubset
<1>6. QED
  BY <1>2, <1>5, FS_Subset

(* The bars and the bar of the rest have what all the projects cost.       *)
LEMMA ByProjectColumn ==
  ASSUME NEW R, NEW snap, Reads(snap, R), NEW q
  PROVE  Column(CostByProject(q, snap), "cost")
           = SumFunction([r \in Asked(R, q) |-> Adding(r, "cost")])
<1> DEFINE rows == RollSource(q, snap)
           Row(p) == [project |-> p,
                      cost |-> Sum({v \in rows : v.project = p}, LAMBDA v : v.cost)]
           P == {Row(u.project) : u \in rows}
           B == Bars(q, snap)
           h == [u \in rows |-> Row(u.project)]
           k == [u \in rows |-> u.project]
<1>0. (\A x : Of(x, "cost") = x.cost) /\ "cost" \in Columns
  BY DEF Of, Columns
<1>1. /\ IsFiniteSet(rows) /\ \A u \in rows : Of(u, "cost") \in Nat
      /\ Column(rows, "cost") = SumFunction([r \in Asked(R, q) |-> Adding(r, "cost")])
  BY <1>0, SourceOfQuery
<1>2. IsColumnPanel(P, h, k, rows, "cost")
  <2>1. P = {h[u] : u \in rows}
    OBVIOUS
  <2>2. \A u, v \in rows : h[u] = h[v] <=> k[u] = k[v]
    <3>1. \A p : Row(p).project = p
      OBVIOUS
    <3> HIDE DEF Row
    <3>2. QED
      BY <3>1
  <2>3. ASSUME NEW u \in rows
        PROVE  Of(h[u], "cost") = Column({v \in rows : k[v] = k[u]}, "cost")
    <3>1. {v \in rows : k[v] = k[u]} = {v \in rows : v.project = u.project}
      OBVIOUS
    <3>2. h[u].cost = Sum({v \in rows : v.project = u.project}, LAMBDA v : v.cost)
      OBVIOUS
    <3>3. h[u].cost = Column({v \in rows : v.project = u.project}, "cost")
      BY <1>0, <3>2 DEF Column, Sum, SumOver
    <3> HIDE DEF h, k, rows
    <3>4. QED
      BY <1>0, <3>1, <3>3
  <2> HIDE DEF h, k, P, rows
  <2>4. QED
    BY <2>1, <2>2, <2>3 DEF IsColumnPanel
<1>3. B = {b \in P : b.cost > 0}
  BY DEF Bars
<1>4. \A b \in P : b.project # None
  <2>1. /\ rows = {Sourced(R, UseRollup(q), r) : r \in Asked(R, q)}
        /\ R \in SUBSET Timed
    <3>1. Stamped(snap.db) = R /\ Stamped(snap.rolled) = R /\ R \in SUBSET Timed
      BY DEF Reads
    <3>2. RollSource(q, snap) = {Sourced(R, UseRollup(q), r) : r \in Asked(R, q)}
      BY <3>1, SourceRows
    <3>3. QED
      BY <3>1, <3>2
  <2>2. \A r \in Asked(R, q) : r.project # None
    BY <2>1, TimedRecords DEF Asked
  <2>3. \A u \in rows : u.project # None
    BY <2>1, <2>2, SourceFields
  <2>4. \A p : Row(p).project = p
    OBVIOUS
  <2> HIDE DEF rows, Row
  <2>5. QED
    BY <2>3, <2>4
<1> HIDE DEF h, k, P, rows, B
<1>5. /\ IsFiniteSet(P) /\ \A x \in P : Of(x, "cost") \in Nat
      /\ Column(P, "cost") = Column(rows, "cost")
  BY <1>1, <1>2, ColumnPanel
<1>6. /\ IsFiniteSet(B) /\ B \in SUBSET P /\ \A x \in B : Of(x, "cost") \in Nat
  BY <1>3, <1>5, FS_Subset
<1>7. Column(B, "cost") = Column(P, "cost")
  <2>1. \A x \in P \ B : Of(x, "cost") = 0
    BY <1>0, <1>3, <1>5
  <2>2. QED
    BY <1>5, <1>6, <2>1, ColumnPart
<1> DEFINE top == Costliest(TopProjects, B)
           rest == B \ top
           other == [project |-> None, cost |-> Column(rest, "cost")]
<1>8. top \in SUBSET B
  BY <1>0, <1>6, CostliestOf, PanelsAssumption
<1>9. CostByProject(q, snap) = top \cup (IF rest = {} THEN {} ELSE {other})
  BY CostOf DEF CostByProject, B
<1> HIDE DEF top
<1>10. /\ IsFiniteSet(rest) /\ \A x \in rest : Of(x, "cost") \in Nat
       /\ IsFiniteSet(top) /\ \A x \in top : Of(x, "cost") \in Nat
       /\ rest \in SUBSET B
  BY <1>6, <1>8, FS_Subset
<1>11. Column(B, "cost") = Column(top, "cost") + Column(rest, "cost")
  BY <1>6, <1>8, ColumnSplit
<1>12. Column(CostByProject(q, snap), "cost") = Column(B, "cost")
  <2>1. CASE rest = {}
    <3>1. top = B
      BY <1>8, <2>1
    <3>2. QED
      BY <1>9, <2>1, <3>1
  <2>2. CASE rest # {}
    <3> DEFINE all == top \cup {other}
    <3>1. other \notin top /\ Of(other, "cost") = Column(rest, "cost")
      <4>1. other.project = None /\ other.cost = Column(rest, "cost")
        OBVIOUS
      <4> HIDE DEF other
      <4>2. QED
        BY <1>0, <1>4, <1>6, <1>8, <4>1
    <3>2. Column(rest, "cost") \in Nat
      <4> HIDE DEF rest
      <4>1. QED
        BY <1>10, ColumnNat
    <3> HIDE DEF rest, other
    <3>3. /\ IsFiniteSet(all) /\ \A x \in all : Of(x, "cost") \in Nat
          /\ top \in SUBSET all /\ all \ top = {other}
      BY <1>10, <3>1, <3>2, FS_AddElement
    <3>4. Column(all, "cost") = Column(top, "cost") + Column(all \ top, "cost")
      <4> HIDE DEF all
      <4>1. QED
        BY <3>3, ColumnSplit
    <3>5. Column({other}, "cost") = Of(other, "cost")
      <4> DEFINE f == [x \in {other} |-> Of(x, "cost")]
      <4>1. DOMAIN f = {other} /\ f[other] = Of(other, "cost") /\ f[other] \in Int
        BY <3>1, <3>2
      <4> HIDE DEF f
      <4>2. SumFunction(f) = f[other]
        BY <4>1, SumOverOne
      <4>3. QED
        BY <4>1, <4>2 DEF f, Column
    <3>6. CostByProject(q, snap) = all
      BY <1>9, <2>2
    <3>7. QED
      BY <1>11, <3>1, <3>3, <3>4, <3>5, <3>6
  <2>3. QED
    BY <2>1, <2>2
<1>13. QED
  BY <1>1, <1>5, <1>7, <1>12

(* The sessions that are not cut off have what all the sessions cost.      *)
LEMMA SessionColumn ==
  ASSUME NEW R, NEW snap, Reads(snap, R), NEW q,
         TotalSessions(q, snap) <= SessionLimit
  PROVE  Column(SessionRows(q, snap), "cost")
           = SumFunction([r \in Asked(R, q) |-> Adding(r, "cost")])
<1> DEFINE rows == RollSource(q, snap)
           Row(s) == [session |-> s,
                      cost |-> Sum({u \in rows : u.session = s}, LAMBDA u : u.cost),
                      start |-> Min({u.first : u \in {v \in rows : v.session = s}}),
                      models_used |-> {u.model : u \in {v \in rows : v.session = s}}]
           P == {Row(s) : s \in Sessions(rows)}
           h == [u \in rows |-> Row(u.session)]
           k == [u \in rows |-> u.session]
<1>0. (\A x : Of(x, "cost") = x.cost) /\ "cost" \in Columns
  BY DEF Of, Columns
<1>1. /\ IsFiniteSet(rows) /\ \A u \in rows : Of(u, "cost") \in Nat
      /\ Column(rows, "cost") = SumFunction([r \in Asked(R, q) |-> Adding(r, "cost")])
  BY <1>0, SourceOfQuery
<1>2. IsColumnPanel(P, h, k, rows, "cost")
  <2>1. P = {h[u] : u \in rows}
    <3> HIDE DEF Row
    <3>1. QED
      BY DEF Sessions
  <2>2. \A u, v \in rows : h[u] = h[v] <=> k[u] = k[v]
    <3>1. \A p : Row(p).session = p
      OBVIOUS
    <3> HIDE DEF Row
    <3>2. QED
      BY <3>1
  <2>3. ASSUME NEW u \in rows
        PROVE  Of(h[u], "cost") = Column({v \in rows : k[v] = k[u]}, "cost")
    <3>1. {v \in rows : k[v] = k[u]} = {v \in rows : v.session = u.session}
      OBVIOUS
    <3>2. h[u].cost = Sum({v \in rows : v.session = u.session}, LAMBDA v : v.cost)
      OBVIOUS
    <3>3. h[u].cost = Column({v \in rows : v.session = u.session}, "cost")
      BY <1>0, <3>2 DEF Column, Sum, SumOver
    <3> HIDE DEF h, k, rows
    <3>4. QED
      BY <1>0, <3>1, <3>3
  <2> HIDE DEF h, k, P, rows
  <2>4. QED
    BY <2>1, <2>2, <2>3 DEF IsColumnPanel
<1>3. SessionRows(q, snap) = Costliest(SessionLimit, P)
  BY DEF SessionRows
<1>4. TotalSessions(q, snap) = Cardinality(Sessions(rows))
  BY DEF TotalSessions
<1>5. IsFiniteSet(Sessions(rows)) /\ Cardinality(P) <= Cardinality(Sessions(rows))
  <2> DEFINE S == Sessions(rows)
             f == [s \in S |-> Row(s)]
  <2>1. (\A u \in rows : k[u] \in S) /\ (\A s \in S : \E u \in rows : k[u] = s)
    BY DEF Sessions
  <2>2. IsFiniteSet(S)
    <3> HIDE DEF S, k, rows
    <3>1. QED
      BY <1>1, <2>1, ImageFinite
  <2>3. f \in Surjection(S, P)
    <3> HIDE DEF S, Row
    <3>1. P = {Row(s) : s \in S}
      BY DEF S
    <3> HIDE DEF P
    <3>2. QED
      BY <3>1 DEF Surjection
  <2> HIDE DEF S, f, P
  <2>4. Cardinality(P) <= Cardinality(S)
    BY <2>2, <2>3, FS_Surjection
  <2>5. QED
    BY <2>2, <2>4 DEF S
<1> HIDE DEF h, k, P, rows
<1>6. /\ IsFiniteSet(P) /\ \A x \in P : Of(x, "cost") \in Nat
      /\ Column(P, "cost") = Column(rows, "cost")
  BY <1>1, <1>2, ColumnPanel
<1>7. Cardinality(P) <= SessionLimit
  <2>1. Cardinality(P) \in Nat /\ Cardinality(Sessions(rows)) \in Nat /\ SessionLimit \in Nat
    BY <1>5, <1>6, FS_CardinalityType, PanelsAssumption
  <2>2. QED
    BY <1>4, <1>5, <2>1
<1>8. Costliest(SessionLimit, P) = P
  <2>1. SessionLimit \in Nat /\ SessionLimit >= Cardinality(P)
    <3>1. SessionLimit \in Nat /\ Cardinality(P) \in Nat
      BY <1>6, FS_CardinalityType, PanelsAssumption
    <3>2. QED
      BY <1>7, <3>1
  <2>2. \A x \in P : x.cost \in Nat
    BY <1>0, <1>6
  <2>3. QED
    BY <1>6, <2>1, <2>2, CostliestOf
<1>9. QED
  BY <1>1, <1>3, <1>6, <1>8

(* The hours of the heatmap have what the range costs.                     *)
LEMMA HeatmapColumn ==
  ASSUME Reads(Snapshot, Stamped(rolled)), NEW q, UseRollup(q)
  PROVE  Column(Heatmap(q), "cost")
           = SumFunction([r \in Asked(Stamped(rolled), q) |-> Adding(r, "cost")])
<1> DEFINE rows == RollSource(q, Snapshot)
           all == Filtered(UsageRollup(rolled), q)
           Row(t) == [hour |-> t, cost |-> Sum({v \in all : v.hour = t}, LAMBDA v : v.cost)]
           P == Heatmap(q)
           h == [u \in rows |-> Row(u.hour)]
           k == [u \in rows |-> u.hour]
<1>0. (\A x : Of(x, "cost") = x.cost) /\ "cost" \in Columns
  BY DEF Of, Columns
<1>1. /\ IsFiniteSet(rows) /\ \A u \in rows : Of(u, "cost") \in Nat
      /\ Column(rows, "cost") = SumFunction([r \in Asked(Stamped(rolled), q) |-> Adding(r, "cost")])
  BY <1>0, SourceOfQuery
<1>2. rows = {v \in all : v.hour >= HourOf(Since(q))}
  BY DEF RollSource, Filtered, Snapshot
<1>3. IsColumnPanel(P, h, k, rows, "cost")
  <2>1. P = {h[u] : u \in rows}
    <3>1. P = {Row(u.hour) : u \in {v \in all : v.hour >= HourOf(Since(q))}}
      BY DEF Heatmap
    <3> HIDE DEF Row, rows, all, P
    <3>2. QED
      BY <1>2, <3>1
  <2>2. \A u, v \in rows : h[u] = h[v] <=> k[u] = k[v]
    <3>1. \A p : Row(p).hour = p
      OBVIOUS
    <3> HIDE DEF Row
    <3>2. QED
      BY <3>1
  <2>3. ASSUME NEW u \in rows
        PROVE  Of(h[u], "cost") = Column({v \in rows : k[v] = k[u]}, "cost")
    <3>1. {v \in rows : k[v] = k[u]} = {v \in all : v.hour = u.hour}
      <4> HIDE DEF rows, all
      <4>1. QED
        BY <1>2
    <3>2. h[u].cost = Sum({v \in all : v.hour = u.hour}, LAMBDA v : v.cost)
      OBVIOUS
    <3>3. h[u].cost = Column({v \in all : v.hour = u.hour}, "cost")
      BY <1>0, <3>2 DEF Column, Sum, SumOver
    <3> HIDE DEF h, k, rows, all
    <3>4. QED
      BY <1>0, <3>1, <3>3
  <2> HIDE DEF h, k, P, rows, all
  <2>4. QED
    BY <2>1, <2>2, <2>3 DEF IsColumnPanel
<1> HIDE DEF h, k, P, rows, all
<1>4. Column(P, "cost") = Column(rows, "cost")
  BY <1>1, <1>3, ColumnPanel
<1>5. QED
  BY <1>1, <1>4 DEF P

(* A bucket counts no session twice: only its first model has a count.     *)
LEMMA BucketCounts ==
  ASSUME NEW R, NEW snap, Reads(snap, R), NEW q, NEW x \in Hourly(q, snap)
  PROVE  Sum({g \in Hourly(q, snap) : g.hour = x.hour}, LAMBDA g : g.session_count)
           <= Cardinality(Sessions({r \in Asked(R, q) :
                 DisplayBucket(SourceHour(r.ts, q), q) = x.hour}))
<1> DEFINE rows == RollSource(q, snap)
           t == x.hour
           beside == {v \in rows : DisplayBucket(v.hour, q) = t}
           Group(u) == {v \in beside : v.model = u.model}
           ranks == {Rank(v.model) : v \in beside}
           G == {g \in Hourly(q, snap) : g.hour = t}
           f == [g \in G |-> g.session_count]
           asked == {r \in Asked(R, q) : DisplayBucket(SourceHour(r.ts, q), q) = t}
           Row(u) == HourlyRow(rows, u, q)
<1>1. /\ rows = {Sourced(R, UseRollup(q), r) : r \in Asked(R, q)}
      /\ R \in SUBSET Timed /\ IsFiniteSet(Asked(R, q)) /\ Asked(R, q) \subseteq Timed
      /\ IsFiniteSet(rows)
  <2>1. Stamped(snap.db) = R /\ Stamped(snap.rolled) = R /\ R \in SUBSET Timed
    BY DEF Reads
  <2>2. rows = {Sourced(R, UseRollup(q), r) : r \in Asked(R, q)}
    BY RowsOfQuery
  <2>3. IsFiniteSet(Asked(R, q)) /\ Asked(R, q) \subseteq Timed /\ IsFiniteSet(rows)
    BY SourceOfQuery
  <2>4. QED
    BY <2>1, <2>2, <2>3
<1>2. \A r \in Asked(R, q) :
         /\ Sourced(R, UseRollup(q), r).session = r.session
         /\ Sourced(R, UseRollup(q), r).model = r.model
         /\ Sourced(R, UseRollup(q), r).hour = SourceHour(r.ts, q)
  BY SourceFields DEF SourceHour
<1>3. Sessions(beside) = Sessions(asked)
  <2> HIDE DEF rows, t
  <2>1. beside = {Sourced(R, UseRollup(q), r) : r \in asked}
    BY <1>1, <1>2
  <2>2. \A r \in asked : Sourced(R, UseRollup(q), r).session = r.session
    BY <1>2
  <2> HIDE DEF beside, asked
  <2>3. QED
    BY <2>1, <2>2 DEF Sessions
<1>4. IsFiniteSet(Sessions(asked))
  <2> DEFINE k == [r \in asked |-> r.session]
             S == Sessions(asked)
  <2>1. (\A r \in asked : k[r] \in S) /\ (\A s \in S : \E r \in asked : k[r] = s)
    BY DEF Sessions
  <2>2. IsFiniteSet(asked)
    BY <1>1, FS_Subset
  <2> HIDE DEF k, S, asked
  <2>3. IsFiniteSet(S)
    BY <2>1, <2>2, ImageFinite
  <2>4. QED
    BY <2>3 DEF S
<1>5. \A u \in beside : /\ Rank(u.model) \in Nat
                        /\ ModelOrder[Rank(u.model)] = u.model
  <2>1. \A u \in rows : \E i \in DOMAIN ModelOrder : ModelOrder[i] = u.model
    <3> HIDE DEF rows
    <3>1. \A r \in Asked(R, q) : \E i \in DOMAIN ModelOrder : ModelOrder[i] = r.model
      BY <1>1, TimedRecords
    <3>2. QED
      BY <1>1, <1>2, <3>1
  <2>2. DOMAIN ModelOrder \subseteq Nat
    BY TimedRecords
  <2> HIDE DEF rows
  <2>3. QED
    BY <2>1, <2>2 DEF Rank
<1>6. \A u : /\ Row(u).hour = DisplayBucket(u.hour, q) /\ Row(u).model = u.model
  BY DEF HourlyRow
<1>7. ASSUME NEW u \in beside
      PROVE  Row(u).session_count = IF Rank(u.model) = Min(ranks)
                                    THEN Cardinality(Sessions(Group(u))) ELSE 0
  <2>1. {v \in rows : DisplayBucket(v.hour, q) = DisplayBucket(u.hour, q)} = beside
    OBVIOUS
  <2>2. DisplayBucket(u.hour, q) = t
    OBVIOUS
  <2> HIDE DEF rows, t
  <2>3. QED
    BY <2>1, <2>2 DEF HourlyRow
<1>8. Hourly(q, snap) = {Row(u) : u \in rows}
  BY DEF Hourly
<1> HIDE DEF Row
<1>9. \A g \in G : \E u \in beside : g = Row(u)
  BY <1>6, <1>8
<1>10. \A u \in beside : Row(u) \in G
  BY <1>6, <1>8
<1>11. x \in G /\ beside # {}
  <2>1. x \in G
    OBVIOUS
  <2>2. QED
    BY <1>9, <2>1
<1> HIDE DEF beside, G
<1>12. ranks \in SUBSET Nat /\ ranks # {}
  BY <1>5, <1>11
<1>13. PICK v \in beside : Rank(v.model) = Min(ranks)
  <2>1. Min(ranks) \in ranks
    <3> HIDE DEF ranks
    <3>1. QED
      BY <1>12, MinNat
  <2>2. QED
    BY <2>1
<1>14. \A u \in beside : Rank(u.model) = Min(ranks) => Row(u) = Row(v)
  <2>1. \A u \in beside : Rank(u.model) = Min(ranks) => u.model = v.model
    BY <1>5, <1>13
  <2>2. \A u \in beside : u.model = v.model => Row(u) = Row(v)
    <3>1. \A u \in beside : DisplayBucket(u.hour, q) = t
      BY DEF beside
    <3> HIDE DEF t, rows
    <3>2. QED
      BY <3>1 DEF Row, HourlyRow
  <2>3. QED
    BY <2>1, <2>2
<1>15. Cardinality(Sessions(Group(v))) <= Cardinality(Sessions(asked))
       /\ Cardinality(Sessions(Group(v))) \in Nat
  <2>1. Sessions(Group(v)) \in SUBSET Sessions(beside)
    BY DEF Sessions
  <2> HIDE DEF Group, asked
  <2>2. /\ IsFiniteSet(Sessions(Group(v)))
        /\ Cardinality(Sessions(Group(v))) <= Cardinality(Sessions(asked))
    BY <1>3, <1>4, <2>1, FS_Subset
  <2>3. QED
    BY <2>2, FS_CardinalityType
<1>16. Row(v).session_count = Cardinality(Sessions(Group(v)))
  BY <1>7, <1>13
<1>17. \A g \in G : g # Row(v) => g.session_count = 0
  <2> SUFFICES ASSUME NEW g \in G, g # Row(v)
               PROVE  g.session_count = 0
    OBVIOUS
  <2>1. PICK u \in beside : g = Row(u)
    BY <1>9
  <2>2. Rank(u.model) # Min(ranks)
    BY <1>14, <2>1
  <2>3. QED
    BY <1>7, <2>1, <2>2
<1>18. IsFiniteSet(G)
  <2>1. "cost" \in Columns
    BY DEF Columns
  <2>2. IsFiniteSet(Hourly(q, snap))
    BY <2>1, HourlyColumn
  <2>3. G \in SUBSET Hourly(q, snap)
    BY DEF G
  <2>4. QED
    BY <2>2, <2>3, FS_Subset
<1>19. SumFunction(f) = Cardinality(Sessions(Group(v)))
  <2>1. Row(v) \in G
    BY <1>10, <1>13
  <2>2. /\ DOMAIN f = G /\ f[Row(v)] = Cardinality(Sessions(Group(v)))
        /\ f[Row(v)] \in Int /\ \A g \in G \ {Row(v)} : f[g] = 0
    BY <1>15, <1>16, <1>17, <2>1
  <2> HIDE DEF f
  <2>3. \A g \in G : f[g] \in Int
    BY <2>2
  <2>4. SumFunctionOnSet(f, G) = f[Row(v)] + SumFunctionOnSet(f, G \ {Row(v)})
    BY <1>18, <2>1, <2>3, SumRemove
  <2>5. IsFiniteSet(G \ {Row(v)})
    BY <1>18, FS_Subset
  <2>6. SumFunctionOnSet(f, G \ {Row(v)}) = 0
    BY <2>2, <2>5, SumZero
  <2>7. QED
    BY <2>2, <2>4, <2>6 DEF SumFunction
<1>20. QED
  BY <1>15, <1>19 DEF Sum, SumOver, G

(* All the panels of an answer tell of the same records.                   *)
THEOREM PayloadIsOneStory == Spec => []PanelsAgree
<1>1. ReadInv => PanelsAgree
  <2> SUFFICES ASSUME ReadInv, Answered, request.disturbed = 0, Settled
               PROVE  LET q == request.query
                          p == Payload(request)
                          rows == InRange(db, q)
                          total == Sum(rows, LAMBDA r : r.cost)
                          Cost(panel) == Sum(panel, LAMBDA x : x.cost)
                      IN /\ Cost(p.hourly) = total /\ Cost(p.cost_by_model) = total
                         /\ Cost(p.cost_by_project) = total
                         /\ p.total_sessions = Cardinality(Sessions(rows))
                         /\ p.total_sessions <= SessionLimit => Cost(p.sessions) = total
                         /\ Sum(p.hourly, LAMBDA h : h.requests) = Cardinality(rows)
                         /\ p.token_types = {b \in Buckets : \E r \in rows : r.toks[b] # 0}
                         /\ UseRollup(q) => Cost(Heatmap(q)) = total
                         /\ \A h \in p.hourly :
                              Sum({g \in p.hourly : g.hour = h.hour},
                                  LAMBDA g : g.session_count)
                                <= Cardinality(Sessions({r \in rows :
                                      DisplayBucket(SourceHour(r.ts, q), q) = h.hour}))
    BY DEF PanelsAgree
  <2> DEFINE q == request.query
             p == Payload(request)
             H == Hourly(q, Snapshot)
             rows == Asked(Stamped(db), q)
             total == SumFunction([r \in rows |-> Adding(r, "cost")])
             Cost(panel) == Sum(panel, LAMBDA x : x.cost)
  <2>1. /\ q \in Queries /\ p.hourly = H
        /\ p.token_types = TokenTypes(H)
        /\ p.cost_by_model = CostByModel(H)
        /\ p.total_sessions = TotalSessions(q, Snapshot)
        /\ p.cost_by_project = CostByProject(q, Snapshot)
        /\ p.sessions = SessionRows(q, Snapshot)
    BY AnswerSeesNow
  <2>2. Reads(Snapshot, Stamped(db)) /\ rolled = db
    BY StampedPart DEF Reads, Snapshot, Settled, ReadInv
  <2>3. InRange(db, q) = rows
    <3>1. q.span \in Spans /\ Stamped(db) \subseteq Timed
      BY <2>1, StampedPart DEF Queries, ReadInv
    <3> HIDE DEF q
    <3>2. QED
      BY <3>1, AskedInRange
  <2>4. "cost" \in Columns /\ "requests" \in Columns
    BY DEF Columns
  <2>5. \A x : /\ Of(x, "cost") = x.cost /\ Adding(x, "cost") = x.cost
               /\ Of(x, "requests") = x.requests /\ Adding(x, "requests") = 1
    BY DEF Of, Adding
  <2>6. Sum(InRange(db, q), LAMBDA r : r.cost) = total
    BY <2>3, <2>5 DEF Sum, SumOver
  <2> HIDE DEF q, p, H, rows, total
  <2>7. Cost(p.hourly) = total /\ IsFiniteSet(H) /\ \A x \in H : Of(x, "cost") \in Nat
    BY <2>1, <2>2, <2>4, CostOf, HourlyColumn DEF H, rows, total
  <2>8. Cost(p.cost_by_model) = total
    <3>1. Column(CostByModel(H), "cost") = Column(H, "cost")
      BY <2>7, ByModelColumn
    <3>2. Cost(H) = Column(H, "cost") /\ Cost(CostByModel(H)) = Column(CostByModel(H), "cost")
      BY CostOf
    <3>3. QED
      BY <2>1, <2>7, <3>1, <3>2
  <2>9. Cost(p.cost_by_project) = total
    BY <2>1, <2>2, CostOf, ByProjectColumn DEF rows, total
  <2>10. p.total_sessions = Cardinality(Sessions(rows))
    <3>1. Sessions(RollSource(q, Snapshot)) = Sessions(rows)
      <4>1. Stamped(Snapshot.db) = Stamped(db) /\ Stamped(Snapshot.rolled) = Stamped(db)
        BY <2>2 DEF Reads
      <4>2. RollSource(q, Snapshot) = {Sourced(Stamped(db), UseRollup(q), r) : r \in Asked(Stamped(db), q)}
        BY <4>1, SourceRows
      <4>3. \A r : Sourced(Stamped(db), UseRollup(q), r).session = r.session
        BY SourceFields
      <4>4. QED
        BY <4>2, <4>3 DEF Sessions, rows
    <3>2. QED
      BY <2>1, <3>1 DEF TotalSessions
  <2>11. p.total_sessions <= SessionLimit => Cost(p.sessions) = total
    BY <2>1, <2>2, CostOf, SessionColumn DEF rows, total
  <2>12. Sum(p.hourly, LAMBDA h : h.requests) = Cardinality(rows)
    <3> DEFINE f == [r \in rows |-> Adding(r, "requests")]
    <3>1. Sum(H, LAMBDA h : h.requests) = SumFunction(f)
      <4>1. Column(H, "requests") = SumFunction(f)
        BY <2>2, <2>4, HourlyColumn DEF H, rows
      <4>2. QED
        BY <2>5, <4>1 DEF Column, Sum, SumOver
    <3>2. IsFiniteSet(rows)
      BY <2>2, SourceOfQuery DEF rows
    <3>3. DOMAIN f = rows /\ \A r \in rows : f[r] = 1
      BY <2>5
    <3> HIDE DEF f
    <3>4. SumFunction(f) = Cardinality(rows)
      BY <3>2, <3>3, SumOnes DEF SumFunction
    <3>5. QED
      BY <2>1, <3>1, <3>4
  <2>13. p.token_types = {b \in Buckets : \E r \in rows : r.toks[b] # 0}
    BY <2>1, <2>2, TokenTypesUsed DEF H, rows
  <2>14. UseRollup(q) => Cost(Heatmap(q)) = total
    BY <2>2, CostOf, HeatmapColumn DEF rows, total
  <2>15. ASSUME NEW h \in p.hourly
         PROVE  Sum({g \in p.hourly : g.hour = h.hour}, LAMBDA g : g.session_count)
                  <= Cardinality(Sessions({r \in rows :
                        DisplayBucket(SourceHour(r.ts, q), q) = h.hour}))
    BY <2>1, <2>2, BucketCounts DEF H, rows
  <2>16. QED
    BY <2>3, <2>6, <2>7, <2>8, <2>9, <2>10, <2>11, <2>12, <2>13, <2>14, <2>15 DEF q, p
<1>2. QED
  BY <1>1, ReadInvInit, ReadInvNext, PTL DEF Spec

-----------------------------------------------------------------------------
(* The session list.  A session whose first event does not move, and is at *)
(* no event of another session, is behind the cursor once it is listed and *)
(* before it until then.                                                   *)

SessionIds == {r.session : r \in Records}

Listings ==
    [cursor : Nat \cup {None}, listed : Seq(SessionIds),
     base : SUBSET [session : SessionIds, first : Nat \cup {None}], done : BOOLEAN]

First(R, s) ==
    LET times == {r.ts : r \in Stamped({x \in R : x.session = s})}
    IN IF times = {} THEN None ELSE Min(times)

Steady(R, b) ==
    /\ First(R, b.session) = b.first
    /\ ~ \E r \in R : r.session # b.session /\ r.ts = b.first

Never(l, s) == \A i \in DOMAIN l : l[i] # s
Once(l, s) == \E i \in DOMAIN l : \A j \in DOMAIN l : l[j] = s <=> j = i

(* Where the listing is with a session that had a beginning at its own.    *)
Progress(R, L, b) ==
    /\ \E r \in R : r.session = b.session /\ r.ts = b.first
    /\ Steady(R, b) =>
         IF L.done THEN Once(L.listed, b.session)
         ELSE IF L.cursor = None THEN Never(L.listed, b.session)
         ELSE IF b.first >= L.cursor THEN Once(L.listed, b.session)
         ELSE Never(L.listed, b.session)

ListInv ==
    /\ db \in SUBSET Records /\ IsFiniteSet(db)
    /\ calls \in SUBSET Calls /\ IsFiniteSet(calls)
    /\ listing # None => /\ listing \in Listings
                         /\ \A b \in listing.base :
                              b.first # None => Progress(db, listing, b)

(* The first event of a session is one of its events, and none is earlier; *)
(* it has one if any of its events has a time.                             *)
LEMMA FirstOf ==
  ASSUME NEW R \in SUBSET Records, NEW s
  PROVE  /\ First(R, s) \in Nat \cup {None}
         /\ First(R, s) # None => \E r \in R : r.session = s /\ r.ts = First(R, s)
         /\ \A r \in R : r.session = s /\ r.ts # None =>
              First(R, s) \in Nat /\ First(R, s) <= r.ts
<1> DEFINE T == {r.ts : r \in Stamped({x \in R : x.session = s})}
<1>1. \A t : t \in T <=> t # None /\ \E r \in R : r.session = s /\ r.ts = t
  BY DEF Stamped
<1>2. T \in SUBSET Nat
  BY CorpusAssumption DEF Stamped
<1>3. First(R, s) = IF T = {} THEN None ELSE Min(T)
  BY DEF First
<1> HIDE DEF T
<1>4. T # {} => Min(T) \in T /\ \A t \in T : Min(T) <= t
  BY <1>2, MinNat
<1>5. First(R, s) # None => First(R, s) \in T
  BY <1>3, <1>4
<1>6. \A r \in R : r.session = s /\ r.ts # None =>
         First(R, s) \in Nat /\ First(R, s) <= r.ts
  BY <1>1, <1>2, <1>3, <1>4
<1>7. QED
  BY <1>1, <1>2, <1>5, <1>6

(* A session that is steady now always was.                                *)
LEMMA SteadyBefore ==
  ASSUME NEW Q \in SUBSET Records, NEW R \in SUBSET Q, NEW b, b.first # None,
         \E r \in R : r.session = b.session /\ r.ts = b.first,
         Steady(Q, b)
  PROVE  Steady(R, b)
<1>1. PICK r \in R : r.session = b.session /\ r.ts = b.first
  OBVIOUS
<1>2. First(R, b.session) \in Nat /\ First(R, b.session) <= b.first
  BY <1>1, FirstOf
<1>3. PICK x \in R : x.session = b.session /\ x.ts = First(R, b.session)
  BY <1>2, FirstOf, PanelsAssumption
<1>4. First(Q, b.session) <= x.ts
  BY <1>2, <1>3, FirstOf, PanelsAssumption
<1>5. First(Q, b.session) = b.first /\ ~ \E y \in Q : y.session # b.session /\ y.ts = b.first
  BY DEF Steady
<1>6. b.first \in Nat
  BY <1>1, CorpusAssumption
<1>7. First(R, b.session) = b.first
  BY <1>2, <1>3, <1>4, <1>5, <1>6
<1>8. QED
  BY <1>5, <1>7 DEF Steady

(* What descends from each to the next, with the nulls last, descends.     *)
LEMMA Descending ==
  ASSUME NEW n \in Nat, NEW v \in [1 .. n -> Nat \cup {None}],
         \A i \in 2 .. n : v[i] # None => v[i - 1] # None /\ v[i - 1] >= v[i]
  PROVE  \A i, j \in 1 .. n : i <= j /\ v[j] # None => v[i] # None /\ v[i] >= v[j]
<1> DEFINE Down(i, j) == v[j] # None => v[i] # None /\ v[i] >= v[j]
           N == {d \in Nat : \A i \in 1 .. n : i + d \in 1 .. n => Down(i, i + d)}
<1>1. 0 \in N
  <2>1. \A i \in 1 .. n : i + 0 = i /\ v[i] \in Nat \cup {None}
    OBVIOUS
  <2>2. QED
    BY <2>1
<1>2. ASSUME NEW d \in N
      PROVE  d + 1 \in N
  <2> SUFFICES ASSUME NEW i \in 1 .. n, i + (d + 1) \in 1 .. n, v[i + (d + 1)] # None
               PROVE  v[i] # None /\ v[i] >= v[i + (d + 1)]
    OBVIOUS
  <2>1. i + d \in 1 .. n /\ i + (d + 1) \in 2 .. n /\ (i + (d + 1)) - 1 = i + d
    OBVIOUS
  <2>2. v[i + d] # None /\ v[i + d] >= v[i + (d + 1)]
    BY <2>1
  <2>3. v[i] # None /\ v[i] >= v[i + d]
    BY <2>1, <2>2
  <2>4. v[i] \in Nat /\ v[i + d] \in Nat /\ v[i + (d + 1)] \in Nat
    BY <2>1, <2>2, <2>3
  <2>5. QED
    BY <2>2, <2>3, <2>4
<1> HIDE DEF N
<1>3. N \in SUBSET Nat
  BY DEF N
<1>4. N = Nat
  BY <1>1, <1>2, <1>3, Induct
<1>5. ASSUME NEW i \in 1 .. n, NEW j \in 1 .. n, i <= j
      PROVE  Down(i, j)
  <2>1. j - i \in N /\ i + (j - i) = j
    BY <1>4, <1>5
  <2>2. QED
    BY <2>1 DEF N
<1>6. QED
  BY <1>5

(* An order of a finite set has every member once.                         *)
LEMMA OrderOf ==
  ASSUME NEW S, IsFiniteSet(S), NEW o \in SetToSeqs(S)
  PROVE  /\ o \in Seq(S) /\ Len(o) = Cardinality(S) /\ Len(o) \in Nat
         /\ DOMAIN o = 1 .. Len(o)
         /\ \A i, j \in 1 .. Len(o) : o[i] = o[j] => i = j
         /\ \A s \in S : \E i \in 1 .. Len(o) : o[i] = s
<1> DEFINE n == Cardinality(S)
<1>1. n \in Nat /\ o \in [1 .. n -> S] /\ \A i, j \in 1 .. n : i # j => o[i] # o[j]
  BY FS_CardinalityType DEF SetToSeqs
<1> HIDE DEF n
<1>2. o \in Seq(S) /\ Len(o) = n
  BY <1>1
<1>3. o \in Injection(1 .. n, S)
  <2>1. \A i, j \in 1 .. n : o[i] = o[j] => i = j
    BY <1>1
  <2>2. o \in [1 .. n -> S]
    BY <1>1
  <2>3. QED
    BY <2>1, <2>2 DEF Injection, IsInjective
<1>4. Cardinality(1 .. n) = n
  <2>1. Cardinality(1 .. n) = IF 1 > n THEN 0 ELSE n - 1 + 1
    BY <1>1, FS_Interval
  <2>2. QED
    BY <1>1, <2>1
<1>5. o \in Surjection(1 .. n, S)
  BY <1>3, <1>4, FS_Injection DEF n
<1>6. \A s \in S : \E i \in 1 .. n : o[i] = s
  BY <1>5 DEF Surjection
<1>7. QED
  BY <1>1, <1>2, <1>6 DEF n

(* How often a session is in two lists together.                           *)
LEMMA ConcatOnce ==
  ASSUME NEW T, NEW l \in Seq(T), NEW p \in Seq(T), NEW s
  PROVE  /\ Never(l, s) /\ Never(p, s) => Never(l \o p, s)
         /\ Never(l, s) /\ Once(p, s) => Once(l \o p, s)
         /\ Once(l, s) /\ Never(p, s) => Once(l \o p, s)
<1> DEFINE m == Len(l)
           k == Len(p)
           c == l \o p
<1>1. /\ m \in Nat /\ k \in Nat /\ DOMAIN l = 1 .. m /\ DOMAIN p = 1 .. k
      /\ DOMAIN c = 1 .. m + k
      /\ \A i \in 1 .. m + k : c[i] = IF i <= m THEN l[i] ELSE p[i - m]
  BY ConcatProperties, LenProperties
<1> HIDE DEF m, k, c
<1>0. DOMAIN l = 1 .. m /\ DOMAIN p = 1 .. k /\ DOMAIN c = 1 .. m + k
  BY <1>1
<1>2. \A i \in 1 .. m : i \in 1 .. m + k /\ c[i] = l[i]
  BY <1>1
<1>3. \A i \in 1 .. k : i + m \in 1 .. m + k /\ c[i + m] = p[i]
  <2> SUFFICES ASSUME NEW i \in 1 .. k
               PROVE  i + m \in 1 .. m + k /\ c[i + m] = p[i]
    OBVIOUS
  <2>1. i + m \in 1 .. m + k /\ ~(i + m <= m) /\ (i + m) - m = i
    BY <1>1
  <2>2. QED
    BY <1>1, <2>1
<1>4. \A i \in 1 .. m + k : i \in 1 .. m \/ (i - m \in 1 .. k /\ (i - m) + m = i)
  BY <1>1
<1>5. ASSUME Never(l, s), Never(p, s)
      PROVE  Never(c, s)
  <2> SUFFICES ASSUME NEW i \in 1 .. m + k
               PROVE  c[i] # s
    BY <1>0 DEF Never
  <2>1. CASE i \in 1 .. m
    BY <1>0, <1>2, <1>5, <2>1 DEF Never
  <2>2. CASE i - m \in 1 .. k /\ (i - m) + m = i
    <3>1. p[i - m] # s
      BY <1>0, <1>5, <2>2 DEF Never
    <3>2. c[(i - m) + m] = p[i - m]
      BY <1>3, <2>2
    <3>3. QED
      BY <2>2, <3>1, <3>2
  <2>3. QED
    BY <1>4, <2>1, <2>2
<1>6. ASSUME Never(l, s), Once(p, s)
      PROVE  Once(c, s)
  <2>1. PICK i \in 1 .. k : \A j \in 1 .. k : p[j] = s <=> j = i
    BY <1>0, <1>6 DEF Once
  <2>2. i + m \in 1 .. m + k /\ c[i + m] = s
    BY <1>3, <2>1
  <2>3. ASSUME NEW j \in 1 .. m + k, c[j] = s
        PROVE  j = i + m
    <3>1. j \notin 1 .. m
      BY <1>0, <1>2, <1>6, <2>3 DEF Never
    <3>2. j - m \in 1 .. k /\ (j - m) + m = j
      BY <1>4, <3>1
    <3>3. p[j - m] = s
      BY <1>3, <2>3, <3>2
    <3>4. j - m = i
      BY <2>1, <3>2, <3>3
    <3>5. QED
      BY <3>2, <3>4
  <2>4. QED
    BY <1>0, <2>2, <2>3 DEF Once
<1>7. ASSUME Once(l, s), Never(p, s)
      PROVE  Once(c, s)
  <2>1. PICK i \in 1 .. m : \A j \in 1 .. m : l[j] = s <=> j = i
    BY <1>0, <1>7 DEF Once
  <2>2. i \in 1 .. m + k /\ c[i] = s
    BY <1>2, <2>1
  <2>3. ASSUME NEW j \in 1 .. m + k, c[j] = s
        PROVE  j = i
    <3>1. CASE j \in 1 .. m
      BY <1>2, <2>1, <2>3, <3>1
    <3>2. CASE j - m \in 1 .. k /\ (j - m) + m = j
      <4>1. p[j - m] = s
        BY <1>3, <2>3, <3>2
      <4>2. QED
        BY <1>0, <1>7, <3>2, <4>1 DEF Never
    <3>3. QED
      BY <1>4, <3>1, <3>2
  <2>4. QED
    BY <1>0, <2>2, <2>3 DEF Once
<1>8. QED
  BY <1>5, <1>6, <1>7 DEF c

Older(R, L) ==
    {s \in Sessions(R) :
        L.cursor # None => First(R, s) # None /\ First(R, s) < L.cursor}

Page(o) == SubSeq(o, 1, Min({PageSize, Len(o)}))

Following(R, o) == IF Len(o) > PageSize THEN First(R, o[PageSize]) ELSE None

Turned(R, L, o) ==
    [L EXCEPT !.listed = L.listed \o Page(o),
              !.cursor = Following(R, o),
              !.done = Following(R, o) = None]

(* A page is the first of what is ordered.                                 *)
LEMMA PageOf ==
  ASSUME NEW S, IsFiniteSet(S), NEW o \in SetToSeqs(S)
  PROVE  LET k == IF Len(o) > PageSize THEN PageSize ELSE Len(o)
         IN Page(o) \in Seq(S) /\ Len(Page(o)) = k /\ \A i \in 1 .. k : Page(o)[i] = o[i]
<1> DEFINE k == IF Len(o) > PageSize THEN PageSize ELSE Len(o)
<1>1. /\ PageSize \in Nat /\ PageSize # 0
      /\ o \in Seq(S) /\ Len(o) \in Nat /\ DOMAIN o = 1 .. Len(o)
  BY OrderOf, PanelsAssumption
<1>2. Min({PageSize, Len(o)}) = k
  <2> DEFINE T == {PageSize, Len(o)}
  <2>1. T \in SUBSET Nat /\ T # {}
    BY <1>1
  <2>2. Min(T) \in T /\ \A t \in T : Min(T) <= t
    <3> HIDE DEF T
    <3>1. QED
      BY <2>1, MinNat
  <2>3. /\ Min(T) = PageSize \/ Min(T) = Len(o)
        /\ Min(T) <= PageSize /\ Min(T) <= Len(o)
    BY <2>2
  <2>4. QED
    BY <1>1, <2>3
<1>3. k \in Nat /\ k \in Int /\ 1 \in Int /\ \A i \in 1 .. k : i \in 1 .. Len(o)
  BY <1>1
<1>4. \A i \in 1 .. k : o[i] \in S
  BY <1>1, <1>3, ElementOfSeq
<1> HIDE DEF k
<1>5. /\ SubSeq(o, 1, k) \in Seq(S)
      /\ Len(SubSeq(o, 1, k)) = IF 1 <= k THEN k - 1 + 1 ELSE 0
      /\ \A i \in 1 .. k - 1 + 1 : SubSeq(o, 1, k)[i] = o[1 + i - 1]
  BY <1>3, <1>4, SubSeqProperties
<1>6. Page(o) = SubSeq(o, 1, k)
  BY <1>2 DEF Page
<1>7. Len(SubSeq(o, 1, k)) = k
  BY <1>3, <1>5
<1>8. \A i \in 1 .. k : i \in 1 .. k - 1 + 1 /\ 1 + i - 1 = i
  BY <1>3
<1>9. \A i \in 1 .. k : SubSeq(o, 1, k)[i] = o[i]
  BY <1>5, <1>8
<1>10. QED
  BY <1>5, <1>6, <1>7, <1>9 DEF k

(* A page keeps every steady session on its side of the cursor.            *)
LEMMA PageProgress ==
  ASSUME NEW R \in SUBSET Records, IsFiniteSet(R), NEW L \in Listings, ~L.done,
         \A b \in L.base : b.first # None => Progress(R, L, b),
         NEW o \in SetToSeqs(Older(R, L)),
         \A i \in 2 .. Len(o) : First(R, o[i]) # None =>
              First(R, o[i - 1]) # None /\ First(R, o[i - 1]) >= First(R, o[i])
  PROVE  /\ Turned(R, L, o) \in Listings /\ Turned(R, L, o).base = L.base
         /\ \A b \in L.base : b.first # None => Progress(R, Turned(R, L, o), b)
<1> DEFINE S == Older(R, L)
           M == Turned(R, L, o)
           n == Len(o)
           more == n > PageSize
           k == IF more THEN PageSize ELSE n
           v == [i \in 1 .. n |-> First(R, o[i])]
<1>1. IsFiniteSet(S)
  <2> DEFINE h == [r \in R |-> r.session]
             T == Sessions(R)
  <2>1. (\A r \in R : h[r] \in T) /\ (\A t \in T : \E r \in R : h[r] = t)
    BY DEF Sessions
  <2> HIDE DEF h, T
  <2>2. IsFiniteSet(T)
    BY <2>1, ImageFinite
  <2>3. S \in SUBSET T
    BY DEF Older, T
  <2>4. QED
    BY <2>2, <2>3, FS_Subset
<1>2. /\ o \in Seq(S) /\ n \in Nat /\ DOMAIN o = 1 .. n
      /\ \A i, j \in 1 .. n : o[i] = o[j] => i = j
      /\ \A t \in S : \E i \in 1 .. n : o[i] = t
  BY <1>1, OrderOf
<1>3. PageSize \in Nat /\ PageSize # 0 /\ k \in 0 .. n
      /\ (more => k = PageSize /\ k \in 1 .. n) /\ (~more => k = n)
  BY <1>2, PanelsAssumption
<1>4. /\ Page(o) \in Seq(S) /\ Len(Page(o)) = k
      /\ \A i \in 1 .. k : Page(o)[i] = o[i]
  BY <1>1, PageOf
<1>5. \A t \in S :
        /\ t \in SessionIds
        /\ First(R, t) \in Nat \cup {None}
        /\ First(R, t) # None => \E r \in R : r.session = t /\ r.ts = First(R, t)
        /\ L.cursor # None => First(R, t) # None /\ First(R, t) < L.cursor
  <2>1. \A t \in S : \E r \in R : r.session = t
    BY DEF Older, Sessions
  <2>2. QED
    BY <2>1, FirstOf DEF Older, SessionIds
<1>6. \A i \in 1 .. n : o[i] \in S
  BY <1>2, ElementOfSeq
<1>7. /\ L.cursor \in Nat \cup {None} /\ L.listed \in Seq(SessionIds)
      /\ L.base \in SUBSET [session : SessionIds, first : Nat \cup {None}] /\ L.done \in BOOLEAN
      /\ L = [cursor |-> L.cursor, listed |-> L.listed, base |-> L.base, done |-> L.done]
  BY DEF Listings
<1>8. Page(o) \in Seq(SessionIds) /\ L.listed \in Seq(SessionIds)
  <2>1. S \subseteq SessionIds
    BY <1>5
  <2> HIDE DEF S
  <2>2. QED
    BY <1>4, <1>7, <2>1
<1>9. /\ M.listed = L.listed \o Page(o) /\ M.base = L.base
      /\ M.done = (M.cursor = None)
      /\ M.cursor = IF more THEN First(R, o[PageSize]) ELSE None
  BY <1>7 DEF Turned, Following
<1>10. M \in Listings
  <2>1. M.listed \in Seq(SessionIds)
    BY <1>8, <1>9, ConcatProperties
  <2>2. M.cursor \in Nat \cup {None}
    BY <1>3, <1>5, <1>6, <1>7, <1>9
  <2> DEFINE l == L.listed \o Page(o)
             c == Following(R, o)
             d == Following(R, o) = None
  <2>3. l \in Seq(SessionIds) /\ c \in Nat \cup {None} /\ d \in BOOLEAN
    BY <1>9, <2>1, <2>2 DEF Following
  <2>4. M = [L EXCEPT !.listed = l, !.cursor = c, !.done = d]
    BY DEF Turned
  <2> HIDE DEF M, l, c, d
  <2>5. QED
    BY <2>3, <2>4 DEF Listings
<1> HIDE DEF M, S
<1>11. ASSUME NEW b \in L.base, b.first # None, Steady(R, b)
       PROVE  IF M.done THEN Once(M.listed, b.session)
              ELSE IF M.cursor = None THEN Never(M.listed, b.session)
              ELSE IF b.first >= M.cursor THEN Once(M.listed, b.session)
              ELSE Never(M.listed, b.session)
  <2> DEFINE s == b.session
  <2>0. Progress(R, L, b)
    BY <1>11
  <2>1. /\ First(R, s) = b.first /\ b.first \in Nat /\ s \in Sessions(R)
        /\ ~ \E r \in R : r.session # s /\ r.ts = b.first
    <3>1. First(R, s) = b.first /\ ~ \E r \in R : r.session # s /\ r.ts = b.first
      BY <1>11 DEF Steady
    <3>2. \E r \in R : r.session = s
      BY <2>0 DEF Progress
    <3>3. b.first \in Nat
      BY <1>7, <1>11
    <3>4. QED
      BY <3>1, <3>2, <3>3 DEF Sessions
  <2>2. DOMAIN Page(o) = 1 .. k
    BY <1>4, LenProperties
  <2>3. ~M.done => more /\ M.cursor \in Nat /\ M.cursor # None
    BY <1>3, <1>5, <1>6, <1>9
  <2>4. CASE s \in S
    <3>1. Never(L.listed, s)
      <4>1. L.cursor # None => L.cursor \in Nat /\ b.first < L.cursor
        BY <1>5, <1>7, <2>1, <2>4
      <4>2. L.cursor # None => ~(b.first >= L.cursor)
        BY <2>1, <4>1
      <4>3. QED
        BY <1>11, <2>0, <4>2 DEF Progress
    <3>2. PICK j \in 1 .. n : o[j] = s
      BY <1>2, <2>4
    <3>3. /\ v \in [1 .. n -> Nat \cup {None}]
          /\ \A i \in 2 .. n : v[i] # None => v[i - 1] # None /\ v[i - 1] >= v[i]
      <4>1. v \in [1 .. n -> Nat \cup {None}]
        BY <1>5, <1>6
      <4>2. \A i \in 2 .. n : i \in 1 .. n /\ i - 1 \in 1 .. n
        BY <1>2
      <4>3. QED
        BY <4>1, <4>2
    <3>4. \A i, l \in 1 .. n : i <= l /\ v[l] # None => v[i] # None /\ v[i] >= v[l]
      <4> HIDE DEF v
      <4>1. QED
        BY <1>2, <3>3, Descending
    <3>5. CASE j <= k
      <4>1. Once(Page(o), s)
        <5>1. j \in 1 .. k /\ \A i \in 1 .. k : i \in 1 .. n
          BY <1>3, <3>5
        <5>2. ASSUME NEW i \in 1 .. k
              PROVE  Page(o)[i] = s <=> i = j
          <6>1. Page(o)[i] = o[i] /\ i \in 1 .. n
            BY <1>4, <5>1
          <6>2. o[i] = o[j] <=> i = j
            BY <1>2, <6>1
          <6>3. QED
            BY <3>2, <6>1, <6>2
        <5>3. QED
          BY <2>2, <5>1, <5>2 DEF Once
      <4>2. Once(M.listed, s)
        BY <1>8, <1>9, <3>1, <4>1, ConcatOnce
      <4>3. ~M.done => b.first >= M.cursor
        <5>1. ~M.done => k \in 1 .. n /\ v[k] = M.cursor /\ v[k] # None
          BY <1>3, <1>9, <2>3
        <5>2. v[j] = b.first
          BY <2>1, <3>2
        <5>3. QED
          BY <3>4, <3>5, <5>1, <5>2
      <4>4. QED
        BY <1>9, <2>3, <4>2, <4>3
    <3>6. CASE ~(j <= k)
      <4>1. more /\ k = PageSize /\ k \in 1 .. n
        BY <1>3, <3>6
      <4>2. Never(Page(o), s)
        <5>1. \A i \in 1 .. k : i \in 1 .. n /\ i # j
          BY <1>3, <3>6
        <5>2. \A i \in 1 .. k : Page(o)[i] # s
          BY <1>2, <1>4, <3>2, <5>1
        <5>3. QED
          BY <2>2, <5>2 DEF Never
      <4>3. Never(M.listed, s)
        BY <1>8, <1>9, <3>1, <4>2, ConcatOnce
      <4>4. v[k] # None /\ v[k] >= v[j] /\ v[k] = M.cursor /\ v[j] = b.first
        <5>1. k <= j
          BY <3>6, <4>1
        <5>2. v[j] = b.first /\ v[j] # None /\ v[k] = M.cursor
          BY <1>9, <1>11, <2>1, <3>2, <4>1
        <5>3. QED
          BY <3>4, <4>1, <5>1, <5>2
      <4>5. M.cursor # b.first
        <5>1. o[k] # s
          BY <1>2, <3>2, <3>6, <4>1
        <5>2. PICK r \in R : r.session = o[k] /\ r.ts = First(R, o[k])
          BY <1>5, <1>6, <4>1, <4>4
        <5>3. r.ts # b.first
          BY <2>1, <5>1, <5>2
        <5>4. QED
          BY <1>9, <4>1, <5>2, <5>3
      <4>6. ~M.done
        BY <1>9, <4>4
      <4>7. ~(b.first >= M.cursor)
        BY <2>1, <2>3, <4>4, <4>5, <4>6
      <4>8. QED
        BY <2>3, <4>3, <4>6, <4>7
    <3>7. QED
      BY <3>5, <3>6
  <2>5. CASE s \notin S
    <3>1. L.cursor # None /\ L.cursor \in Nat /\ b.first >= L.cursor
      <4>1. L.cursor # None /\ ~(First(R, s) < L.cursor)
        BY <1>11, <2>1, <2>5 DEF S, Older
      <4>2. QED
        BY <1>7, <2>1, <4>1
    <3>2. Once(L.listed, s)
      BY <1>11, <2>0, <3>1 DEF Progress
    <3>3. Never(Page(o), s)
      <4>1. \A i \in 1 .. k : i \in 1 .. n
        BY <1>3
      <4>2. \A i \in 1 .. k : Page(o)[i] # s
        BY <1>4, <1>6, <2>5, <4>1
      <4>3. QED
        BY <2>2, <4>2 DEF Never
    <3>4. Once(M.listed, s)
      BY <1>8, <1>9, <3>2, <3>3, ConcatOnce
    <3>5. ~M.done => b.first >= M.cursor
      <4>1. more => First(R, o[PageSize]) < L.cursor /\ First(R, o[PageSize]) \in Nat
        BY <1>3, <1>5, <1>6, <3>1
      <4>2. QED
        BY <1>9, <2>1, <2>3, <3>1, <4>1
    <3>6. QED
      BY <1>9, <2>3, <3>4, <3>5
  <2>6. QED
    BY <2>4, <2>5
<1>12. \A b \in L.base : b.first # None => Progress(R, M, b)
  BY <1>11 DEF Progress
<1>13. QED
  BY <1>9, <1>10, <1>12 DEF M

(* No list is open at the beginning.                                       *)
LEMMA ListInvInit == Init => ListInv
BY FS_EmptySet DEF Init, ListInv

(* No step breaks the invariant: commits move first events back or leave   *)
(* them, and pages are PageProgress.                                       *)
LEMMA ListInvNext == ListInv /\ [Next]_vars => ListInv'
<1> SUFFICES ASSUME ListInv, [Next]_vars
             PROVE  ListInv'
  OBVIOUS
<1>1. /\ db \in SUBSET Records /\ IsFiniteSet(db)
      /\ calls \in SUBSET Calls /\ IsFiniteSet(calls)
  BY DEF ListInv
<1>2. CASE CommitFile
  <2>2. /\ db' \in SUBSET Records /\ IsFiniteSet(db') /\ db \in SUBSET db'
        /\ calls' \in SUBSET Calls /\ IsFiniteSet(calls')
    BY <1>1, <1>2, Committed
  <2>3. listing' = listing
    BY <1>2 DEF CommitFile
  <2>4. ASSUME listing # None, NEW b \in listing.base, b.first # None
        PROVE  Progress(db', listing, b)
    <3>1. Progress(db, listing, b)
      BY <2>4 DEF ListInv
    <3>2. \E x \in db : x.session = b.session /\ x.ts = b.first
      BY <3>1 DEF Progress
    <3>3. Steady(db', b) => Steady(db, b)
      BY <2>2, <2>4, <3>2, SteadyBefore
    <3>4. \E x \in db' : x.session = b.session /\ x.ts = b.first
      BY <2>2, <3>2
    <3>5. QED
      BY <3>1, <3>3, <3>4 DEF Progress
  <2>5. QED
    BY <2>2, <2>3, <2>4 DEF ListInv
<1>3. CASE OpenList
  <2>1. /\ listing' = [cursor |-> None, listed |-> <<>>,
                       base |-> {[session |-> s, first |-> First(db, s)] : s \in Sessions(db)},
                       done |-> FALSE]
        /\ UNCHANGED <<db, calls>>
    BY <1>3 DEF OpenList, FirstEvent, First
  <2>2. \A s \in Sessions(db) :
          /\ s \in SessionIds /\ First(db, s) \in Nat \cup {None}
          /\ First(db, s) # None => \E r \in db : r.session = s /\ r.ts = First(db, s)
    BY <1>1, FirstOf DEF Sessions, SessionIds
  <2> DEFINE base == {[session |-> s, first |-> First(db, s)] : s \in Sessions(db)}
             L == [cursor |-> None, listed |-> <<>>, base |-> base, done |-> FALSE]
  <2>3. base \in SUBSET [session : SessionIds, first : Nat \cup {None}]
        /\ \A b \in base : b.first # None =>
             \E r \in db : r.session = b.session /\ r.ts = b.first
    BY <2>2
  <2>4. L.cursor = None /\ L.listed = <<>> /\ L.base = base /\ L.done = FALSE
    OBVIOUS
  <2>5. L \in Listings
    <3> HIDE DEF base
    <3>1. QED
      BY <2>3 DEF Listings
  <2>6. listing' = L
    BY <2>1
  <2> HIDE DEF base, L
  <2>7. \A b \in base : b.first # None => Progress(db, L, b)
    <3>1. \A b : Never(L.listed, b.session)
      BY <2>4 DEF Never
    <3>2. QED
      BY <2>3, <2>4, <3>1 DEF Progress
  <2>8. QED
    BY <1>1, <2>1, <2>4, <2>5, <2>6, <2>7 DEF ListInv
<1>4. CASE FetchPage
  <2>1. listing # None /\ ~listing.done /\ UNCHANGED <<db, calls>> /\ listing \in Listings
    BY <1>4 DEF FetchPage, ListInv
  <2>2. {s \in Sessions(db) : listing.cursor # None =>
             FirstEvent(s) # None /\ FirstEvent(s) < listing.cursor} = Older(db, listing)
    BY DEF Older, FirstEvent, First
  <2>3. PICK o \in Orders(Older(db, listing)) :
          LET next == IF Len(o) > PageSize THEN NextCursor(o) ELSE None
          IN listing' = [listing EXCEPT
                           !.listed = listing.listed \o SubSeq(o, 1, Min({PageSize, Len(o)})),
                           !.cursor = next, !.done = next = None]
    BY <1>4, <2>2 DEF FetchPage
  <2>4. listing' = Turned(db, listing, o)
    <3>1. Following(db, o) = IF Len(o) > PageSize THEN NextCursor(o) ELSE None
      BY DEF Following, NextCursor, FirstEvent, First
    <3>2. QED
      BY <2>3, <3>1 DEF Turned, Page
  <2>5. /\ o \in SetToSeqs(Older(db, listing))
        /\ \A i \in 2 .. Len(o) : First(db, o[i]) # None =>
              First(db, o[i - 1]) # None /\ First(db, o[i - 1]) >= First(db, o[i])
    <3>1. \A s : FirstEvent(s) = First(db, s)
      BY DEF FirstEvent, First
    <3>2. QED
      BY <3>1 DEF Orders, MayPrecede
  <2>6. \A b \in listing.base : b.first # None => Progress(db, listing, b)
    BY <2>1 DEF ListInv
  <2>7. /\ listing' \in Listings /\ listing'.base = listing.base
        /\ \A b \in listing.base : b.first # None => Progress(db, listing', b)
    BY <1>1, <2>1, <2>4, <2>5, <2>6, PageProgress
  <2>8. QED
    BY <1>1, <2>1, <2>7 DEF ListInv
<1>5. CASE CloseList
  BY <1>1, <1>5 DEF CloseList, ListInv
<1>6. CASE UNCHANGED <<db, calls, listing>>
  BY <1>6 DEF ListInv
<1>7. QED
  BY <1>2, <1>3, <1>4, <1>5, <1>6
     DEF Next, vars, StartRun, RebuildUsage, RebuildTools, Ask, RunStatement, Answer

(* Following the cursors to the end lists every steady session once.       *)
THEOREM SteadySessionsListed == Spec => []EverySessionListed
<1>1. ListInv => EverySessionListed
  <2> SUFFICES ASSUME ListInv, listing # None, listing.done, NEW b \in listing.base,
                      b.first # None, FirstEvent(b.session) = b.first,
                      ~ \E r \in db : r.session # b.session /\ r.ts = b.first
               PROVE  Cardinality({i \in DOMAIN listing.listed :
                                     listing.listed[i] = b.session}) = 1
    BY DEF EverySessionListed
  <2>1. Steady(db, b)
    BY DEF Steady, FirstEvent, First
  <2>2. Once(listing.listed, b.session)
    BY <2>1 DEF ListInv, Progress
  <2>3. PICK i \in DOMAIN listing.listed :
          \A j \in DOMAIN listing.listed : listing.listed[j] = b.session <=> j = i
    BY <2>2 DEF Once
  <2>4. {j \in DOMAIN listing.listed : listing.listed[j] = b.session} = {i}
    BY <2>3
  <2>5. QED
    BY <2>4, FS_Singleton
<1>2. QED
  BY <1>1, ListInvInit, ListInvNext, PTL DEF Spec
=============================================================================
