---------------------------- MODULE FiniteLemmas ----------------------------
(***************************************************************************)
(* Facts about naturals, intervals, finite sets and arrays that the proofs  *)
(* of several components need.  Induction is stated over a set instead of   *)
(* a predicate, so that the provers can use it.                             *)
(***************************************************************************)
EXTENDS Integers, Sequences, Functions, FiniteSetTheorems, SequenceTheorems, TLAPS

-----------------------------------------------------------------------------
(* The least-number principle, and induction from it. *)

LEMMA LeastNumber ==
    ASSUME NEW S \in SUBSET Nat, S # {}
    PROVE  \E m \in S : \A k \in S : m <= k
  <1>1. IsWellFoundedOn(OpToRel(<, Nat), Nat)
    BY NatLessThanWellFounded
  <1>2. PICK m \in S : \A k \in S : ~ (<<k, m>> \in OpToRel(<, Nat))
    BY <1>1, WFMin
  <1>3. \A k \in S : k < m => <<k, m>> \in OpToRel(<, Nat)
    BY DEF OpToRel
  <1>4. \A k \in S : ~ (k < m)
    BY <1>2, <1>3
  <1>5. \A k \in S : m <= k
    <2> TAKE k \in S
    <2>1. k \in Nat /\ m \in Nat
      OBVIOUS
    <2> QED BY <1>4, <2>1
  <1> QED BY <1>5

LEMMA InductionOverSet ==
    ASSUME NEW S, 0 \in S, \A n \in Nat : n \in S => n + 1 \in S
    PROVE  Nat \subseteq S
  <1> DEFINE Outside == {n \in Nat : n \notin S}
  <1> SUFFICES ASSUME Outside # {} PROVE FALSE
    OBVIOUS
  <1>1. PICK m \in Outside : \A k \in Outside : m <= k
    BY LeastNumber
  <1>2. m # 0 /\ m \in Nat
    OBVIOUS
  <1>3. m - 1 \in Nat /\ m - 1 \notin Outside
    BY <1>1, <1>2
  <1> QED BY <1>2, <1>3

-----------------------------------------------------------------------------
(* Finite sets *)

(* A finite set has two members exactly when it has two different ones. *)
LEMMA TwoMembers ==
    ASSUME NEW S, IsFiniteSet(S)
    PROVE  Cardinality(S) >= 2 <=> \E x, y \in S : x # y
  <1>1. Cardinality(S) \in Nat
    BY FS_CardinalityType
  <1>2. Cardinality(S) = 0 <=> S = {}
    BY FS_EmptySet
  <1>3. Cardinality(S) = 1 <=> \E x : S = {x}
    BY FS_Singleton
  <1>4. Cardinality(S) >= 2 <=> ~ (Cardinality(S) = 0 \/ Cardinality(S) = 1)
    BY <1>1
  <1>5. (S = {} \/ \E x : S = {x}) <=> ~ \E x, y \in S : x # y
    OBVIOUS
  <1> QED BY <1>2, <1>3, <1>4, <1>5

(* An interval behind a finite set of integers adds its length. *)
LEMMA AddInterval ==
    ASSUME NEW S, IsFiniteSet(S), NEW a \in Int, NEW n \in Nat, NEW I, I = a .. (a + n - 1), S \cap I = {}
    PROVE  IsFiniteSet(S \cup I) /\ Cardinality(S \cup I) = Cardinality(S) + n
  <1>1. IsFiniteSet(I) /\ Cardinality(I) = n
    BY FS_Interval
  <1>2. IsFiniteSet(S \cup I) /\ Cardinality(S \cup I) = Cardinality(S) + Cardinality(I) - Cardinality(S \cap I)
    BY <1>1, FS_Union
  <1>3. Cardinality(S \cap I) = 0 /\ Cardinality(S) \in Nat
    BY FS_EmptySet, FS_CardinalityType
  <1> QED BY <1>1, <1>2, <1>3

(* A set that a function on D lists without repetition is as large as D. *)
LEMMA CountByListing ==
    ASSUME NEW S, NEW D, IsFiniteSet(D), NEW f, f \in [D -> S],
           \A i, j \in D : f[i] = f[j] => i = j,
           \A x \in S : \E i \in D : f[i] = x
    PROVE  IsFiniteSet(S) /\ Cardinality(S) = Cardinality(D)
  <1>1. f \in Bijection(D, S)
    BY DEF Bijection, Injection, Surjection, IsInjective
  <1>2. ExistsBijection(D, S)
    BY <1>1 DEF ExistsBijection
  <1> QED BY <1>2, FS_Bijection

-----------------------------------------------------------------------------
(* Arrays *)

(* A function on 1..n is a sequence of length n. *)
LEMMA ArrayIsSeq ==
    ASSUME NEW S, NEW n \in Nat, NEW f \in [1 .. n -> S]
    PROVE  f \in Seq(S) /\ Len(f) = n /\ DOMAIN f = 1 .. n
  <1>1. f \in Seq(S)
    BY SeqDef
  <1>2. Len(f) \in Nat /\ DOMAIN f = 1 .. Len(f) /\ DOMAIN f = 1 .. n
    BY <1>1, LenProperties
  <1>3. Len(f) = n
    <2>1. CASE Len(f) < n
      <3>1. n \in 1 .. n /\ n \notin 1 .. Len(f)
        BY <1>2, <2>1
      <3> QED BY <1>2, <3>1
    <2>2. CASE Len(f) > n
      <3>1. Len(f) \in 1 .. Len(f) /\ Len(f) \notin 1 .. n
        BY <1>2, <2>2
      <3> QED BY <1>2, <3>1
    <2> QED BY <1>2, <2>1, <2>2
  <1> QED BY <1>1, <1>2, <1>3

(* Appending adds one entry at the end. *)
LEMMA AppendFacts ==
    ASSUME NEW S, NEW s \in Seq(S), NEW e \in S
    PROVE  /\ Append(s, e) \in Seq(S)
           /\ Len(Append(s, e)) = Len(s) + 1
           /\ DOMAIN Append(s, e) = 1 .. (Len(s) + 1)
           /\ \A i \in 1 .. Len(s) : Append(s, e)[i] = s[i]
           /\ Append(s, e)[Len(s) + 1] = e
  OBVIOUS

(* The indices from a on, at most n of them, that belong to E without a gap *)
(* (the run of equal keys at a, when E holds the indices with a's key).      *)
LEMMA RunExists ==
    ASSUME NEW E, NEW a \in Int, NEW n \in Nat \ {0}, a \in E
    PROVE  \E len \in 1 .. n : /\ \A k \in a .. (a + len - 1) : k \in E
                               /\ len < n => a + len \notin E
  <1> DEFINE Ends == {len \in 1 .. n : len = n \/ a + len \notin E}
  <1>1. Ends \in SUBSET Nat /\ n \in Ends
    OBVIOUS
  <1>2. PICK m \in Ends : \A k \in Ends : m <= k
    BY <1>1, LeastNumber
  <1>3. \A k \in a .. (a + m - 1) : k \in E
    <2> SUFFICES ASSUME NEW k \in a .. (a + m - 1), k # a PROVE k \in E
      OBVIOUS
    <2>1. k - a \in 1 .. n /\ k - a < m
      OBVIOUS
    <2>2. k - a \notin Ends
      BY <1>2, <2>1
    <2>3. k = a + (k - a)
      OBVIOUS
    <2> QED BY <2>1, <2>2, <2>3
  <1> QED BY <1>2, <1>3

-----------------------------------------------------------------------------
(* Induction over the subsets of a finite set *)

LEMMA InductionOverSubsets ==
    ASSUME NEW S, IsFiniteSet(S), NEW P, {} \in P,
           \A T \in SUBSET S : \A x \in S \ T : T \in P => T \cup {x} \in P
    PROVE  S \in P
  <1> DEFINE Sizes == {n \in Nat : \A T \in SUBSET S : Cardinality(T) = n => T \in P}
  <1>0. \A T \in SUBSET S : IsFiniteSet(T) /\ Cardinality(T) \in Nat
    BY FS_Subset, FS_CardinalityType
  <1>1. 0 \in Sizes
    BY <1>0, FS_EmptySet
  <1>2. ASSUME NEW n \in Nat, n \in Sizes PROVE n + 1 \in Sizes
    <2> SUFFICES ASSUME NEW T \in SUBSET S, Cardinality(T) = n + 1 PROVE T \in P
      OBVIOUS
    <2>1. T # {}
      BY <1>0, FS_EmptySet
    <2>2. PICK x : x \in T
      BY <2>1
    <2>3. Cardinality(T \ {x}) = n
      <3>1. IsFiniteSet(T)
        BY <1>0
      <3>2. Cardinality(T \ {x}) = Cardinality(T) - 1
        BY <2>2, <3>1, FS_RemoveElement
      <3> QED BY <3>2
    <2>4. T \ {x} \in P /\ x \in S \ (T \ {x}) /\ T \ {x} \in SUBSET S
      BY <1>2, <2>2, <2>3
    <2>5. (T \ {x}) \cup {x} = T
      BY <2>2
    <2> QED BY <2>4, <2>5
  <1>3. Nat \subseteq Sizes
    <2> HIDE DEF Sizes
    <2> QED BY <1>1, <1>2, InductionOverSet
  <1> QED BY <1>0, <1>3

-----------------------------------------------------------------------------
(* Sums over a finite set *)

(* The member of a set that a sum takes out first, and the equation of the   *)
(* table of the sums over the subsets of S.                                  *)
First(s) == CHOOSE x \in s : TRUE
IsTable(t, f, S) == t = [s \in SUBSET S |-> IF s = {} THEN 0 ELSE f[First(s)] + t[s \ {First(s)}]]

LEMMA FirstIsMember ==
    ASSUME NEW s, s # {}
    PROVE  First(s) \in s
  BY DEF First

LEMMA SumIsTable ==
    ASSUME NEW f, NEW S
    PROVE  SumFunctionOnSet(f, S) = (CHOOSE t : IsTable(t, f, S))[S]
  BY DEF SumFunctionOnSet, FoldFunctionOnSet, MapThenFoldSet, IsTable, First

LEMMA TableExists ==
    ASSUME NEW f, NEW S, IsFiniteSet(S)
    PROVE  \E t : IsTable(t, f, S)
  <1> DEFINE Small(n) == {s \in SUBSET S : Cardinality(s) <= n}
             IsPart(t, n) == t = [s \in Small(n) |-> IF s = {} THEN 0 ELSE f[First(s)] + t[s \ {First(s)}]]
             Sizes == {n \in Nat : \E t : IsPart(t, n)}
  <1>0. \A s \in SUBSET S : IsFiniteSet(s) /\ Cardinality(s) \in Nat /\ Cardinality(s) <= Cardinality(S)
    BY FS_Subset, FS_CardinalityType
  <1>1. 0 \in Sizes
    <2>1. \A s \in Small(0) : s = {}
      BY <1>0, FS_EmptySet
    <2>2. PICK t : t = [s \in Small(0) |-> 0]
      OBVIOUS
    <2>3. t = [s \in Small(0) |-> IF s = {} THEN 0 ELSE f[First(s)] + t[s \ {First(s)}]]
      BY <2>1, <2>2
    <2> QED BY <2>3
  <1>2. ASSUME NEW n \in Nat, n \in Sizes PROVE n + 1 \in Sizes
    <2>1. PICK t : IsPart(t, n)
      BY <1>2
    <2>2. PICK u : u = [s \in Small(n + 1) |-> IF s = {} THEN 0 ELSE f[First(s)] + t[s \ {First(s)}]]
      OBVIOUS
    <2>3. \A s \in Small(n) : s \in Small(n + 1) /\ u[s] = t[s]
      <3> TAKE s \in Small(n)
      <3>1. s \in Small(n + 1)
        BY <1>0
      <3>2. t[s] = IF s = {} THEN 0 ELSE f[First(s)] + t[s \ {First(s)}]
        BY <2>1
      <3> QED BY <2>2, <3>1, <3>2
    <2>4. \A s \in Small(n + 1) : s # {} => s \ {First(s)} \in Small(n)
      <3> SUFFICES ASSUME NEW s \in Small(n + 1), s # {} PROVE s \ {First(s)} \in Small(n)
        OBVIOUS
      <3>1. First(s) \in s
        BY FirstIsMember
      <3>2. Cardinality(s \ {First(s)}) = Cardinality(s) - 1
        BY <1>0, <3>1, FS_RemoveElement
      <3> QED BY <1>0, <3>2
    <2>5. u = [s \in Small(n + 1) |-> IF s = {} THEN 0 ELSE f[First(s)] + u[s \ {First(s)}]]
      BY <2>2, <2>3, <2>4
    <2>6. IsPart(u, n + 1)
      BY ONLY <2>5
    <2>7. n + 1 \in Nat
      OBVIOUS
    <2> HIDE DEF IsPart
    <2> QED BY <2>6, <2>7
  <1>3. Nat \subseteq Sizes
    <2> HIDE DEF Sizes
    <2> QED BY <1>1, <1>2, InductionOverSet
  <1>4. Cardinality(S) \in Nat
    BY <1>0
  <1>5. PICK t : IsPart(t, Cardinality(S))
    BY <1>3, <1>4
  <1>6. Small(Cardinality(S)) = SUBSET S
    BY <1>0
  <1>7. IsTable(t, f, S)
    BY <1>5, <1>6 DEF IsTable
  <1> QED BY <1>7

(* A table of sums over the subsets of S holds the sums over all of them. *)
LEMMA TableAgrees ==
    ASSUME NEW f, NEW S, IsFiniteSet(S), NEW t, IsTable(t, f, S), NEW T \in SUBSET S
    PROVE  SumFunctionOnSet(f, T) = t[T]
  <1> DEFINE u == CHOOSE v : IsTable(v, f, T)
             Sizes == {n \in Nat : \A s \in SUBSET T : Cardinality(s) = n => t[s] = u[s]}
  <1>0. IsFiniteSet(T) /\ \A s \in SUBSET T : IsFiniteSet(s) /\ Cardinality(s) \in Nat
    BY FS_Subset, FS_CardinalityType
  <1>1. IsTable(u, f, T)
    <2>1. \E v : IsTable(v, f, T)
      BY <1>0, TableExists
    <2> QED BY <2>1
  <1> HIDE DEF u
  <1>2. \A s \in SUBSET T : /\ t[s] = IF s = {} THEN 0 ELSE f[First(s)] + t[s \ {First(s)}]
                            /\ u[s] = IF s = {} THEN 0 ELSE f[First(s)] + u[s \ {First(s)}]
    BY <1>1 DEF IsTable
  <1>3. 0 \in Sizes
    <2> SUFFICES ASSUME NEW s \in SUBSET T, Cardinality(s) = 0 PROVE t[s] = u[s]
      OBVIOUS
    <2>1. s = {}
      BY <1>0, FS_EmptySet
    <2> QED BY <1>2, <2>1
  <1>4. ASSUME NEW n \in Nat, n \in Sizes PROVE n + 1 \in Sizes
    <2> SUFFICES ASSUME NEW s \in SUBSET T, Cardinality(s) = n + 1 PROVE t[s] = u[s]
      OBVIOUS
    <2>1. s # {}
      BY <1>0, FS_EmptySet
    <2>2. First(s) \in s
      BY <2>1, FirstIsMember
    <2>3. Cardinality(s \ {First(s)}) = n
      <3>1. IsFiniteSet(s)
        BY <1>0
      <3>2. Cardinality(s \ {First(s)}) = Cardinality(s) - 1
        BY <2>2, <3>1, FS_RemoveElement
      <3> QED BY <3>2
    <2>4. t[s \ {First(s)}] = u[s \ {First(s)}]
      BY <1>4, <2>3
    <2> QED BY <1>2, <2>1, <2>4
  <1>5. Nat \subseteq Sizes
    <2> HIDE DEF Sizes
    <2> QED BY <1>3, <1>4, InductionOverSet
  <1>6. t[T] = u[T]
    BY <1>0, <1>5
  <1> QED BY <1>6, SumIsTable DEF u

(* The sum over no member, and over one member more or less.                 *)
LEMMA SumEmpty ==
    ASSUME NEW f
    PROVE  SumFunctionOnSet(f, {}) = 0
  <1>1. IsFiniteSet({})
    BY FS_EmptySet
  <1>2. PICK t : IsTable(t, f, {})
    BY <1>1, TableExists
  <1>3. t[{}] = 0
    BY <1>2 DEF IsTable
  <1> QED BY <1>1, <1>2, <1>3, TableAgrees

LEMMA SumFirst ==
    ASSUME NEW f, NEW S, IsFiniteSet(S), S # {}
    PROVE  SumFunctionOnSet(f, S) = f[First(S)] + SumFunctionOnSet(f, S \ {First(S)})
  <1>1. PICK t : IsTable(t, f, S)
    BY TableExists
  <1>2. t[S] = f[First(S)] + t[S \ {First(S)}]
    BY <1>1 DEF IsTable
  <1>3. SumFunctionOnSet(f, S) = t[S]
    BY <1>1, TableAgrees
  <1>4. SumFunctionOnSet(f, S \ {First(S)}) = t[S \ {First(S)}]
    BY <1>1, TableAgrees
  <1> QED BY <1>2, <1>3, <1>4

LEMMA SumIsNatural ==
    ASSUME NEW f, NEW S, IsFiniteSet(S), \A x \in S : f[x] \in Nat
    PROVE  SumFunctionOnSet(f, S) \in Nat
  <1> DEFINE Sizes == {n \in Nat : \A T \in SUBSET S : Cardinality(T) = n => SumFunctionOnSet(f, T) \in Nat}
  <1>0. \A T \in SUBSET S : IsFiniteSet(T) /\ Cardinality(T) \in Nat
    BY FS_Subset, FS_CardinalityType
  <1>1. 0 \in Sizes
    <2> SUFFICES ASSUME NEW T \in SUBSET S, Cardinality(T) = 0 PROVE SumFunctionOnSet(f, T) \in Nat
      OBVIOUS
    <2>1. T = {}
      BY <1>0, FS_EmptySet
    <2> QED BY <2>1, SumEmpty
  <1>2. ASSUME NEW n \in Nat, n \in Sizes PROVE n + 1 \in Sizes
    <2> SUFFICES ASSUME NEW T \in SUBSET S, Cardinality(T) = n + 1 PROVE SumFunctionOnSet(f, T) \in Nat
      OBVIOUS
    <2>0. IsFiniteSet(T)
      BY <1>0
    <2>1. T # {}
      BY <2>0, FS_EmptySet
    <2>2. First(T) \in T
      BY <2>1, FirstIsMember
    <2>3. Cardinality(T \ {First(T)}) = Cardinality(T) - 1
      BY <2>0, <2>2, FS_RemoveElement
    <2>4. SumFunctionOnSet(f, T \ {First(T)}) \in Nat
      BY <1>2, <2>3
    <2>5. f[First(T)] \in Nat
      BY <2>2
    <2>6. SumFunctionOnSet(f, T) = f[First(T)] + SumFunctionOnSet(f, T \ {First(T)})
      BY <2>0, <2>1, SumFirst
    <2> QED BY <2>4, <2>5, <2>6
  <1>3. Nat \subseteq Sizes
    <2> HIDE DEF Sizes
    <2> QED BY <1>1, <1>2, InductionOverSet
  <1> QED BY <1>0, <1>3

LEMMA SumRemove ==
    ASSUME NEW f, NEW S, IsFiniteSet(S), \A x \in S : f[x] \in Nat, NEW e \in S
    PROVE  SumFunctionOnSet(f, S) = f[e] + SumFunctionOnSet(f, S \ {e})
  <1> DEFINE Sizes == {n \in Nat : \A T \in SUBSET S : Cardinality(T) = n =>
                           \A x \in T : SumFunctionOnSet(f, T) = f[x] + SumFunctionOnSet(f, T \ {x})}
  <1>0. \A T \in SUBSET S : IsFiniteSet(T) /\ Cardinality(T) \in Nat
    BY FS_Subset, FS_CardinalityType
  <1>1. 0 \in Sizes
    BY <1>0, FS_EmptySet
  <1>2. ASSUME NEW n \in Nat, n \in Sizes PROVE n + 1 \in Sizes
    <2> SUFFICES ASSUME NEW T \in SUBSET S, Cardinality(T) = n + 1, NEW x \in T
                 PROVE  SumFunctionOnSet(f, T) = f[x] + SumFunctionOnSet(f, T \ {x})
      OBVIOUS
    <2>0. IsFiniteSet(T) /\ T # {}
      BY <1>0
    <2>1. PICK y : y = First(T)
      OBVIOUS
    <2>2. y \in T
      BY <2>0, <2>1, FirstIsMember
    <2>3. SumFunctionOnSet(f, T) = f[y] + SumFunctionOnSet(f, T \ {y})
      BY <2>0, <2>1, SumFirst
    <2> SUFFICES ASSUME x # y PROVE SumFunctionOnSet(f, T) = f[x] + SumFunctionOnSet(f, T \ {x})
      BY <2>3
    <2>4. Cardinality(T \ {y}) = n /\ Cardinality(T \ {x}) = n
      <3>1. Cardinality(T \ {y}) = Cardinality(T) - 1 /\ Cardinality(T \ {x}) = Cardinality(T) - 1
        BY <2>0, <2>2, FS_RemoveElement
      <3> QED BY <3>1
    <2>5. SumFunctionOnSet(f, T \ {y}) = f[x] + SumFunctionOnSet(f, (T \ {y}) \ {x})
      BY <1>2, <2>4
    <2>6. SumFunctionOnSet(f, T \ {x}) = f[y] + SumFunctionOnSet(f, (T \ {x}) \ {y})
      BY <1>2, <2>2, <2>4
    <2>7. (T \ {y}) \ {x} = (T \ {x}) \ {y}
      OBVIOUS
    <2>8. SumFunctionOnSet(f, (T \ {x}) \ {y}) \in Nat
      <3>1. IsFiniteSet((T \ {x}) \ {y}) /\ \A z \in (T \ {x}) \ {y} : f[z] \in Nat
        BY <1>0
      <3> QED BY <3>1, SumIsNatural
    <2>9. f[x] \in Nat /\ f[y] \in Nat
      BY <2>2
    <2> QED BY <2>3, <2>5, <2>6, <2>7, <2>8, <2>9
  <1>3. Nat \subseteq Sizes
    <2> HIDE DEF Sizes
    <2> QED BY <1>1, <1>2, InductionOverSet
  <1>4. IsFiniteSet(S) /\ Cardinality(S) \in Nat /\ S \in SUBSET S
    BY <1>0
  <1>5. Cardinality(S) \in Sizes
    BY <1>3, <1>4
  <1> QED BY <1>4, <1>5

LEMMA SumAdd ==
    ASSUME NEW f, NEW S, IsFiniteSet(S), NEW e, e \notin S, \A x \in S \cup {e} : f[x] \in Nat
    PROVE  SumFunctionOnSet(f, S \cup {e}) = f[e] + SumFunctionOnSet(f, S)
  <1>1. IsFiniteSet(S \cup {e})
    BY FS_AddElement
  <1>2. (S \cup {e}) \ {e} = S /\ e \in S \cup {e}
    OBVIOUS
  <1> QED BY <1>1, <1>2, SumRemove

(* Functions that agree on a set have the same sum over it. *)
LEMMA SumSame ==
    ASSUME NEW f, NEW g, NEW S, IsFiniteSet(S), \A x \in S : f[x] \in Nat /\ f[x] = g[x]
    PROVE  SumFunctionOnSet(f, S) = SumFunctionOnSet(g, S)
  <1> DEFINE P == {T \in SUBSET S : SumFunctionOnSet(f, T) = SumFunctionOnSet(g, T)}
  <1>1. {} \in P
    BY SumEmpty
  <1>2. ASSUME NEW T \in SUBSET S, NEW x \in S \ T, T \in P PROVE T \cup {x} \in P
    <2>1. IsFiniteSet(T)
      BY FS_Subset
    <2>2. SumFunctionOnSet(f, T \cup {x}) = f[x] + SumFunctionOnSet(f, T)
      BY <2>1, SumAdd
    <2>3. \A y \in T \cup {x} : g[y] \in Nat
      OBVIOUS
    <2>4. SumFunctionOnSet(g, T \cup {x}) = g[x] + SumFunctionOnSet(g, T)
      BY <2>1, <2>3, SumAdd
    <2> QED BY <1>2, <2>2, <2>4
  <1>3. S \in P
    <2> HIDE DEF P
    <2> QED BY <1>1, <1>2, InductionOverSubsets
  <1> QED BY <1>3

(* Adding two functions adds their sums. *)
LEMMA SumOfSums ==
    ASSUME NEW f, NEW g, NEW h, NEW S, IsFiniteSet(S),
           \A x \in S : f[x] \in Nat /\ g[x] \in Nat /\ h[x] = f[x] + g[x]
    PROVE  SumFunctionOnSet(h, S) = SumFunctionOnSet(f, S) + SumFunctionOnSet(g, S)
  <1> DEFINE P == {T \in SUBSET S : SumFunctionOnSet(h, T) = SumFunctionOnSet(f, T) + SumFunctionOnSet(g, T)}
  <1>1. {} \in P
    BY SumEmpty
  <1>2. ASSUME NEW T \in SUBSET S, NEW x \in S \ T, T \in P PROVE T \cup {x} \in P
    <2>1. IsFiniteSet(T)
      BY FS_Subset
    <2>2. SumFunctionOnSet(f, T \cup {x}) = f[x] + SumFunctionOnSet(f, T)
      BY <2>1, SumAdd
    <2>3. SumFunctionOnSet(g, T \cup {x}) = g[x] + SumFunctionOnSet(g, T)
      BY <2>1, SumAdd
    <2>4. \A y \in T \cup {x} : h[y] \in Nat
      OBVIOUS
    <2>5. SumFunctionOnSet(h, T \cup {x}) = h[x] + SumFunctionOnSet(h, T)
      BY <2>1, <2>4, SumAdd
    <2>6. SumFunctionOnSet(f, T) \in Nat /\ SumFunctionOnSet(g, T) \in Nat
      BY <2>1, SumIsNatural
    <2>7. f[x] \in Nat /\ g[x] \in Nat /\ h[x] = f[x] + g[x] /\ SumFunctionOnSet(h, T) = SumFunctionOnSet(f, T) + SumFunctionOnSet(g, T)
      BY <1>2
    <2>8. SumFunctionOnSet(h, T \cup {x}) = SumFunctionOnSet(f, T \cup {x}) + SumFunctionOnSet(g, T \cup {x})
      BY <2>2, <2>3, <2>5, <2>6, <2>7
    <2> QED BY <2>8
  <1>3. S \in P
    <2> HIDE DEF P
    <2> QED BY <1>1, <1>2, InductionOverSubsets
  <1> QED BY <1>3

(* The sum over two disjoint sets. *)
LEMMA SumDisjoint ==
    ASSUME NEW f, NEW S, IsFiniteSet(S), NEW T, IsFiniteSet(T), S \cap T = {}, \A x \in S \cup T : f[x] \in Nat
    PROVE  SumFunctionOnSet(f, S \cup T) = SumFunctionOnSet(f, S) + SumFunctionOnSet(f, T)
  <1> DEFINE P == {U \in SUBSET T : SumFunctionOnSet(f, S \cup U) = SumFunctionOnSet(f, S) + SumFunctionOnSet(f, U)}
  <1>0. SumFunctionOnSet(f, S) \in Nat
    BY SumIsNatural
  <1>1. {} \in P
    <2>1. S \cup {} = S
      OBVIOUS
    <2>2. SumFunctionOnSet(f, S \cup {}) = SumFunctionOnSet(f, S) + SumFunctionOnSet(f, {})
      BY <1>0, <2>1, SumEmpty
    <2> QED BY <2>2
  <1>2. ASSUME NEW U \in SUBSET T, NEW x \in T \ U, U \in P PROVE U \cup {x} \in P
    <2>1. IsFiniteSet(U) /\ IsFiniteSet(S \cup U)
      BY FS_Subset, FS_Union
    <2>2. SumFunctionOnSet(f, U \cup {x}) = f[x] + SumFunctionOnSet(f, U)
      BY <2>1, SumAdd
    <2>3. x \notin S \cup U /\ \A y \in (S \cup U) \cup {x} : f[y] \in Nat
      OBVIOUS
    <2>4. SumFunctionOnSet(f, (S \cup U) \cup {x}) = f[x] + SumFunctionOnSet(f, S \cup U)
      BY <2>1, <2>3, SumAdd
    <2>5. (S \cup U) \cup {x} = S \cup (U \cup {x})
      OBVIOUS
    <2>6. SumFunctionOnSet(f, U) \in Nat
      BY <2>1, SumIsNatural
    <2>7. f[x] \in Nat /\ SumFunctionOnSet(f, S \cup U) = SumFunctionOnSet(f, S) + SumFunctionOnSet(f, U)
      BY <1>2
    <2>8. SumFunctionOnSet(f, S \cup (U \cup {x})) = SumFunctionOnSet(f, S) + SumFunctionOnSet(f, U \cup {x})
      <3>1. SumFunctionOnSet(f, S \cup (U \cup {x})) = f[x] + (SumFunctionOnSet(f, S) + SumFunctionOnSet(f, U))
        BY <2>4, <2>5, <2>7
      <3>2. \A a, b, c \in Nat : a + (b + c) = b + (a + c)
        OBVIOUS
      <3> QED BY <1>0, <2>2, <2>6, <2>7, <3>1, <3>2
    <2> QED BY <2>8
  <1>3. T \in P
    <2> HIDE DEF P
    <2> QED BY <1>1, <1>2, InductionOverSubsets
  <1> QED BY <1>3

(* The sum over the union of disjoint sets is the sum of their sums. *)
LEMMA SumOverUnion ==
    ASSUME NEW f, NEW G, IsFiniteSet(G), \A g \in G : IsFiniteSet(g), \A x \in UNION G : f[x] \in Nat,
           \A g, h \in G : g # h => g \cap h = {},
           NEW s, \A g \in G : s[g] = SumFunctionOnSet(f, g)
    PROVE  IsFiniteSet(UNION G) /\ SumFunctionOnSet(f, UNION G) = SumFunctionOnSet(s, G)
  <1> DEFINE P == {H \in SUBSET G : IsFiniteSet(UNION H) /\ SumFunctionOnSet(f, UNION H) = SumFunctionOnSet(s, H)}
  <1>0. \A g \in G : s[g] \in Nat
    BY SumIsNatural
  <1>1. {} \in P
    <2>1. UNION {} = {}
      OBVIOUS
    <2> QED BY <2>1, SumEmpty, FS_EmptySet
  <1>2. ASSUME NEW H \in SUBSET G, NEW g \in G \ H, H \in P PROVE H \cup {g} \in P
    <2>1. UNION (H \cup {g}) = (UNION H) \cup g
      OBVIOUS
    <2>2. (UNION H) \cap g = {} /\ \A x \in (UNION H) \cup g : f[x] \in Nat
      OBVIOUS
    <2>3. IsFiniteSet(UNION H) /\ IsFiniteSet(g) /\ IsFiniteSet(H)
      BY <1>2, FS_Subset
    <2>4. IsFiniteSet((UNION H) \cup g)
      BY <2>3, FS_Union
    <2>5. SumFunctionOnSet(f, (UNION H) \cup g) = SumFunctionOnSet(f, UNION H) + SumFunctionOnSet(f, g)
      BY <2>2, <2>3, SumDisjoint
    <2>6. SumFunctionOnSet(s, H \cup {g}) = s[g] + SumFunctionOnSet(s, H)
      BY <1>0, <2>3, SumAdd
    <2>7. SumFunctionOnSet(s, H) \in Nat
      BY <1>0, <2>3, SumIsNatural
    <2>8. SumFunctionOnSet(f, UNION H) = SumFunctionOnSet(s, H) /\ s[g] = SumFunctionOnSet(f, g) /\ s[g] \in Nat
      BY <1>0, <1>2
    <2>9. SumFunctionOnSet(f, UNION (H \cup {g})) = SumFunctionOnSet(s, H \cup {g})
      <3>1. SumFunctionOnSet(f, UNION (H \cup {g})) = SumFunctionOnSet(s, H) + s[g]
        BY <2>1, <2>5, <2>8
      <3>2. \A a, b \in Nat : a + b = b + a
        OBVIOUS
      <3> QED BY <2>6, <2>7, <2>8, <3>1, <3>2
    <2> QED BY <2>1, <2>4, <2>9
  <1>3. G \in P
    <2> HIDE DEF P
    <2> QED BY <1>1, <1>2, InductionOverSubsets
  <1> QED BY <1>3

(* A constant is summed as often as there are members. *)
LEMMA SumConstant ==
    ASSUME NEW f, NEW c \in Nat, NEW S, IsFiniteSet(S), \A x \in S : f[x] = c
    PROVE  SumFunctionOnSet(f, S) = Cardinality(S) * c
  <1> DEFINE P == {T \in SUBSET S : SumFunctionOnSet(f, T) = Cardinality(T) * c}
  <1>1. {} \in P
    <2>1. Cardinality({}) = 0
      BY FS_EmptySet
    <2>2. SumFunctionOnSet(f, {}) = Cardinality({}) * c
      BY <2>1, SumEmpty
    <2> QED BY <2>2
  <1>2. ASSUME NEW T \in SUBSET S, NEW x \in S \ T, T \in P PROVE T \cup {x} \in P
    <2>1. IsFiniteSet(T)
      BY FS_Subset
    <2>2. SumFunctionOnSet(f, T \cup {x}) = f[x] + SumFunctionOnSet(f, T)
      <3>1. \A y \in T \cup {x} : f[y] \in Nat
        OBVIOUS
      <3> QED BY <2>1, <3>1, SumAdd
    <2>3. Cardinality(T \cup {x}) = Cardinality(T) + 1 /\ Cardinality(T) \in Nat
      BY <2>1, FS_AddElement, FS_CardinalityType
    <2>4. SumFunctionOnSet(f, T) = Cardinality(T) * c /\ f[x] = c
      BY <1>2
    <2>5. \A k \in Nat : (k + 1) * c = c + k * c
      OBVIOUS
    <2>6. SumFunctionOnSet(f, T \cup {x}) = Cardinality(T \cup {x}) * c
      BY <2>2, <2>3, <2>4, <2>5
    <2> QED BY <2>6
  <1>3. S \in P
    <2> HIDE DEF P
    <2> QED BY <1>1, <1>2, InductionOverSubsets
  <1> QED BY <1>3
=============================================================================
