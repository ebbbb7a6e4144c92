-------------------------- MODULE OperatorTheorems --------------------------
(***************************************************************************)
(* What operators without state come to: folds over a finite set, their    *)
(* sums (SumFunctionOnSet of the community module Functions) and           *)
(* repetitions; and the folds and repetitions of Configuration, the layers *)
(* of a configuration and the line of descent of a profile. What holds of  *)
(* all sets or lengths is proved by a least counterexample: the            *)
(* cardinalities of the sets for which it fails would have a least one.    *)
(***************************************************************************)
EXTENDS Configuration, Integers, SequencesExt, FiniteSetTheorems, WellFoundedInduction, TLAPS

LEMMA LessThan == OpToRel(<, Nat) = {ss \in Nat \X Nat : ss[1] < ss[2]}
  BY Zenon DEF OpToRel

\* A set of natural numbers that is not empty has a least element.
LEMMA Least == ASSUME NEW S \in SUBSET Nat, S # {} PROVE \E x \in S : \A y \in S : x <= y
  <1> DEFINE R == {ss \in Nat \X Nat : ss[1] < ss[2]}
  <1>1. IsWellFoundedOn(R, Nat)
    BY NatLessThanWellFounded, LessThan, Zenon
  <1> HIDE DEF R
  <1>2. \E x \in S : \A y \in S : ~(<<y, x>> \in R)
    BY <1>1, WFMin, Zenon
  <1>3. \A x, y \in S : <<y, x>> \in R <=> y < x
    BY DEF R
  <1>4. \A x, y \in S : ~(y < x) => x <= y
    OBVIOUS
  <1> QED BY <1>2, <1>3, <1>4

-----------------------------------------------------------------------------
(* Folds *)

\* A fold over a finite set takes one element of it after the other: pick says which is
\* the next, step what it does to what the others come to.  The table of a fold says what
\* each subset comes to.
Folded(pick, step, base, table, s) == IF s = {} THEN base ELSE step[<<pick[s], table[s \ {pick[s]}]>>]
FoldsIn(S, A, pick, step, base) ==
  /\ IsFiniteSet(S) /\ base \in A /\ step \in [S \X A -> A]
  /\ \A s \in SUBSET S : s # {} => pick[s] \in s
FoldTable(S, A, pick, step, base, table) ==
  /\ table \in [SUBSET S -> A]
  /\ \A s \in SUBSET S : table[s] = Folded(pick, step, base, table, s)
FoldUpTo(S, A, pick, step, base, table, n) ==
  /\ table \in [SUBSET S -> A]
  /\ \A s \in SUBSET S : Cardinality(s) <= n => table[s] = Folded(pick, step, base, table, s)

LEMMA FoldTableUpTo ==
  ASSUME NEW S, IsFiniteSet(S), NEW A, NEW base \in A, NEW step \in [S \X A -> A],
         NEW pick, \A s \in SUBSET S : s # {} => pick[s] \in s, NEW n \in Nat
  PROVE  \E table : FoldUpTo(S, A, pick, step, base, table, n)
  <1> DEFINE Fails == {m \in Nat : ~\E table : FoldUpTo(S, A, pick, step, base, table, m)}
  <1> SUFFICES ASSUME Fails # {} PROVE FALSE
    OBVIOUS
  <1>1. PICK m \in Fails : \A k \in Fails : m <= k
    BY Least
  <1> HIDE DEF Fails
  <1>2. m \in Nat
    BY DEF Fails
  <1>3. \A s \in SUBSET S : IsFiniteSet(s) /\ Cardinality(s) \in Nat
    BY FS_Subset, FS_CardinalityType
  <1>4. CASE m = 0
    <2> DEFINE table == [s \in SUBSET S |-> base]
    <2>1. \A s \in SUBSET S : Cardinality(s) <= 0 => s = {}
      BY <1>3, FS_EmptySet
    <2>2. FoldUpTo(S, A, pick, step, base, table, 0)
      BY <2>1 DEF FoldUpTo, Folded
    <2> QED BY <1>4, <2>2 DEF Fails
  <1>5. CASE m # 0
    <2>1. m - 1 \in Nat /\ m - 1 \notin Fails
      BY <1>1, <1>2, <1>5
    <2>2. PICK before : FoldUpTo(S, A, pick, step, base, before, m - 1)
      BY <2>1 DEF Fails
    <2> DEFINE table == [s \in SUBSET S |-> Folded(pick, step, base, before, s)]
    <2>3. ASSUME NEW s \in SUBSET S, s # {}
          PROVE  /\ pick[s] \in S /\ s \ {pick[s]} \in SUBSET S
                 /\ Cardinality(s \ {pick[s]}) = Cardinality(s) - 1
      BY <1>3, <2>3, FS_RemoveElement
    <2>4. ASSUME NEW s \in SUBSET S PROVE table[s] \in A
      <3>1. s # {} => <<pick[s], before[s \ {pick[s]}]>> \in S \X A
        BY <2>2, <2>3 DEF FoldUpTo
      <3>2. Folded(pick, step, base, before, s) \in A
        BY <3>1 DEF Folded
      <3> QED BY <3>2
    <2>5. ASSUME NEW s \in SUBSET S, Cardinality(s) <= m - 1 PROVE table[s] = before[s]
      BY <2>2, <2>5 DEF FoldUpTo
    <2>6. ASSUME NEW s \in SUBSET S, Cardinality(s) <= m PROVE table[s] = Folded(pick, step, base, table, s)
      <3>1. CASE s = {}
        BY <3>1 DEF Folded
      <3>2. CASE s # {}
        <4>1. Cardinality(s \ {pick[s]}) <= m - 1
          BY <1>2, <1>3, <2>3, <2>6, <3>2
        <4>2. table[s \ {pick[s]}] = before[s \ {pick[s]}]
          BY <2>3, <2>5, <3>2, <4>1
        <4>3. table[s] = Folded(pick, step, base, before, s)
          OBVIOUS
        <4> HIDE DEF table
        <4> QED BY <3>2, <4>2, <4>3 DEF Folded
      <3> QED BY <3>1, <3>2
    <2>7. FoldUpTo(S, A, pick, step, base, table, m)
      BY <2>4, <2>6 DEF FoldUpTo
    <2> QED BY <1>1, <2>7 DEF Fails
  <1> QED BY <1>4, <1>5

LEMMA FoldTableExists ==
  ASSUME NEW S, NEW A, NEW pick, NEW step, NEW base, FoldsIn(S, A, pick, step, base)
  PROVE  \E table : FoldTable(S, A, pick, step, base, table)
  <1>1. Cardinality(S) \in Nat /\ \A s \in SUBSET S : Cardinality(s) <= Cardinality(S)
    BY FS_Subset, FS_CardinalityType DEF FoldsIn
  <1>2. PICK table : FoldUpTo(S, A, pick, step, base, table, Cardinality(S))
    <2>1. IsFiniteSet(S) /\ base \in A /\ step \in [S \X A -> A] /\ \A s \in SUBSET S : s # {} => pick[s] \in s
      BY DEF FoldsIn
    <2> QED BY <1>1, <2>1, FoldTableUpTo
  <1> QED BY <1>1, <1>2 DEF FoldUpTo, FoldTable

\* A fold of a sequence from left to right takes the last element of each prefix.
LEMMA LastOfPrefix == ASSUME NEW k \in Nat, k # 0 PROVE Max(1 .. k) = k /\ (1 .. k) \ {k} = 1 .. k - 1
  <1>1. k \in 1 .. k /\ \A y \in 1 .. k : k >= y
    OBVIOUS
  <1>2. ASSUME NEW x \in 1 .. k, \A y \in 1 .. k : x >= y PROVE x = k
    BY <1>1, <1>2
  <1> QED BY <1>1, <1>2 DEF Max

LEMMA Greatest == ASSUME NEW n \in Nat, NEW s \in SUBSET (1 .. n), s # {} PROVE \E x \in s : \A y \in s : x >= y
  <1> DEFINE Above == {m \in Nat : \E x \in s : x + m = n}
  <1>1. Above \in SUBSET Nat /\ Above # {}
    <2>1. PICK x \in s : TRUE
      OBVIOUS
    <2>2. n - x \in Above
      BY <2>1
    <2> QED BY <2>2
  <1> HIDE DEF Above
  <1>2. PICK m \in Above : \A k \in Above : m <= k
    BY <1>1, Least
  <1> USE DEF Above
  <1>3. PICK x \in s : x + m = n
    BY <1>2
  <1>4. ASSUME NEW y \in s PROVE x >= y
    <2>1. n - y \in Above
      BY <1>4
    <2> HIDE DEF Above
    <2>2. m <= n - y /\ m \in Nat
      BY <1>2, <2>1 DEF Above
    <2> QED BY <1>3, <2>2
  <1> QED BY <1>4

LEMMA LastIsThere == ASSUME NEW n \in Nat, NEW s \in SUBSET (1 .. n), s # {} PROVE Max(s) \in s
  BY Greatest DEF Max

FoldsSequence(n, A, step, base) == n \in Nat /\ base \in A /\ step \in [(1 .. n) \X A -> A]
SequenceTable(n, A, step, base, table) ==
  /\ table \in [SUBSET (1 .. n) -> A]
  /\ \A s \in SUBSET (1 .. n) : table[s] = IF s = {} THEN base ELSE step[<<Max(s), table[s \ {Max(s)}]>>]

LEMMA SequenceTableExists ==
  ASSUME NEW n, NEW A, NEW step, NEW base, FoldsSequence(n, A, step, base)
  PROVE  \E table : SequenceTable(n, A, step, base, table)
  <1> DEFINE pick == [s \in SUBSET (1 .. n) |-> Max(s)]
  <1>0. n \in Nat /\ base \in A /\ step \in [(1 .. n) \X A -> A]
    BY DEF FoldsSequence
  <1>1. \A s \in SUBSET (1 .. n) : s # {} => pick[s] \in s
    BY <1>0, LastIsThere
  <1> HIDE DEF pick
  <1>2. IsFiniteSet(1 .. n)
    BY <1>0, FS_Interval
  <1>3. FoldsIn(1 .. n, A, pick, step, base)
    BY <1>0, <1>1, <1>2 DEF FoldsIn
  <1>4. PICK table : FoldTable(1 .. n, A, pick, step, base, table)
    BY <1>3, FoldTableExists, Zenon
  <1> QED BY <1>4 DEF FoldTable, Folded, pick, SequenceTable

\* What comes of doing the same over and over.
Repeated(n, base, next, table) == table = [k \in 0 .. n |-> IF k = 0 THEN base ELSE next[table[k - 1]]]

LEMMA RepetitionExists ==
  ASSUME NEW n \in Nat, NEW A, NEW base \in A, NEW next \in [A -> A]
  PROVE  \E table \in [0 .. n -> A] : Repeated(n, base, next, table)
  <1> DEFINE Fails == {m \in Nat : ~\E table \in [0 .. m -> A] : Repeated(m, base, next, table)}
  <1> SUFFICES ASSUME Fails # {} PROVE FALSE
    OBVIOUS
  <1>1. PICK m \in Fails : \A k \in Fails : m <= k
    BY Least
  <1> HIDE DEF Fails
  <1>2. m \in Nat
    BY DEF Fails
  <1>3. CASE m = 0
    <2> DEFINE table == [k \in 0 .. 0 |-> base]
    <2>1. table \in [0 .. 0 -> A] /\ Repeated(0, base, next, table)
      BY DEF Repeated
    <2> QED BY <1>3, <2>1 DEF Fails
  <1>4. CASE m # 0
    <2>1. m - 1 \in Nat /\ m - 1 \notin Fails
      BY <1>1, <1>2, <1>4
    <2>2. PICK before \in [0 .. m - 1 -> A] : Repeated(m - 1, base, next, before)
      BY <2>1 DEF Fails
    <2> DEFINE table == [k \in 0 .. m |-> IF k = 0 THEN base ELSE next[before[k - 1]]]
    <2>3. table \in [0 .. m -> A]
      BY <1>2, <2>2
    <2>4. \A k \in 0 .. m - 1 : table[k] = before[k]
      BY <1>2, <2>2 DEF Repeated
    <2>5. ASSUME NEW k \in 0 .. m, k # 0 PROVE table[k - 1] = before[k - 1]
      <3>1. k - 1 \in 0 .. m - 1
        BY <1>2, <2>5
      <3> QED BY <2>4, <3>1
    <2>6. Repeated(m, base, next, table)
      BY <2>5 DEF Repeated
    <2> QED BY <1>1, <2>3, <2>6 DEF Fails
  <1> QED BY <1>3, <1>4

-----------------------------------------------------------------------------
(* Sums *)

\* The element a sum takes next, the equation of its table, and the tables that satisfy it.
Picked(s) == CHOOSE x \in s : TRUE
Unfolded(f, table, s) == IF s = {} THEN 0 ELSE f[Picked(s)] + table[s \ {Picked(s)}]
Table(f, S, table) == table = [s \in SUBSET S |-> Unfolded(f, table, s)]

LEMMA NextIsOne == ASSUME NEW s, s # {} PROVE Picked(s) \in s
  BY DEF Picked

LEMMA SumIs ==
  ASSUME NEW f, NEW S
  PROVE  SumFunctionOnSet(f, S) = (CHOOSE table : Table(f, S, table))[S]
  BY Zenon DEF SumFunctionOnSet, FoldFunctionOnSet, MapThenFoldSet, Table, Unfolded, Picked

LEMMA TableExists ==
  ASSUME NEW S, IsFiniteSet(S), NEW f, \A x \in S : f[x] \in Nat
  PROVE  \E table \in [SUBSET S -> Nat] : Table(f, S, table)
  <1> DEFINE pick == [s \in SUBSET S |-> Picked(s)]
             step == [one \in S \X Nat |-> f[one[1]] + one[2]]
  <1>1. step \in [S \X Nat -> Nat]
    OBVIOUS
  <1>2. \A s \in SUBSET S : s # {} => pick[s] \in s
    BY NextIsOne
  <1> HIDE DEF pick, step
  <1>3. FoldsIn(S, Nat, pick, step, 0)
    BY <1>1, <1>2 DEF FoldsIn
  <1>4. PICK table : FoldTable(S, Nat, pick, step, 0, table)
    BY <1>3, FoldTableExists, Zenon
  <1>6. table \in [SUBSET S -> Nat] /\ \A s \in SUBSET S : table[s] = Folded(pick, step, 0, table, s)
    BY <1>4 DEF FoldTable
  <1>5. ASSUME NEW s \in SUBSET S PROVE Folded(pick, step, 0, table, s) = Unfolded(f, table, s)
    <2>1. s # {} => <<pick[s], table[s \ {pick[s]}]>> \in S \X Nat
      BY <1>2, <1>6
    <2> QED BY <2>1 DEF Folded, Unfolded, pick, step
  <1> QED BY <1>5, <1>6 DEF Table

\* Two tables agree wherever their functions do.
LEMMA TablesAgree ==
  ASSUME NEW S, NEW f, NEW table, Table(f, S, table),
         NEW T, NEW g, NEW other, Table(g, T, other),
         NEW u, IsFiniteSet(u), u \subseteq S, u \subseteq T, \A x \in u : f[x] = g[x]
  PROVE  table[u] = other[u]
  <1> DEFINE Fails == {m \in Nat : \E s \in SUBSET u : Cardinality(s) = m /\ table[s] # other[s]}
  <1>1. \A s \in SUBSET u : IsFiniteSet(s) /\ Cardinality(s) \in Nat
    BY FS_Subset, FS_CardinalityType
  <1>2. ASSUME Fails # {} PROVE FALSE
    <2>1. PICK m \in Fails : \A k \in Fails : m <= k
      BY <1>2, Least
    <2>2. PICK s \in SUBSET u : Cardinality(s) = m /\ table[s] # other[s]
      BY <2>1
    <2>3. table[s] = Unfolded(f, table, s) /\ other[s] = Unfolded(g, other, s)
      BY <2>2 DEF Table
    <2>4. s # {}
      BY <2>2, <2>3 DEF Unfolded
    <2>5. Picked(s) \in u /\ s \ {Picked(s)} \in SUBSET u /\ Cardinality(s \ {Picked(s)}) = Cardinality(s) - 1
      BY <1>1, <2>4, NextIsOne, FS_RemoveElement
    <2>6. Cardinality(s \ {Picked(s)}) \in Nat /\ Cardinality(s \ {Picked(s)}) < m
      BY <1>1, <2>2, <2>5
    <2>7. table[s \ {Picked(s)}] = other[s \ {Picked(s)}]
      BY <2>1, <2>5, <2>6
    <2> QED BY <2>2, <2>3, <2>4, <2>5, <2>7 DEF Unfolded
  <1> QED BY <1>1, <1>2

LEMMA SumOfTable ==
  ASSUME NEW S, IsFiniteSet(S), NEW f, \A x \in S : f[x] \in Nat
  PROVE  \E table \in [SUBSET S -> Nat] : Table(f, S, table) /\ SumFunctionOnSet(f, S) = table[S]
  <1>1. PICK one \in [SUBSET S -> Nat] : Table(f, S, one)
    BY TableExists
  <1>2. Table(f, S, CHOOSE table : Table(f, S, table))
    BY <1>1
  <1>3. (CHOOSE table : Table(f, S, table))[S] = one[S]
    BY <1>1, <1>2, TablesAgree
  <1> QED BY <1>1, <1>3, SumIs

LEMMA SumsAgree ==
  ASSUME NEW S, IsFiniteSet(S), NEW f, NEW g, \A x \in S : f[x] \in Nat /\ f[x] = g[x]
  PROVE  SumFunctionOnSet(f, S) = SumFunctionOnSet(g, S)
  <1>1. PICK one \in [SUBSET S -> Nat] : Table(f, S, one) /\ SumFunctionOnSet(f, S) = one[S]
    BY SumOfTable
  <1>2. PICK other \in [SUBSET S -> Nat] : Table(g, S, other) /\ SumFunctionOnSet(g, S) = other[S]
    BY SumOfTable
  <1> QED BY <1>1, <1>2, TablesAgree

LEMMA SumType ==
  ASSUME NEW S, IsFiniteSet(S), NEW f, \A x \in S : f[x] \in Nat
  PROVE  SumFunctionOnSet(f, S) \in Nat
  <1>1. PICK table \in [SUBSET S -> Nat] : SumFunctionOnSet(f, S) = table[S]
    BY SumOfTable
  <1> QED BY <1>1

LEMMA SumOfNone == ASSUME NEW f PROVE SumFunctionOnSet(f, {}) = 0
  <1>1. PICK table : Table(f, {}, table) /\ SumFunctionOnSet(f, {}) = table[{}]
    BY SumOfTable, FS_EmptySet
  <1> QED BY <1>1 DEF Table, Unfolded

LEMMA SumTakesNext ==
  ASSUME NEW S, IsFiniteSet(S), S # {}, NEW f, \A x \in S : f[x] \in Nat
  PROVE  SumFunctionOnSet(f, S) = f[Picked(S)] + SumFunctionOnSet(f, S \ {Picked(S)})
  <1> DEFINE T == S \ {Picked(S)}
  <1>1. PICK one \in [SUBSET S -> Nat] : Table(f, S, one) /\ SumFunctionOnSet(f, S) = one[S]
    BY SumOfTable
  <1>2. IsFiniteSet(T) /\ T \subseteq S
    BY FS_Subset
  <1>3. PICK other \in [SUBSET T -> Nat] : Table(f, T, other) /\ SumFunctionOnSet(f, T) = other[T]
    BY <1>2, SumOfTable
  <1> HIDE DEF T
  <1>4. one[T] = other[T]
    BY <1>1, <1>2, <1>3, TablesAgree
  <1>5. one[S] = f[Picked(S)] + one[T]
    BY <1>1 DEF Table, Unfolded, T
  <1> QED BY <1>1, <1>3, <1>4, <1>5 DEF T

\* A sum is any of its terms and the sum of the others.
LEMMA SumTakes ==
  ASSUME NEW S, IsFiniteSet(S), NEW f, \A x \in S : f[x] \in Nat, NEW a \in S
  PROVE  SumFunctionOnSet(f, S) = f[a] + SumFunctionOnSet(f, S \ {a})
  <1> DEFINE Of(s) == SumFunctionOnSet(f, s)
             Fails == {m \in Nat : \E s \in SUBSET S : Cardinality(s) = m /\ \E x \in s : Of(s) # f[x] + Of(s \ {x})}
  <1>1. \A s \in SUBSET S : IsFiniteSet(s) /\ Cardinality(s) \in Nat
    BY FS_Subset, FS_CardinalityType
  <1>2. ASSUME Fails # {} PROVE FALSE
    <2>1. PICK m \in Fails : \A k \in Fails : m <= k
      BY <1>2, Least
    <2>2. PICK s \in SUBSET S : Cardinality(s) = m /\ \E x \in s : Of(s) # f[x] + Of(s \ {x})
      BY <2>1
    <2>0. PICK x \in s : Of(s) # f[x] + Of(s \ {x})
      BY <2>2
    <2> DEFINE y == Picked(s)
    <2>3. y \in s /\ Of(s) = f[y] + Of(s \ {y})
      BY <1>1, <2>2, NextIsOne, SumTakesNext
    <2> HIDE DEF y
    <2>4. x # y
      BY <2>0, <2>2, <2>3
    <2>5. Cardinality(s \ {y}) \in Nat /\ Cardinality(s \ {y}) < m /\ Cardinality(s \ {x}) \in Nat /\ Cardinality(s \ {x}) < m
      BY <1>1, <2>0, <2>2, <2>3, FS_RemoveElement
    <2>6. Cardinality(s \ {y}) \notin Fails /\ Cardinality(s \ {x}) \notin Fails
      <3>1. m \in Nat
        OBVIOUS
      <3> HIDE DEF Fails
      <3> QED BY <2>1, <2>5, <3>1
    <2>7. Of(s \ {y}) = f[x] + Of((s \ {y}) \ {x}) /\ Of(s \ {x}) = f[y] + Of((s \ {x}) \ {y})
      BY <2>0, <2>2, <2>3, <2>4, <2>5, <2>6
    <2>8. (s \ {y}) \ {x} = (s \ {x}) \ {y}
      OBVIOUS
    <2>9. IsFiniteSet((s \ {x}) \ {y}) /\ Of((s \ {x}) \ {y}) \in Nat
      BY <1>1, SumType
    <2>10. f[x] \in Nat /\ f[y] \in Nat
      BY <2>0, <2>2, <2>3
    <2> HIDE DEF Of, Fails
    <2>11. Of(s) = f[y] + (f[x] + Of((s \ {x}) \ {y})) /\ Of(s \ {x}) = f[y] + Of((s \ {x}) \ {y})
      BY <2>3, <2>7, <2>8, Zenon
    <2>12. PICK rest \in Nat : rest = Of((s \ {x}) \ {y})
      BY <2>9
    <2> QED BY <2>0, <2>10, <2>11, <2>12
  <1> QED BY <1>1, <1>2

LEMMA SumAdds ==
  ASSUME NEW S, IsFiniteSet(S), NEW f, NEW a, \A x \in S \cup {a} : f[x] \in Nat, a \notin S
  PROVE  SumFunctionOnSet(f, S \cup {a}) = f[a] + SumFunctionOnSet(f, S)
  <1>1. IsFiniteSet(S \cup {a}) /\ (S \cup {a}) \ {a} = S
    BY FS_AddElement
  <1> QED BY <1>1, SumTakes

\* A part sums up to no more than the whole.
LEMMA SumOfPart ==
  ASSUME NEW S, IsFiniteSet(S), NEW f, \A x \in S : f[x] \in Nat, NEW T \in SUBSET S
  PROVE  SumFunctionOnSet(f, T) <= SumFunctionOnSet(f, S)
  <1> DEFINE Of(s) == SumFunctionOnSet(f, s)
             Fails == {m \in Nat : \E s \in SUBSET S : Cardinality(s) = m /\ T \subseteq s /\ ~(Of(T) <= Of(s))}
  <1>1. \A s \in SUBSET S : IsFiniteSet(s) /\ Cardinality(s) \in Nat /\ Of(s) \in Nat
    BY FS_Subset, FS_CardinalityType, SumType
  <1>2. ASSUME Fails # {} PROVE FALSE
    <2>1. PICK m \in Fails : \A k \in Fails : m <= k
      BY <1>2, Least
    <2>2. PICK s \in SUBSET S : Cardinality(s) = m /\ T \subseteq s /\ ~(Of(T) <= Of(s))
      BY <2>1
    <2>3. PICK x \in s : x \notin T
      BY <1>1, <2>2
    <2>4. Of(s) = f[x] + Of(s \ {x})
      BY <1>1, <2>3, SumTakes
    <2>5. Cardinality(s \ {x}) \in Nat /\ Cardinality(s \ {x}) < m
      BY <1>1, <2>2, <2>3, FS_RemoveElement
    <2>6. Cardinality(s \ {x}) \notin Fails
      BY <2>1, <2>5
    <2>7. Of(T) <= Of(s \ {x})
      BY <2>2, <2>3, <2>5, <2>6
    <2>8. f[x] \in Nat /\ Of(s \ {x}) \in Nat /\ Of(T) \in Nat
      BY <1>1
    <2> HIDE DEF Of
    <2> QED BY <2>2, <2>4, <2>7, <2>8
  <1> QED BY <1>1, <1>2

\* A sum bounds another over the same elements whose terms are no smaller.
LEMMA SumsOrdered ==
  ASSUME NEW S, IsFiniteSet(S), NEW f, NEW g, \A x \in S : f[x] \in Nat /\ g[x] \in Nat /\ f[x] <= g[x]
  PROVE  SumFunctionOnSet(f, S) <= SumFunctionOnSet(g, S)
  <1> DEFINE Of(h, s) == SumFunctionOnSet(h, s)
             Fails == {m \in Nat : \E s \in SUBSET S : Cardinality(s) = m /\ ~(Of(f, s) <= Of(g, s))}
  <1>1. \A s \in SUBSET S : IsFiniteSet(s) /\ Cardinality(s) \in Nat /\ Of(f, s) \in Nat /\ Of(g, s) \in Nat
    BY FS_Subset, FS_CardinalityType, SumType
  <1>2. ASSUME Fails # {} PROVE FALSE
    <2>1. PICK m \in Fails : \A k \in Fails : m <= k
      BY <1>2, Least
    <2>2. PICK s \in SUBSET S : Cardinality(s) = m /\ ~(Of(f, s) <= Of(g, s))
      BY <2>1
    <2>3. PICK x \in s : TRUE
      BY <2>2, SumOfNone
    <2>4. Of(f, s) = f[x] + Of(f, s \ {x}) /\ Of(g, s) = g[x] + Of(g, s \ {x})
      BY <1>1, <2>3, SumTakes
    <2>5. Cardinality(s \ {x}) \in Nat /\ Cardinality(s \ {x}) < m
      BY <1>1, <2>2, <2>3, FS_RemoveElement
    <2>6. Cardinality(s \ {x}) \notin Fails
      BY <2>1, <2>5
    <2>7. Of(f, s \ {x}) <= Of(g, s \ {x})
      BY <2>2, <2>3, <2>5, <2>6
    <2>8. f[x] \in Nat /\ g[x] \in Nat /\ f[x] <= g[x] /\ Of(f, s \ {x}) \in Nat /\ Of(g, s \ {x}) \in Nat
      BY <1>1
    <2> HIDE DEF Of
    <2> QED BY <2>2, <2>4, <2>7, <2>8
  <1> QED BY <1>1, <1>2
-----------------------------------------------------------------------------
(* What is laid over what *)

StackTable(base, layers, table) ==
  table = [s \in SUBSET DOMAIN layers |-> IF s = {} THEN base ELSE Amended(table[s \ {Max(s)}], layers[Max(s)])]

LEMMA StackIs ==
  ASSUME NEW base, NEW layers
  PROVE  Stack(base, layers) = (CHOOSE table : StackTable(base, layers, table))[DOMAIN layers]
  BY Zenon DEF Stack, FoldLeft, MapThenFoldSet, StackTable, Amended

AFunction(f) == f = [x \in DOMAIN f |-> f[x]]

LEMMA StackTableExists ==
  ASSUME NEW base, AFunction(base), NEW n \in Nat, NEW layers, DOMAIN layers = 1 .. n
  PROVE  \E table : StackTable(base, layers, table)
  <1> DEFINE K == DOMAIN base \cup UNION {DOMAIN layers[i] : i \in 1 .. n}
             V == {base[key] : key \in DOMAIN base} \cup UNION {{layers[i][key] : key \in DOMAIN layers[i]} : i \in 1 .. n}
             A == UNION {[D -> V] : D \in SUBSET K}
             step == [one \in (1 .. n) \X A |-> Amended(one[2], layers[one[1]])]
  <1>1. base \in A
    <2>1. base \in [DOMAIN base -> V]
      <3>1. base = [key \in DOMAIN base |-> base[key]]
        BY DEF AFunction
      <3>2. \A key \in DOMAIN base : base[key] \in V
        OBVIOUS
      <3> HIDE DEF V, K
      <3> QED BY <3>1, <3>2
    <2>2. DOMAIN base \in SUBSET K
      OBVIOUS
    <2> HIDE DEF V, K
    <2> QED BY <2>1, <2>2
  <1>2. ASSUME NEW i \in 1 .. n, NEW a \in A PROVE Amended(a, layers[i]) \in A
    <2>1. PICK D \in SUBSET K : a \in [D -> V]
      <3> HIDE DEF K, V
      <3> QED OBVIOUS
    <2> DEFINE E == DOMAIN layers[i] \cup D
    <2>2. E \in SUBSET K /\ DOMAIN a = D
      BY <2>1
    <2>3. Amended(a, layers[i]) = [key \in E |-> IF key \in DOMAIN layers[i] THEN layers[i][key] ELSE a[key]]
      BY <2>2 DEF Amended
    <2>4. \A key \in DOMAIN layers[i] : layers[i][key] \in V
      OBVIOUS
    <2> HIDE DEF V
    <2>5. [key \in E |-> IF key \in DOMAIN layers[i] THEN layers[i][key] ELSE a[key]] \in [E -> V]
      BY <2>1, <2>4
    <2> HIDE DEF E, K
    <2> QED BY <2>2, <2>3, <2>5
  <1> HIDE DEF A, K, V
  <1>3. step \in [(1 .. n) \X A -> A]
    BY <1>2
  <1> HIDE DEF step
  <1>6. FoldsSequence(n, A, step, base)
    BY <1>1, <1>3 DEF FoldsSequence
  <1>7. PICK table : SequenceTable(n, A, step, base, table)
    BY <1>6, SequenceTableExists, Zenon
  <1>4. /\ table \in [SUBSET (1 .. n) -> A]
        /\ \A s \in SUBSET (1 .. n) : table[s] = IF s = {} THEN base ELSE step[<<Max(s), table[s \ {Max(s)}]>>]
    BY <1>7 DEF SequenceTable
  <1>5. ASSUME NEW s \in SUBSET (1 .. n), s # {} PROVE table[s] = Amended(table[s \ {Max(s)}], layers[Max(s)])
    <2>1. Max(s) \in 1 .. n /\ s \ {Max(s)} \in SUBSET (1 .. n)
      BY <1>5, LastIsThere
    <2>2. table[s \ {Max(s)}] \in A
      BY <1>4, <2>1
    <2> QED BY <1>4, <1>5, <2>1, <2>2 DEF step
  <1>8. \A s \in SUBSET (1 .. n) : table[s] = IF s = {} THEN base ELSE Amended(table[s \ {Max(s)}], layers[Max(s)])
    BY <1>4, <1>5
  <1>9. table = [s \in SUBSET DOMAIN layers |-> table[s]]
    BY <1>4
  <1>10. StackTable(base, layers, table)
    BY <1>8, <1>9 DEF StackTable
  <1> QED BY <1>10

\* Of what is said of a key, the last of the layers that say anything counts, and what was
\* there before if there is none.
LastCounts(stack, base, layers, n) ==
  /\ DOMAIN stack = DOMAIN base \cup UNION {DOMAIN layers[i] : i \in 1 .. n}
  /\ \A i \in 1 .. n : \A key \in DOMAIN layers[i] :
       (\A j \in i + 1 .. n : key \notin DOMAIN layers[j]) => stack[key] = layers[i][key]
  /\ \A key \in DOMAIN base : (\A i \in 1 .. n : key \notin DOMAIN layers[i]) => stack[key] = base[key]

LEMMA StackSays ==
  ASSUME NEW base, AFunction(base), NEW n \in Nat, NEW layers, DOMAIN layers = 1 .. n
  PROVE  LastCounts(Stack(base, layers), base, layers, n)
  <1> DEFINE table == CHOOSE t : StackTable(base, layers, t)
  <1>1. StackTable(base, layers, table)
    BY StackTableExists
  <1>2. Stack(base, layers) = table[1 .. n]
    BY StackIs
  <1> HIDE DEF table
  <1> DEFINE Says(k, f) == LastCounts(f, base, layers, k)
             Fails == {k \in Nat : k <= n /\ ~Says(k, table[1 .. k])}
  <1>3. ASSUME Fails # {} PROVE FALSE
    <2>1. PICK k \in Fails : \A m \in Fails : k <= m
      BY <1>3, Least
    <2>2. k \in Nat /\ k <= n /\ ~Says(k, table[1 .. k])
      OBVIOUS
    <2> HIDE DEF Fails
    <2>3. CASE k = 0
      <3>1. 1 .. k = {}
        BY <2>3
      <3>2. table[1 .. k] = base
        BY <1>1, <3>1 DEF StackTable
      <3> QED BY <2>2, <3>1, <3>2 DEF LastCounts
    <2>4. CASE k # 0
      <3>1. k - 1 \in Nat /\ k - 1 <= n /\ k - 1 \notin Fails
        BY <2>1, <2>2, <2>4
      <3>2. Says(k - 1, table[1 .. k - 1])
        BY <3>1 DEF Fails
      <3> DEFINE below == table[1 .. k - 1]
                 f == table[1 .. k]
      <3>3. f = Amended(below, layers[k])
        <4>1. 1 .. k \in SUBSET DOMAIN layers /\ 1 .. k # {} /\ k \in 1 .. k
          BY <2>2, <2>4
        <4>2. f = Amended(table[(1 .. k) \ {Max(1 .. k)}], layers[Max(1 .. k)])
          BY <1>1, <4>1 DEF StackTable
        <4> QED BY <2>2, <2>4, <4>2, LastOfPrefix
      <3> HIDE DEF below, f
      <3>4. /\ DOMAIN f = DOMAIN layers[k] \cup DOMAIN below
            /\ \A key \in DOMAIN f : f[key] = IF key \in DOMAIN layers[k] THEN layers[k][key] ELSE below[key]
        BY <3>3 DEF Amended
      <3>5. 1 .. k = (1 .. k - 1) \cup {k}
        BY <2>2, <2>4
      <3>6. Says(k - 1, below)
        BY <3>2 DEF below
      <3>7. DOMAIN f = DOMAIN base \cup UNION {DOMAIN layers[i] : i \in 1 .. k}
        BY <3>4, <3>5, <3>6 DEF LastCounts
      <3>8. ASSUME NEW i \in 1 .. k, NEW key \in DOMAIN layers[i], \A j \in i + 1 .. k : key \notin DOMAIN layers[j]
            PROVE  f[key] = layers[i][key]
        <4>1. CASE i = k
          BY <3>4, <4>1
        <4>2. CASE i # k
          <5>1. i \in 1 .. k - 1 /\ k \in i + 1 .. k /\ i + 1 .. k - 1 \subseteq i + 1 .. k
            BY <2>2, <4>2
          <5>2. below[key] = layers[i][key] /\ key \in DOMAIN below
            BY <3>6, <3>8, <5>1 DEF LastCounts
          <5> QED BY <3>4, <3>8, <5>1, <5>2
        <4> QED BY <4>1, <4>2
      <3>9. ASSUME NEW key \in DOMAIN base, \A i \in 1 .. k : key \notin DOMAIN layers[i] PROVE f[key] = base[key]
        BY <3>4, <3>5, <3>6, <3>9 DEF LastCounts
      <3>10. Says(k, f)
        BY <3>7, <3>8, <3>9 DEF LastCounts
      <3> QED BY <2>2, <3>10 DEF f
    <2> QED BY <2>3, <2>4
  <1>4. Says(n, table[1 .. n])
    BY <1>3
  <1> QED BY <1>2, <1>4

-----------------------------------------------------------------------------
(* The chain of a profile *)

Names(profiles) == DOMAIN profiles \cup Inherited
Current(chain, selected, profiles) ==
  IF chain = <<>> THEN selected ELSE IF Head(chain) \in DOMAIN profiles THEN profiles[Head(chain)].extends ELSE {}
Members(chain) == {chain[i] : i \in DOMAIN chain}

\* A chain has each name once, the selected one at the end, each before one that extends it.
Descends(chain, selected, profiles) ==
  /\ chain \in Seq(Names(profiles)) /\ IsFiniteSet(Members(chain)) /\ Cardinality(Members(chain)) = Len(chain)
  /\ \A i, j \in 1 .. Len(chain) : chain[i] = chain[j] => i = j
  /\ chain # <<>> => chain[Len(chain)] \in selected
  /\ \A i \in 1 .. Len(chain) - 1 : chain[i + 1] \in DOMAIN profiles /\ chain[i] \in profiles[chain[i + 1]].extends

\* It ends where nobody comes before that is known and not yet there.
Exhausted(chain, selected, profiles) ==
  \A name \in Current(chain, selected, profiles) : Finds(profiles, name) => name \in Members(chain)

LEMMA OnwardIs ==
  ASSUME NEW chain, NEW selected, NEW profiles
  PROVE  LET found == {name \in Current(chain, selected, profiles) : Finds(profiles, name)} \ Members(chain) IN
           Onward(chain, selected, profiles) = IF found = {} THEN chain ELSE <<CHOOSE name \in found : TRUE>> \o chain
  BY Zenon DEF Onward, Current, Members

LEMMA OnwardDescends ==
  ASSUME NEW selected, NEW profiles, NEW chain, Descends(chain, selected, profiles)
  PROVE  LET next == Onward(chain, selected, profiles) IN
           /\ Descends(next, selected, profiles)
           /\ (next = chain /\ Exhausted(chain, selected, profiles)) \/ Len(next) = Len(chain) + 1
  <1> DEFINE found == {name \in Current(chain, selected, profiles) : Finds(profiles, name)} \ Members(chain)
             next == Onward(chain, selected, profiles)
  <1>1. CASE found = {}
    BY <1>1, OnwardIs DEF Exhausted
  <1>2. CASE found # {}
    <2>1. PICK name \in found : next = <<name>> \o chain
      BY <1>2, OnwardIs
    <2>2. name \in Current(chain, selected, profiles) /\ name \in Names(profiles) /\ name \notin Members(chain)
      BY DEF Finds, Names
    <2>3. chain \in Seq(Names(profiles)) /\ Len(chain) \in Nat /\ DOMAIN chain = 1 .. Len(chain)
      BY DEF Descends
    <2> HIDE DEF found, next
    <2>4. /\ next \in Seq(Names(profiles)) /\ Len(next) = Len(chain) + 1 /\ next # <<>> /\ DOMAIN next = 1 .. Len(chain) + 1
          /\ \A i \in 1 .. Len(chain) + 1 : next[i] = IF i = 1 THEN name ELSE chain[i - 1]
      BY <2>1, <2>2, <2>3
    <2>5. Members(next) = Members(chain) \cup {name}
      <3>1. ASSUME NEW i \in 1 .. Len(chain) PROVE chain[i] \in Members(next)
        <4>1. i + 1 \in DOMAIN next /\ next[i + 1] = chain[i]
          BY <2>3, <2>4
        <4> QED BY <4>1 DEF Members
      <3>2. name \in Members(next)
        <4>1. 1 \in DOMAIN next /\ next[1] = name
          BY <2>3, <2>4
        <4> QED BY <4>1 DEF Members
      <3>3. ASSUME NEW i \in 1 .. Len(chain) + 1 PROVE next[i] \in Members(chain) \cup {name}
        <4>1. i # 1 => i - 1 \in DOMAIN chain
          BY <2>3
        <4> QED BY <2>4, <4>1 DEF Members
      <3> QED BY <2>3, <2>4, <3>1, <3>2, <3>3 DEF Members
    <2>6. IsFiniteSet(Members(next)) /\ Cardinality(Members(next)) = Len(next)
      <3>1. IsFiniteSet(Members(chain)) /\ Cardinality(Members(chain)) = Len(chain)
        BY DEF Descends
      <3>2. /\ IsFiniteSet(Members(chain) \cup {name})
            /\ Cardinality(Members(chain) \cup {name}) = Cardinality(Members(chain)) + 1
        BY <2>2, <3>1, FS_AddElement
      <3> QED BY <2>4, <2>5, <3>1, <3>2
    <2>7. ASSUME NEW i \in 1 .. Len(next), NEW j \in 1 .. Len(next), next[i] = next[j] PROVE i = j
      <3>1. ASSUME NEW k \in 2 .. Len(next) PROVE k - 1 \in DOMAIN chain /\ next[k] = chain[k - 1] /\ next[k] # name
        <4>1. k - 1 \in DOMAIN chain /\ next[k] = chain[k - 1]
          BY <2>3, <2>4
        <4> QED BY <2>2, <4>1 DEF Members
      <3>2. \A k, l \in 1 .. Len(chain) : chain[k] = chain[l] => k = l
        BY DEF Descends
      <3>3. next[1] = name
        BY <2>3, <2>4
      <3> QED BY <2>3, <2>4, <2>7, <3>1, <3>2, <3>3
    <2>8. next[Len(next)] \in selected
      <3>1. CASE chain = <<>>
        BY <2>2, <2>3, <2>4, <3>1 DEF Current
      <3>2. CASE chain # <<>>
        <4>1. Len(chain) # 0 /\ next[Len(next)] = chain[Len(chain)]
          BY <2>3, <2>4, <3>2
        <4> QED BY <3>2, <4>1 DEF Descends
      <3> QED BY <3>1, <3>2
    <2>9. ASSUME NEW i \in 1 .. Len(next) - 1 PROVE next[i + 1] \in DOMAIN profiles /\ next[i] \in profiles[next[i + 1]].extends
      <3>1. next[i + 1] = chain[i] /\ i \in 1 .. Len(chain)
        BY <2>3, <2>4
      <3>2. CASE i = 1
        <4>1. next[1] = name /\ chain # <<>> /\ chain[1] = Head(chain)
          BY <2>3, <2>4, <3>1, <3>2
        <4> QED BY <2>2, <3>1, <3>2, <4>1 DEF Current
      <3>3. CASE i # 1
        <4>1. i - 1 \in 1 .. Len(chain) - 1 /\ next[i] = chain[i - 1] /\ chain[(i - 1) + 1] = chain[i]
          BY <2>3, <2>4, <3>1, <3>3
        <4> QED BY <3>1, <4>1 DEF Descends
      <3> QED BY <3>2, <3>3
    <2> QED BY <2>4, <2>6, <2>7, <2>8, <2>9 DEF Descends, next
  <1> QED BY <1>1, <1>2

LEMMA ChainDescends ==
  ASSUME NEW selected, NEW profiles, IsFiniteSet(DOMAIN profiles)
  PROVE  LET chain == ResolveProfile(selected, profiles) IN
           Descends(chain, selected, profiles) /\ Exhausted(chain, selected, profiles)
  <1> DEFINE enough == Cardinality(Names(profiles))
             Chains(table) == table = [passes \in 0 .. enough |-> IF passes = 0 THEN <<>> ELSE Onward(table[passes - 1], selected, profiles)]
             A == {chain \in Seq(Names(profiles)) : Descends(chain, selected, profiles)}
             next == [chain \in A |-> Onward(chain, selected, profiles)]
             table == CHOOSE t : Chains(t)
  <1>1. ResolveProfile(selected, profiles) = table[enough]
    BY Zenon DEF ResolveProfile, Names
  <1>2. IsFiniteSet(Names(profiles)) /\ enough \in Nat
    <2>1. IsFiniteSet(Inherited)
      BY FS_Singleton DEF Inherited
    <2> QED BY <2>1, FS_Union, FS_CardinalityType DEF Names
  <1>3. <<>> \in A
    <2>1. Members(<<>>) = {}
      BY DEF Members
    <2>2. IsFiniteSet(Members(<<>>)) /\ Cardinality(Members(<<>>)) = Len(<<>>)
      BY <2>1, FS_EmptySet
    <2>3. <<>> \in Seq(Names(profiles)) /\ Len(<<>>) = 0
      OBVIOUS
    <2>4. /\ \A i, j \in 1 .. Len(<<>>) : <<>>[i] = <<>>[j] => i = j
          /\ \A i \in 1 .. Len(<<>>) - 1 : <<>>[i + 1] \in DOMAIN profiles /\ <<>>[i] \in profiles[<<>>[i + 1]].extends
      BY <2>3
    <2> QED BY <2>2, <2>3, <2>4 DEF Descends
  <1>4. next \in [A -> A]
    <2> SUFFICES ASSUME NEW chain \in A PROVE Onward(chain, selected, profiles) \in A
      OBVIOUS
    <2>1. Descends(Onward(chain, selected, profiles), selected, profiles)
      BY OnwardDescends
    <2> QED BY <2>1 DEF Descends
  <1> HIDE DEF enough, A
  <1>5. PICK one \in [0 .. enough -> A] : Repeated(enough, <<>>, next, one)
    <2> HIDE DEF next
    <2> QED BY <1>2, <1>3, <1>4, RepetitionExists
  <1>6. Chains(one)
    <2>1. ASSUME NEW k \in 0 .. enough PROVE one[k] = IF k = 0 THEN <<>> ELSE Onward(one[k - 1], selected, profiles)
      <3>1. k # 0 => k - 1 \in 0 .. enough
        BY <1>2
      <3> QED BY <1>5, <3>1 DEF Repeated
    <2>2. one = [k \in 0 .. enough |-> one[k]]
      BY <1>5
    <2> QED BY <2>1, <2>2
  <1>7. Chains(table)
    BY <1>6
  <1> HIDE DEF table
  <1>8. table[0] = <<>> /\ \A k \in 1 .. enough : table[k] = Onward(table[k - 1], selected, profiles)
    BY <1>2, <1>7
  <1> DEFINE Right(k) == /\ Descends(table[k], selected, profiles)
                         /\ Len(table[k]) = k \/ Exhausted(table[k], selected, profiles)
             Fails == {k \in Nat : k <= enough /\ ~Right(k)}
  <1>9. ASSUME Fails # {} PROVE FALSE
    <2>1. PICK k \in Fails : \A m \in Fails : k <= m
      BY <1>9, Least
    <2>2. k \in Nat /\ k <= enough /\ ~Right(k)
      OBVIOUS
    <2>3. k # 0
      BY <1>3, <1>8, <2>2 DEF A
    <2>4. k - 1 \in Nat /\ k - 1 \notin Fails /\ k \in 1 .. enough
      BY <1>2, <2>1, <2>2, <2>3
    <2>5. Right(k - 1)
      BY <1>2, <2>2, <2>4
    <2>6. table[k] = Onward(table[k - 1], selected, profiles)
      BY <1>8, <2>4
    <2>7. /\ Descends(table[k], selected, profiles)
          /\ (table[k] = table[k - 1] /\ Exhausted(table[k - 1], selected, profiles)) \/ Len(table[k]) = Len(table[k - 1]) + 1
      BY <2>5, <2>6, OnwardDescends
    <2>8. CASE Len(table[k - 1]) = k - 1
      BY <2>2, <2>7, <2>8
    <2>9. CASE Exhausted(table[k - 1], selected, profiles)
      <3>1. table[k] = table[k - 1]
        <4>1. {name \in Current(table[k - 1], selected, profiles) : Finds(profiles, name)} \ Members(table[k - 1]) = {}
          BY <2>9 DEF Exhausted
        <4> QED BY <2>6, <4>1, OnwardIs
      <3> QED BY <2>2, <2>7, <2>9, <3>1
    <2> QED BY <2>5, <2>8, <2>9
  <1>10. Right(enough)
    BY <1>2, <1>9
  <1>11. CASE Len(table[enough]) = enough
    <2>1. Members(table[enough]) \subseteq Names(profiles)
      BY <1>10 DEF Descends, Members
    <2>2. Members(table[enough]) = Names(profiles)
      BY <1>2, <1>10, <1>11, <2>1, FS_Subset DEF Descends, enough
    <2> QED BY <1>1, <1>10, <2>2 DEF Exhausted, Finds, Names
  <1> QED BY <1>1, <1>10, <1>11

-----------------------------------------------------------------------------
(* Lines of descent *)

\* Following extends ends, and a profile extends one other at most.
NoCircle(profiles) ==
  \A circle \in (SUBSET DOMAIN profiles) \ {{}} : \E name \in circle : profiles[name].extends \cap circle = {}
OneParent(profiles) == \A name \in DOMAIN profiles : OnceAtMost(profiles[name].extends)

\* The chain of a profile that is known and of which all are known.
ChainOf(chain, selected, profiles) ==
  /\ Descends(chain, selected, profiles) /\ Exhausted(chain, selected, profiles)
  /\ \A i \in 1 .. Len(chain) : chain[i] \in DOMAIN profiles
  /\ IsFiniteSet(DOMAIN profiles) /\ OneParent(profiles) /\ NoCircle(profiles) /\ OnceAtMost(selected)

LEMMA ChainHas ==
  ASSUME NEW chain, NEW selected, NEW profiles, Descends(chain, selected, profiles)
  PROVE  /\ chain \in Seq(Names(profiles)) /\ Len(chain) \in Nat /\ DOMAIN chain = 1 .. Len(chain)
         /\ chain # <<>> => Head(chain) = chain[1] /\ Len(chain) # 0
         /\ \A i \in 1 .. Len(chain) - 1 : chain[i + 1] \in DOMAIN profiles /\ chain[i] \in profiles[chain[i + 1]].extends
  BY DEF Descends

\* A line of descent goes back along the chain.
LEMMA LinesFollow ==
  ASSUME NEW chain, NEW selected, NEW profiles, ChainOf(chain, selected, profiles), NEW line \in Lines(selected, profiles)
  PROVE  /\ Len(line) \in Nat /\ Len(line) # 0 /\ DOMAIN line = 1 .. Len(line)
         /\ Len(line) <= Len(chain) /\ \A i \in 1 .. Len(line) : line[i] = chain[Len(chain) + 1 - i]
  <1>1. /\ Len(line) \in Nat /\ Len(line) # 0 /\ DOMAIN line = 1 .. Len(line)
        /\ \A i \in 1 .. Len(line) : line[i] \in DOMAIN profiles
        /\ line[1] \in selected /\ \A i \in 2 .. Len(line) : line[i] \in profiles[line[i - 1]].extends
    <2>1. Cardinality(DOMAIN profiles) \in Nat
      BY FS_CardinalityType DEF ChainOf
    <2>2. PICK m \in 0 .. Cardinality(DOMAIN profiles) : line \in [1 .. m -> DOMAIN profiles]
      BY <2>1 DEF Lines, SeqOf
    <2>3. Len(line) = m /\ m \in Nat /\ line \in Seq(DOMAIN profiles)
      BY <2>1, <2>2
    <2>4. line # <<>> /\ line[1] \in selected /\ \A i \in 2 .. Len(line) : line[i] \in profiles[line[i - 1]].extends
      BY DEF Lines
    <2> QED BY <2>2, <2>3, <2>4
  <1>2. /\ chain \in Seq(Names(profiles)) /\ Len(chain) \in Nat /\ DOMAIN chain = 1 .. Len(chain)
        /\ chain # <<>> => Head(chain) = chain[1] /\ Len(chain) # 0
        /\ \A i \in 1 .. Len(chain) - 1 : chain[i + 1] \in DOMAIN profiles /\ chain[i] \in profiles[chain[i + 1]].extends
    BY ChainHas DEF ChainOf
  <1>3. /\ chain # <<>> => chain[Len(chain)] \in selected
        /\ \A i \in 1 .. Len(chain) : chain[i] \in DOMAIN profiles
        /\ \A x, y \in selected : x = y
        /\ \A name \in DOMAIN profiles : \A x, y \in profiles[name].extends : x = y
    BY DEF ChainOf, Descends, OneParent, OnceAtMost
  <1>4. ASSUME NEW name \in Current(chain, selected, profiles), name \in DOMAIN profiles PROVE name \in Members(chain)
    BY <1>4 DEF ChainOf, Exhausted, Finds
  <1> DEFINE Right(i) == i <= Len(chain) /\ line[i] = chain[Len(chain) + 1 - i]
             Fails == {i \in Nat : i \in 1 .. Len(line) /\ ~Right(i)}
  <1>5. ASSUME Fails # {} PROVE FALSE
    <2>1. PICK i \in Fails : \A m \in Fails : i <= m
      BY <1>5, Least
    <2>2. i \in 1 .. Len(line) /\ ~Right(i)
      OBVIOUS
    <2>3. CASE i = 1
      <3>1. chain # <<>>
        <4> SUFFICES ASSUME chain = <<>> PROVE FALSE
          OBVIOUS
        <4>1. line[1] \in Current(chain, selected, profiles)
          BY <1>1 DEF Current
        <4>2. Members(chain) = {}
          BY DEF Members
        <4> QED BY <1>1, <1>4, <4>1, <4>2
      <3>2. line[1] = chain[Len(chain)]
        BY <1>1, <1>3, <3>1
      <3> QED BY <1>2, <2>2, <2>3, <3>1, <3>2
    <2>4. CASE i # 1
      <3>1. i - 1 \in Nat /\ i - 1 \in 1 .. Len(line) /\ i - 1 \notin Fails /\ i \in 2 .. Len(line)
        BY <1>1, <2>1, <2>2, <2>4
      <3>2. i - 1 <= Len(chain) /\ line[i - 1] = chain[Len(chain) + 1 - (i - 1)]
        BY <3>1
      <3>3. line[i] \in profiles[line[i - 1]].extends /\ line[i] \in DOMAIN profiles /\ line[i - 1] \in DOMAIN profiles
        BY <1>1, <2>2, <3>1
      <3>4. CASE i <= Len(chain)
        <4> DEFINE k == Len(chain) + 1 - i
        <4>1. k \in 1 .. Len(chain) - 1 /\ Len(chain) + 1 - (i - 1) = k + 1
          BY <1>2, <3>1, <3>4
        <4>2. chain[k] \in profiles[chain[k + 1]].extends /\ line[i - 1] = chain[k + 1]
          BY <1>2, <3>2, <4>1
        <4>3. line[i] = chain[k]
          BY <1>3, <3>3, <4>2
        <4> QED BY <2>2, <3>4, <4>3
      <3>5. CASE ~(i <= Len(chain))
        <4>1. i - 1 = Len(chain) /\ Len(chain) + 1 - (i - 1) = 1 /\ Len(chain) # 0
          BY <1>2, <3>1, <3>2, <3>5
        <4>2. line[i - 1] = chain[1] /\ chain # <<>> /\ Head(chain) = chain[1]
          <5>1. chain # <<>>
            BY <4>1
          <5> QED BY <1>2, <3>2, <4>1, <5>1
        <4>3. line[i] \in Current(chain, selected, profiles)
          BY <3>3, <4>2 DEF Current
        <4>4. line[i] \in Members(chain)
          BY <1>4, <3>3, <4>3
        <4>5. Members(chain) \in (SUBSET DOMAIN profiles) \ {{}}
          <5>1. Members(chain) \subseteq DOMAIN profiles /\ Members(chain) # {}
            BY <1>2, <1>3, <4>4 DEF Members
          <5> QED BY <5>1
        <4>6. PICK name \in Members(chain) : profiles[name].extends \cap Members(chain) = {}
          BY <4>5 DEF ChainOf, NoCircle
        <4>7. PICK j \in 1 .. Len(chain) : name = chain[j]
          BY <1>2 DEF Members
        <4>8. CASE j = 1
          BY <3>3, <4>2, <4>4, <4>6, <4>7, <4>8
        <4>9. CASE j # 1
          <5>1. j - 1 \in 1 .. Len(chain) - 1 /\ j - 1 \in DOMAIN chain /\ (j - 1) + 1 = j
            BY <1>2, <4>7, <4>9
          <5>2. chain[j - 1] \in profiles[chain[j]].extends
            BY <1>2, <5>1
          <5>3. chain[j - 1] \in Members(chain)
            BY <5>1 DEF Members
          <5> QED BY <4>6, <4>7, <5>2, <5>3
        <4> QED BY <4>8, <4>9
      <3> QED BY <3>4, <3>5
    <2> QED BY <2>3, <2>4
  <1>6. \A i \in 1 .. Len(line) : Right(i)
    <2>1. \A i \in 1 .. Len(line) : i \in Nat /\ i \notin Fails
      BY <1>1, <1>5
    <2> HIDE DEF Right
    <2> QED BY <2>1
  <1>7. Len(line) <= Len(chain)
    BY <1>1, <1>6
  <1> QED BY <1>1, <1>6, <1>7

\* And whatever goes back along the chain is one.
LEMMA ChainIsLine ==
  ASSUME NEW chain, NEW selected, NEW profiles, ChainOf(chain, selected, profiles), NEW k \in 1 .. Len(chain)
  PROVE  [i \in 1 .. k |-> chain[Len(chain) + 1 - i]] \in Lines(selected, profiles)
  <1> DEFINE line == [i \in 1 .. k |-> chain[Len(chain) + 1 - i]]
             size == Cardinality(DOMAIN profiles)
  <1>1. /\ chain \in Seq(Names(profiles)) /\ Len(chain) \in Nat /\ DOMAIN chain = 1 .. Len(chain)
        /\ \A i \in 1 .. Len(chain) - 1 : chain[i] \in profiles[chain[i + 1]].extends
        /\ \A i \in 1 .. Len(chain) : chain[i] \in DOMAIN profiles
    BY ChainHas DEF ChainOf
  <1>2. chain[Len(chain)] \in selected
    <2>1. chain # <<>>
      BY <1>1
    <2> QED BY <2>1 DEF ChainOf, Descends
  <1>3. size \in Nat /\ Len(chain) <= size
    <2>1. Members(chain) \subseteq DOMAIN profiles
      BY <1>1 DEF Members
    <2>2. IsFiniteSet(DOMAIN profiles) /\ Cardinality(Members(chain)) = Len(chain)
      BY DEF ChainOf, Descends
    <2> QED BY <2>1, <2>2, FS_Subset, FS_CardinalityType
  <1>4. k \in 0 .. size /\ k \in Nat /\ k # 0
    BY <1>1, <1>3
  <1>5. \A i \in 1 .. k : Len(chain) + 1 - i \in 1 .. Len(chain)
    BY <1>1
  <1>6. line \in [1 .. k -> DOMAIN profiles]
    BY <1>1, <1>5
  <1>7. \A i \in 1 .. k : line[i] = chain[Len(chain) + 1 - i]
    OBVIOUS
  <1> HIDE DEF line, size
  <1>8. line \in SeqOf(DOMAIN profiles, size)
    BY <1>4, <1>6 DEF SeqOf
  <1>9. line \in Seq(DOMAIN profiles) /\ Len(line) = k /\ line # <<>>
    BY <1>4, <1>6
  <1>10. line[1] \in selected
    <2>1. 1 \in 1 .. k /\ Len(chain) + 1 - 1 = Len(chain)
      BY <1>1, <1>4
    <2> QED BY <1>2, <1>7, <2>1
  <1>11. ASSUME NEW i \in 2 .. Len(line) PROVE line[i] \in profiles[line[i - 1]].extends
    <2> DEFINE j == Len(chain) + 1 - i
    <2>1. i \in 1 .. k /\ i - 1 \in 1 .. k /\ j \in 1 .. Len(chain) - 1 /\ Len(chain) + 1 - (i - 1) = j + 1
      BY <1>1, <1>4, <1>9
    <2>2. line[i] = chain[j] /\ line[i - 1] = chain[j + 1]
      BY <1>7, <2>1
    <2> QED BY <1>1, <2>1, <2>2
  <1> QED BY <1>8, <1>9, <1>10, <1>11 DEF Lines, size, line

\* What the nearest profile says is what the last of the chain says.
LEMMA ByProfileIs ==
  ASSUME NEW chain, NEW selected, NEW profiles, ChainOf(chain, selected, profiles), NEW key
  PROVE  /\ (\A i \in 1 .. Len(chain) : key \notin DOMAIN profiles[chain[i]].values) => ByProfile(selected, profiles, key) = {}
         /\ \A k \in 1 .. Len(chain) :
              key \in DOMAIN profiles[chain[k]].values /\ (\A j \in k + 1 .. Len(chain) : key \notin DOMAIN profiles[chain[j]].values)
                => ByProfile(selected, profiles, key) = {profiles[chain[k]].values[key]}
  <1> DEFINE says(name) == key \in DOMAIN profiles[name].values
             nearest(line) == says(line[Len(line)]) /\ \A i \in 1 .. Len(line) - 1 : ~says(line[i])
             said(line) == profiles[line[Len(line)]].values[key]
             near == {l \in Lines(selected, profiles) : nearest(l)}
  <1>1. ByProfile(selected, profiles, key) = {said(line) : line \in near}
    BY Zenon DEF ByProfile
  <1>2. Len(chain) \in Nat
    BY ChainHas DEF ChainOf
  <1>3. ASSUME NEW line \in near
        PROVE  /\ Len(line) \in 1 .. Len(chain) /\ line[Len(line)] = chain[Len(chain) + 1 - Len(line)]
               /\ says(chain[Len(chain) + 1 - Len(line)])
               /\ \A i \in 1 .. Len(line) - 1 : ~says(chain[Len(chain) + 1 - i])
    <2>1. line \in Lines(selected, profiles) /\ nearest(line)
      OBVIOUS
    <2> HIDE DEF near, said
    <2>2. /\ Len(line) \in Nat /\ Len(line) # 0 /\ Len(line) <= Len(chain)
          /\ \A i \in 1 .. Len(line) : line[i] = chain[Len(chain) + 1 - i]
      BY <2>1, LinesFollow
    <2>3. line[Len(line)] = chain[Len(chain) + 1 - Len(line)] /\ Len(line) \in 1 .. Len(chain)
      BY <1>2, <2>2
    <2>4. \A i \in 1 .. Len(line) - 1 : line[i] = chain[Len(chain) + 1 - i]
      BY <2>2
    <2> HIDE DEF says
    <2> QED BY <2>1, <2>3, <2>4
  <1>4. ASSUME \A i \in 1 .. Len(chain) : ~says(chain[i]) PROVE near = {}
    <2> SUFFICES ASSUME NEW line \in near PROVE FALSE
      OBVIOUS
    <2>1. Len(chain) + 1 - Len(line) \in 1 .. Len(chain)
      BY <1>2, <1>3
    <2> HIDE DEF near, says, said
    <2> QED BY <1>3, <1>4, <2>1
  <1>5. ASSUME NEW k \in 1 .. Len(chain), says(chain[k]), \A j \in k + 1 .. Len(chain) : ~says(chain[j])
        PROVE  {said(line) : line \in near} = {profiles[chain[k]].values[key]}
    <2> DEFINE n == Len(chain) + 1 - k
               own == [i \in 1 .. n |-> chain[Len(chain) + 1 - i]]
    <2>1. n \in 1 .. Len(chain) /\ n \in Nat /\ Len(chain) + 1 - n = k
      BY <1>2
    <2>2. own \in Lines(selected, profiles)
      BY <2>1, ChainIsLine
    <2>3. Len(own) = n /\ \A i \in 1 .. n : own[i] = chain[Len(chain) + 1 - i]
      BY <2>1
    <2>4. own[n] = chain[k] /\ \A i \in 1 .. n - 1 : own[i] = chain[Len(chain) + 1 - i] /\ Len(chain) + 1 - i \in k + 1 .. Len(chain)
      BY <1>2, <2>1, <2>3
    <2> HIDE DEF own, n
    <2>5. nearest(own)
      <3> HIDE DEF says
      <3> QED BY <1>5, <2>3, <2>4
    <2>6. said(own) = profiles[chain[k]].values[key]
      BY <2>3, <2>4
    <2>7. ASSUME NEW line \in near PROVE said(line) = profiles[chain[k]].values[key]
      <3>1. /\ Len(line) \in 1 .. Len(chain) /\ line[Len(line)] = chain[Len(chain) + 1 - Len(line)]
            /\ says(chain[Len(chain) + 1 - Len(line)])
            /\ \A i \in 1 .. Len(line) - 1 : ~says(chain[Len(chain) + 1 - i])
        BY <1>3
      <3> DEFINE m == Len(chain) + 1 - Len(line)
      <3>2. m \in 1 .. Len(chain) /\ Len(line) \in Int
        BY <1>2, <3>1
      <3>3. ~(m > k)
        <4> HIDE DEF says
        <4>1. m > k => m \in k + 1 .. Len(chain)
          BY <1>2, <3>2
        <4> QED BY <1>5, <3>1, <4>1
      <3>4. ~(m < k)
        <4> HIDE DEF says
        <4>1. m < k => Len(chain) + 1 - k \in 1 .. Len(line) - 1 /\ Len(chain) + 1 - (Len(chain) + 1 - k) = k
          BY <1>2, <3>1, <3>2
        <4> QED BY <1>5, <3>1, <4>1
      <3> HIDE DEF m
      <3>5. m = k
        BY <1>2, <3>2, <3>3, <3>4
      <3> QED BY <3>1, <3>5 DEF m
    <2>8. own \in near
      BY <2>2, <2>5
    <2> HIDE DEF near, said
    <2> QED BY <2>6, <2>7, <2>8
  <1> QED BY <1>1, <1>4, <1>5
=============================================================================
