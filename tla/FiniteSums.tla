------------------------------ MODULE FiniteSums ------------------------------
(***************************************************************************)
(* What the proofs need to know of SumFunctionOnSet and of the least and   *)
(* greatest member of a finite set.  A sum is a recursion over the subsets *)
(* of its index set that chooses one member at a time; the lemmas say that *)
(* the recursion has a solution, that it is the only one and that the      *)
(* choices do not matter.  They are by induction over the subsets of a     *)
(* finite set (StrongSetInduction, SetInduction).  What is to be proved    *)
(* of all of them is given as the set of those it holds of, so that the    *)
(* induction is about sets and takes no operator.                          *)
(***************************************************************************)
EXTENDS Integers, FiniteSetsExt, Functions, FiniteSetTheorems, TLAPS

-----------------------------------------------------------------------------
(* Induction over the subsets of a finite set *)

\* Among subsets of a finite set one has no other of them strictly within it.
LEMMA SmallestSubset ==
    ASSUME NEW S, IsFiniteSet(S), NEW T, T \subseteq SUBSET S, T # {}
    PROVE  \E X \in T : \A Y \in T : Y \subseteq X => Y = X
<1>1. IsWellFoundedOn(StrictSubsetOrdering(S), SUBSET S)
    BY FS_StrictSubsetOrderingWellFounded, FS_FiniteSubsetsOfFinite
<1>2. \E X \in T : \A Y \in T : ~ (<<Y, X>> \in StrictSubsetOrdering(S))
    BY <1>1, WFMin, Zenon
<1>3. \A X \in T, Y \in T :
          Y \subseteq X /\ Y # X => <<Y, X>> \in StrictSubsetOrdering(S)
    BY DEF StrictSubsetOrdering
<1>4. QED
    BY <1>2, <1>3

\* What is true of a set whenever it is true of all that is strictly within it
\* is true of every finite set.
LEMMA StrongSetInduction ==
    ASSUME NEW S, IsFiniteSet(S), NEW P,
           \A T \in SUBSET S : (\A U \in SUBSET T : U # T => U \in P) => T \in P
    PROVE  \A T \in SUBSET S : T \in P
<1>1. SUFFICES ASSUME (SUBSET S) \ P # {} PROVE FALSE
    BY Zenon
<1>2. (SUBSET S) \ P \subseteq SUBSET S
    OBVIOUS
<1>3. PICK X \in (SUBSET S) \ P : \A Y \in (SUBSET S) \ P : Y \subseteq X => Y = X
    <2> DEFINE T == (SUBSET S) \ P
    <2>1. T \subseteq SUBSET S /\ T # {}
        BY <1>1, <1>2
    <2> HIDE DEF T
    <2>2. \E X \in T : \A Y \in T : Y \subseteq X => Y = X
        BY <2>1, SmallestSubset
    <2>3. QED
        BY <2>2 DEF T
<1>4. \A U \in SUBSET X : U # X => U \in P
    BY <1>3
<1>5. QED
    BY <1>3, <1>4

\* What is true of the empty set, and stays true when a member is added, is true
\* of every finite set.
LEMMA SetInduction ==
    ASSUME NEW S, IsFiniteSet(S), NEW P, {} \in P,
           \A T \in SUBSET S : \A x \in S \ T : T \in P => T \cup {x} \in P
    PROVE  S \in P
<1>1. ASSUME NEW T \in SUBSET S, \A U \in SUBSET T : U # T => U \in P
      PROVE  T \in P
    <2>1. CASE T = {}
        BY <2>1
    <2>2. CASE T # {}
        <3>1. PICK x \in T : TRUE
            BY <2>2
        <3>2. T \ {x} \in P
            BY <1>1, <3>1
        <3>3. (T \ {x}) \cup {x} = T /\ T \ {x} \in SUBSET S /\ x \in S \ (T \ {x})
            BY <3>1
        <3>4. (T \ {x}) \cup {x} \in P
            BY <3>2, <3>3
        <3>5. QED
            BY <3>3, <3>4
    <2>3. QED
        BY <2>1, <2>2
<1>2. \A T \in SUBSET S : (\A U \in SUBSET T : U # T => U \in P) => T \in P
    BY <1>1
<1>3. \A T \in SUBSET S : T \in P
    BY <1>2, StrongSetInduction
<1>4. QED
    BY <1>3

-----------------------------------------------------------------------------
(* Finite sets *)

\* Up to five things are finitely many.
LEMMA FewAreFinite ==
    ASSUME NEW a, NEW b, NEW c, NEW d, NEW e
    PROVE  /\ IsFiniteSet({a}) /\ IsFiniteSet({a, b}) /\ IsFiniteSet({a, b, c})
           /\ IsFiniteSet({a, b, c, d}) /\ IsFiniteSet({a, b, c, d, e})
<1>1. IsFiniteSet({a})
    BY FS_Singleton
<1>2. IsFiniteSet({a} \cup {b})
    BY <1>1, FS_AddElement
<1>3. IsFiniteSet(({a} \cup {b}) \cup {c})
    BY <1>2, FS_AddElement
<1>4. IsFiniteSet((({a} \cup {b}) \cup {c}) \cup {d})
    BY <1>3, FS_AddElement
<1>5. IsFiniteSet(((({a} \cup {b}) \cup {c}) \cup {d}) \cup {e})
    BY <1>4, FS_AddElement
<1>6. /\ {a} \cup {b} = {a, b} /\ ({a} \cup {b}) \cup {c} = {a, b, c}
      /\ (({a} \cup {b}) \cup {c}) \cup {d} = {a, b, c, d}
      /\ ((({a} \cup {b}) \cup {c}) \cup {d}) \cup {e} = {a, b, c, d, e}
    OBVIOUS
<1>7. QED
    BY <1>1, <1>2, <1>3, <1>4, <1>5, <1>6

\* A function takes no more values than it has arguments.
LEMMA ImageSize ==
    ASSUME NEW f, NEW S, IsFiniteSet(S)
    PROVE  /\ IsFiniteSet({f[x] : x \in S})
           /\ Cardinality({f[x] : x \in S}) <= Cardinality(S)
<1> DEFINE T == {f[x] : x \in S}
           g == [x \in S |-> f[x]]
<1>1. g \in Surjection(S, T)
    BY DEF Surjection
<1> HIDE DEF T, g
<1>2. IsFiniteSet(T) /\ Cardinality(T) <= Cardinality(S)
    BY <1>1, FS_Surjection
<1>3. QED
    BY <1>2 DEF T

-----------------------------------------------------------------------------
(* The recursion *)

Chosen(s) == CHOOSE x \in s : TRUE

\* it solves the recursion that sums fun, over the subsets of S.
Solves(it, fun, S) ==
    it = [s \in SUBSET S |-> IF s = {} THEN 0 ELSE fun[Chosen(s)] + it[s \ {Chosen(s)}]]

\* SumFunctionOnSet is its solution, if it has one.
LEMMA SumIsChosen ==
    \A fun, S : SumFunctionOnSet(fun, S) = (CHOOSE it : Solves(it, fun, S))[S]
    BY DEF SumFunctionOnSet, FoldFunctionOnSet, MapThenFoldSet, Solves, Chosen

\* Two solutions agree where both are defined.
LEMMA SolutionsAgree ==
    ASSUME NEW fun, NEW S, NEW T, NEW i, NEW j,
           IsFiniteSet(S), T \in SUBSET S, Solves(i, fun, S), Solves(j, fun, T)
    PROVE  \A s \in SUBSET T : i[s] = j[s]
<1> DEFINE P == {s \in SUBSET T : i[s] = j[s]}
<1>1. IsFiniteSet(T)
    BY FS_Subset
<1>2. ASSUME NEW U \in SUBSET T, \A V \in SUBSET U : V # U => V \in P
      PROVE  U \in P
    <2>1. i[U] = IF U = {} THEN 0 ELSE fun[Chosen(U)] + i[U \ {Chosen(U)}]
        BY Zenon DEF Solves
    <2>2. j[U] = IF U = {} THEN 0 ELSE fun[Chosen(U)] + j[U \ {Chosen(U)}]
        BY Zenon DEF Solves
    <2>3. CASE U = {}
        BY <2>1, <2>2, <2>3
    <2>4. CASE U # {}
        <3>1. Chosen(U) \in U
            BY <2>4 DEF Chosen
        <3>2. U \ {Chosen(U)} \in P
            BY <1>2, <3>1
        <3>3. QED
            BY <2>1, <2>2, <2>4, <3>2
    <2>5. QED
        BY <2>3, <2>4
<1> HIDE DEF P
<1>3. \A s \in SUBSET T : s \in P
    BY <1>1, <1>2, StrongSetInduction
<1>4. QED
    BY <1>3 DEF P

\* Over a finite set there is a solution.
LEMMA SolutionExists ==
    ASSUME NEW fun, NEW S, IsFiniteSet(S)
    PROVE  \A T \in SUBSET S : \E it : Solves(it, fun, T)
<1> DEFINE P == {T \in SUBSET S : \E it : Solves(it, fun, T)}
           Of(T) == CHOOSE it : Solves(it, fun, T)
<1>1. ASSUME NEW T \in SUBSET S, \A U \in SUBSET T : U # T => U \in P
      PROVE  \E it : Solves(it, fun, T)
    <2> DEFINE Value(s) == IF s = {} THEN 0
                           ELSE fun[Chosen(s)] + Of(s \ {Chosen(s)})[s \ {Chosen(s)}]
               it == [s \in SUBSET T |-> Value(s)]
    <2>1. \A U \in SUBSET T : U # T => Solves(Of(U), fun, U)
        BY <1>1
    <2>2. ASSUME NEW s \in SUBSET T, s # {}
          PROVE  Of(s \ {Chosen(s)})[s \ {Chosen(s)}] = it[s \ {Chosen(s)}]
        <3> DEFINE r == s \ {Chosen(s)}
        <3>1. Chosen(s) \in s
            BY <2>2 DEF Chosen
        <3>2. r \in SUBSET T /\ r # T
            BY <3>1
        <3>3. Solves(Of(r), fun, r)
            BY <2>1, <3>2
        <3>4. it[r] = Value(r)
            BY <3>2
        <3> SUFFICES Of(r)[r] = it[r]
            OBVIOUS
        <3> HIDE DEF r, Of, it
        <3>5. Of(r)[r] = IF r = {} THEN 0 ELSE fun[Chosen(r)] + Of(r)[r \ {Chosen(r)}]
            BY <3>3, Zenon DEF Solves
        <3>6. CASE r = {}
            BY <3>4, <3>5, <3>6
        <3>7. CASE r # {}
            <4> DEFINE q == r \ {Chosen(r)}
            <4>1. Chosen(r) \in r
                BY <3>7 DEF Chosen
            <4>2. q \in SUBSET r /\ q \in SUBSET T /\ q # T
                BY <3>2, <4>1
            <4>3. Solves(Of(q), fun, q)
                BY <2>1, <4>2
            <4>4. IsFiniteSet(r)
                BY <3>2, FS_Subset
            <4>5. Of(r)[q] = Of(q)[q]
                <5>1. q \in SUBSET q
                    OBVIOUS
                <5> HIDE DEF q
                <5>2. \A x \in SUBSET q : Of(r)[x] = Of(q)[x]
                    BY <3>3, <4>2, <4>3, <4>4, SolutionsAgree
                <5>3. QED
                    BY <5>1, <5>2
            <4>6. QED
                BY <3>4, <3>5, <3>7, <4>5
        <3>8. QED
            BY <3>6, <3>7
    <2>3. \A s \in SUBSET T :
              Value(s) = IF s = {} THEN 0 ELSE fun[Chosen(s)] + it[s \ {Chosen(s)}]
        <3> HIDE DEF it, Of
        <3> QED
            BY <2>2
    <2> HIDE DEF Of
    <2>4. it = [s \in SUBSET T |-> IF s = {} THEN 0 ELSE fun[Chosen(s)] + it[s \ {Chosen(s)}]]
        <3> DEFINE new(s) == IF s = {} THEN 0 ELSE fun[Chosen(s)] + it[s \ {Chosen(s)}]
        <3>1. \A s \in SUBSET T : Value(s) = new(s)
            BY <2>3
        <3>2. [s \in SUBSET T |-> Value(s)] = [s \in SUBSET T |-> new(s)]
            <4> HIDE DEF Value, new
            <4> QED
                BY <3>1
        <3>3. QED
            BY <3>2
    <2>5. Solves(it, fun, T)
        <3> HIDE DEF it
        <3> QED
            BY <2>4 DEF Solves
    <2>6. QED
        BY <2>5
<1>2. \A T \in SUBSET S : (\A U \in SUBSET T : U # T => U \in P) => T \in P
    BY <1>1
<1> HIDE DEF P
<1>3. \A T \in SUBSET S : T \in P
    BY <1>2, StrongSetInduction
<1>4. QED
    BY <1>3 DEF P

\* A sum takes one chosen member at a time.
LEMMA SumUnfolds ==
    ASSUME NEW fun, NEW S, IsFiniteSet(S)
    PROVE  SumFunctionOnSet(fun, S) =
               IF S = {} THEN 0
               ELSE fun[Chosen(S)] + SumFunctionOnSet(fun, S \ {Chosen(S)})
<1> DEFINE Of(T) == CHOOSE it : Solves(it, fun, T)
           R == S \ {Chosen(S)}
<1>1. \A T \in SUBSET S : Solves(Of(T), fun, T)
    BY SolutionExists
<1>2. \A T : SumFunctionOnSet(fun, T) = Of(T)[T]
    BY SumIsChosen
<1> HIDE DEF Of
<1>3. Solves(Of(S), fun, S) /\ Solves(Of(R), fun, R)
    BY <1>1
<1>4. Of(S)[S] = IF S = {} THEN 0 ELSE fun[Chosen(S)] + Of(S)[R]
    BY <1>3, Zenon DEF Solves
<1>5. Of(S)[R] = Of(R)[R]
    <2>1. R \in SUBSET S
        OBVIOUS
    <2>2. R \in SUBSET R
        OBVIOUS
    <2> HIDE DEF R
    <2>3. ASSUME NEW i, NEW j, Solves(i, fun, S), Solves(j, fun, R)
          PROVE  \A x \in SUBSET R : i[x] = j[x]
        BY <2>1, <2>3, SolutionsAgree
    <2>4. QED
        BY <1>3, <2>2, <2>3
<1>6. QED
    BY <1>2, <1>4, <1>5
-----------------------------------------------------------------------------
(* Sums *)

\* Nothing sums to zero.
LEMMA SumEmpty == ASSUME NEW fun PROVE SumFunctionOnSet(fun, {}) = 0
<1>1. IsFiniteSet({})
    BY FS_EmptySet
<1>2. QED
    BY <1>1, SumUnfolds

\* Sums of integers are integers.
LEMMA IntSums ==
    ASSUME NEW fun, NEW S, IsFiniteSet(S), \A x \in S : fun[x] \in Int
    PROVE  \A T \in SUBSET S : SumFunctionOnSet(fun, T) \in Int
<1> DEFINE P == {T \in SUBSET S : SumFunctionOnSet(fun, T) \in Int}
<1>1. ASSUME NEW T \in SUBSET S, \A U \in SUBSET T : U # T => U \in P
      PROVE  T \in P
    <2>1. IsFiniteSet(T)
        BY FS_Subset
    <2>2. SumFunctionOnSet(fun, T) =
              IF T = {} THEN 0 ELSE fun[Chosen(T)] + SumFunctionOnSet(fun, T \ {Chosen(T)})
        BY <2>1, SumUnfolds
    <2>3. CASE T = {}
        BY <2>2, <2>3
    <2>4. CASE T # {}
        <3>1. Chosen(T) \in T
            BY <2>4 DEF Chosen
        <3>2. T \ {Chosen(T)} \in P
            BY <1>1, <3>1
        <3>3. fun[Chosen(T)] \in Int
            BY <3>1
        <3>4. QED
            BY <2>2, <2>4, <3>2, <3>3
    <2>5. QED
        BY <2>3, <2>4
<1> HIDE DEF P
<1>2. \A T \in SUBSET S : (\A U \in SUBSET T : U # T => U \in P) => T \in P
    BY <1>1
<1>3. \A T \in SUBSET S : T \in P
    BY <1>2, StrongSetInduction
<1>4. QED
    BY <1>3 DEF P

\* The sum can take any member first.
LEMMA SumTakes ==
    ASSUME NEW fun, NEW S, IsFiniteSet(S), \A x \in S : fun[x] \in Int
    PROVE  \A x \in S : SumFunctionOnSet(fun, S) = fun[x] + SumFunctionOnSet(fun, S \ {x})
<1> DEFINE Sum(T) == SumFunctionOnSet(fun, T)
           P == {T \in SUBSET S : \A x \in T : Sum(T) = fun[x] + Sum(T \ {x})}
<1>a. \A T \in SUBSET S : Sum(T) \in Int
    BY IntSums
<1>b. \A T \in SUBSET S : Sum(T) = IF T = {} THEN 0 ELSE fun[Chosen(T)] + Sum(T \ {Chosen(T)})
    BY SumUnfolds, FS_Subset
<1> HIDE DEF Sum
<1>1. ASSUME NEW T \in SUBSET S, \A U \in SUBSET T : U # T => U \in P, NEW x \in T
      PROVE  Sum(T) = fun[x] + Sum(T \ {x})
    <2> DEFINE c == Chosen(T)
    <2>1. c \in T
        BY DEF Chosen
    <2>2. Sum(T) = fun[c] + Sum(T \ {c})
        BY <1>b, <2>1
    <2> HIDE DEF c
    <2>3. CASE x = c
        BY <2>2, <2>3
    <2>4. CASE x # c
        <3>1. T \ {c} \in P /\ T \ {x} \in P
            BY <1>1, <2>1
        <3>2. x \in T \ {c} /\ c \in T \ {x}
            BY <2>1, <2>4
        <3>3. Sum(T \ {c}) = fun[x] + Sum((T \ {c}) \ {x})
            BY <3>1, <3>2
        <3>4. Sum(T \ {x}) = fun[c] + Sum((T \ {x}) \ {c})
            BY <3>1, <3>2
        <3>5. (T \ {c}) \ {x} = (T \ {x}) \ {c} /\ (T \ {x}) \ {c} \in SUBSET S
            OBVIOUS
        <3>6. fun[x] \in Int /\ fun[c] \in Int /\ Sum((T \ {x}) \ {c}) \in Int
            BY <1>a, <2>1, <3>5
        <3>7. Sum((T \ {c}) \ {x}) = Sum((T \ {x}) \ {c})
            BY <3>5, Zenon
        <3>8. QED
            BY <2>2, <3>3, <3>4, <3>6, <3>7
    <2>5. QED
        BY <2>3, <2>4
<1>2. \A T \in SUBSET S : (\A U \in SUBSET T : U # T => U \in P) => T \in P
    BY <1>1
<1>3. \A T \in SUBSET S : T \in P
    <2> HIDE DEF P
    <2> QED
        BY <1>2, StrongSetInduction
<1>4. S \in P
    <2> HIDE DEF P
    <2> QED
        BY <1>3
<1>5. QED
    BY <1>4 DEF Sum

\* A new member adds its value.
LEMMA SumAdds ==
    ASSUME NEW fun, NEW S, NEW x, IsFiniteSet(S), x \notin S,
           \A y \in S \cup {x} : fun[y] \in Int
    PROVE  /\ SumFunctionOnSet(fun, S \cup {x}) = SumFunctionOnSet(fun, S) + fun[x]
           /\ SumFunctionOnSet(fun, S) \in Int
<1> DEFINE T == S \cup {x}
<1>1. IsFiniteSet(T)
    BY FS_AddElement
<1>2. T \ {x} = S /\ x \in T /\ S \in SUBSET T
    OBVIOUS
<1> HIDE DEF T
<1>3. \A y \in T : fun[y] \in Int
    BY DEF T
<1>4. SumFunctionOnSet(fun, T) = fun[x] + SumFunctionOnSet(fun, T \ {x})
    BY <1>1, <1>2, <1>3, SumTakes
<1>5. SumFunctionOnSet(fun, S) \in Int
    BY <1>1, <1>2, <1>3, IntSums
<1>6. fun[x] \in Int
    BY <1>2, <1>3
<1>7. SumFunctionOnSet(fun, T \ {x}) = SumFunctionOnSet(fun, S)
    BY <1>2, Zenon
<1>8. QED
    BY <1>4, <1>5, <1>6, <1>7 DEF T

\* Sums of natural numbers are natural numbers.
LEMMA NatSums ==
    ASSUME NEW fun, NEW S, IsFiniteSet(S), \A x \in S : fun[x] \in Nat
    PROVE  SumFunctionOnSet(fun, S) \in Nat
<1> DEFINE P == {T \in SUBSET S : SumFunctionOnSet(fun, T) \in Nat}
<1>1. {} \in P
    BY SumEmpty
<1>2. ASSUME NEW T \in SUBSET S, NEW x \in S \ T, T \in P
      PROVE  T \cup {x} \in P
    <2>1. IsFiniteSet(T)
        BY FS_Subset
    <2>2. \A y \in T \cup {x} : fun[y] \in Int
        OBVIOUS
    <2>3. SumFunctionOnSet(fun, T \cup {x}) = SumFunctionOnSet(fun, T) + fun[x]
        BY <2>1, <2>2, SumAdds
    <2>4. fun[x] \in Nat /\ SumFunctionOnSet(fun, T) \in Nat
        BY <1>2
    <2>5. QED
        BY <2>3, <2>4
<1> HIDE DEF P
<1>3. S \in P
    BY <1>1, <1>2, SetInduction
<1>4. QED
    BY <1>3 DEF P

\* Only the values on the set matter.
LEMMA SumSame ==
    ASSUME NEW f, NEW g, NEW S, IsFiniteSet(S), \A x \in S : f[x] \in Int /\ f[x] = g[x]
    PROVE  SumFunctionOnSet(f, S) = SumFunctionOnSet(g, S)
<1> DEFINE P == {T \in SUBSET S : SumFunctionOnSet(f, T) = SumFunctionOnSet(g, T)}
<1>1. {} \in P
    BY SumEmpty
<1>2. ASSUME NEW T \in SUBSET S, NEW x \in S \ T, T \in P
      PROVE  T \cup {x} \in P
    <2>1. IsFiniteSet(T)
        BY FS_Subset
    <2>2. SumFunctionOnSet(f, T \cup {x}) = SumFunctionOnSet(f, T) + f[x]
        BY <2>1, SumAdds
    <2>3. SumFunctionOnSet(g, T \cup {x}) = SumFunctionOnSet(g, T) + g[x]
        BY <2>1, SumAdds
    <2>4. QED
        BY <1>2, <2>2, <2>3
<1> HIDE DEF P
<1>3. S \in P
    BY <1>1, <1>2, SetInduction
<1>4. QED
    BY <1>3 DEF P

\* Sums over disjoint sets add up.
LEMMA SumSplits ==
    ASSUME NEW fun, NEW S, NEW T, IsFiniteSet(S), IsFiniteSet(T), S \cap T = {},
           \A x \in S \cup T : fun[x] \in Int
    PROVE  SumFunctionOnSet(fun, S \cup T) = SumFunctionOnSet(fun, S) + SumFunctionOnSet(fun, T)
<1> DEFINE Sum(U) == SumFunctionOnSet(fun, U)
           P == {U \in SUBSET T : Sum(S \cup U) = Sum(S) + Sum(U)}
<1>a. \A U \in SUBSET (S \cup T) : Sum(U) \in Int
    <2>1. IsFiniteSet(S \cup T)
        BY FS_Union
    <2>2. QED
        BY <2>1, IntSums
<1>1. {} \in P
    <2>1. Sum({}) = 0 /\ Sum(S) \in Int /\ S \cup {} = S
        BY <1>a, SumEmpty
    <2>2. QED
        BY <2>1
<1>2. ASSUME NEW U \in SUBSET T, NEW x \in T \ U, U \in P
      PROVE  U \cup {x} \in P
    <2>1. IsFiniteSet(U)
        BY FS_Subset
    <2>2. IsFiniteSet(S \cup U) /\ x \notin S \cup U
        BY <2>1, FS_Union
    <2>3. \A y \in (S \cup U) \cup {x} : fun[y] \in Int
        OBVIOUS
    <2>4. Sum((S \cup U) \cup {x}) = Sum(S \cup U) + fun[x]
        BY <2>2, <2>3, SumAdds
    <2>5. Sum(U \cup {x}) = Sum(U) + fun[x]
        BY <2>1, SumAdds
    <2>6. Sum(S) \in Int /\ Sum(U) \in Int /\ fun[x] \in Int
        BY <1>a
    <2>7. (S \cup U) \cup {x} = S \cup (U \cup {x})
        OBVIOUS
    <2> HIDE DEF Sum
    <2>8. Sum((S \cup U) \cup {x}) = Sum(S \cup (U \cup {x}))
        BY <2>7, Zenon
    <2>9. Sum(S \cup U) = Sum(S) + Sum(U)
        BY <1>2
    <2>10. Sum(S \cup (U \cup {x})) = Sum(S) + Sum(U \cup {x})
        BY <2>4, <2>5, <2>6, <2>8, <2>9
    <2>11. QED
        BY <2>10
<1> HIDE DEF P
<1>3. T \in P
    BY <1>1, <1>2, SetInduction
<1>4. QED
    BY <1>3 DEF P
\* A sum of values between 0 and a bound is at most the bound for each of those
\* that are not zero.
LEMMA SumBounded ==
    ASSUME NEW fun, NEW S, NEW b \in Nat, IsFiniteSet(S), \A x \in S : fun[x] \in 0..b
    PROVE  SumFunctionOnSet(fun, S) \in 0..(b * Cardinality({x \in S : fun[x] # 0}))
<1> DEFINE Sum(T) == SumFunctionOnSet(fun, T)
           Size(T) == Cardinality({x \in T : fun[x] # 0})
           P == {T \in SUBSET S : Sum(T) \in 0..(b * Size(T))}
<1>1. {} \in P
    <2>1. {x \in {} : fun[x] # 0} = {}
        OBVIOUS
    <2>2. Size({}) = 0
        BY <2>1, FS_EmptySet
    <2>3. Sum({}) = 0
        BY SumEmpty
    <2> HIDE DEF Sum, Size
    <2>4. QED
        BY <2>2, <2>3
<1>2. ASSUME NEW T \in SUBSET S, NEW x \in S \ T, T \in P
      PROVE  T \cup {x} \in P
    <2> DEFINE N == {y \in T : fun[y] # 0}
    <2>1. IsFiniteSet(T)
        BY FS_Subset
    <2>2. IsFiniteSet(N) /\ Cardinality(N) \in Nat
        <3>1. N \in SUBSET T
            OBVIOUS
        <3> HIDE DEF N
        <3>2. QED
            BY <2>1, <3>1, FS_Subset, FS_CardinalityType
    <2>3. Sum(T \cup {x}) = Sum(T) + fun[x] /\ Sum(T) \in Int
        <3>1. \A y \in T \cup {x} : fun[y] \in Int
            OBVIOUS
        <3>2. QED
            BY <2>1, <3>1, SumAdds
    <2>4. Sum(T) \in 0..(b * Cardinality(N))
        BY <1>2
    <2>5. fun[x] \in 0..b
        OBVIOUS
    <2>6. CASE fun[x] = 0
        <3>1. {y \in T \cup {x} : fun[y] # 0} = N
            BY <2>6
        <3>2. Sum(T \cup {x}) = Sum(T)
            BY <2>3, <2>6
        <3>3. Size(T \cup {x}) = Cardinality(N)
            BY <3>1
        <3> HIDE DEF Sum, Size, N
        <3>4. QED
            BY <2>4, <3>2, <3>3
    <2>7. CASE fun[x] # 0
        <3>1. {y \in T \cup {x} : fun[y] # 0} = N \cup {x} /\ x \notin N
            BY <2>7
        <3>2. Cardinality(N \cup {x}) = Cardinality(N) + 1
            <4> HIDE DEF N
            <4> QED
                BY <2>2, <3>1, FS_AddElement
        <3>3. Size(T \cup {x}) = Cardinality(N) + 1
            BY <3>1, <3>2
        <3> DEFINE n == Cardinality(N)
        <3>4. n \in Nat /\ b * (n + 1) = b * n + b
            BY <2>2
        <3> HIDE DEF Sum, Size, N
        <3>5. Sum(T \cup {x}) \in 0..(b * Size(T \cup {x}))
            <4>1. b * n \in Nat /\ Sum(T) \in 0..(b * n)
                BY <2>2, <2>4
            <4>2. Size(T \cup {x}) = n + 1
                BY <3>3
            <4>3. b * Size(T \cup {x}) = b * n + b
                BY <3>4, <4>2
            <4> HIDE DEF n
            <4>4. QED
                BY <2>3, <2>5, <4>1, <4>3
        <3>6. QED
            BY <3>5
    <2>8. QED
        BY <2>6, <2>7
<1> HIDE DEF P
<1>3. S \in P
    BY <1>1, <1>2, SetInduction
<1>4. QED
    BY <1>3 DEF P

\* Counting class by class counts everything.
LEMMA SumOfClasses ==
    ASSUME NEW A, NEW K, NEW key, NEW class, NEW count, IsFiniteSet(A), IsFiniteSet(K),
           \A a \in A : key[a] \in K,
           \A k \in K : class[k] \in SUBSET A /\ \A a \in A : a \in class[k] <=> key[a] = k,
           \A k \in K : count[k] = Cardinality(class[k])
    PROVE  SumFunctionOnSet(count, K) = Cardinality(A)
<1> DEFINE In(T) == {a \in A : key[a] \in T}
           P == {T \in SUBSET K : SumFunctionOnSet(count, T) = Cardinality(In(T))}
<1>a. \A T \in SUBSET A : IsFiniteSet(T) /\ Cardinality(T) \in Nat
    BY FS_Subset, FS_CardinalityType
<1>b. \A k \in K : count[k] \in Int
    BY <1>a
<1>1. {} \in P
    <2>1. In({}) = {}
        OBVIOUS
    <2> HIDE DEF In
    <2>2. Cardinality(In({})) = 0
        BY <2>1, FS_EmptySet
    <2>3. QED
        BY <2>2, SumEmpty
<1>2. ASSUME NEW T \in SUBSET K, NEW k \in K \ T, T \in P
      PROVE  T \cup {k} \in P
    <2>1. IsFiniteSet(T)
        BY FS_Subset
    <2>2. SumFunctionOnSet(count, T \cup {k}) = SumFunctionOnSet(count, T) + count[k]
        BY <1>b, <2>1, SumAdds
    <2>3. In(T \cup {k}) = In(T) \cup class[k] /\ In(T) \cap class[k] = {}
        OBVIOUS
    <2>4. In(T) \in SUBSET A /\ class[k] \in SUBSET A
        OBVIOUS
    <2>5. count[k] = Cardinality(class[k]) /\ SumFunctionOnSet(count, T) = Cardinality(In(T))
        BY <1>2
    <2>6. SumFunctionOnSet(count, T \cup {k}) = Cardinality(In(T \cup {k}))
        <3> HIDE DEF In
        <3>1. IsFiniteSet(In(T)) /\ IsFiniteSet(class[k])
            BY <1>a, <2>4
        <3>2. Cardinality(In(T) \cup class[k]) =
                  Cardinality(In(T)) + Cardinality(class[k]) - Cardinality(In(T) \cap class[k])
            BY <3>1, FS_Union
        <3>3. Cardinality(In(T) \cap class[k]) = 0
            BY <2>3, FS_EmptySet
        <3>4. Cardinality(In(T)) \in Nat /\ Cardinality(class[k]) \in Nat
            BY <1>a, <2>4
        <3>5. Cardinality(In(T \cup {k})) = Cardinality(In(T) \cup class[k])
            BY <2>3, Zenon
        <3>6. QED
            BY <2>2, <2>5, <3>2, <3>3, <3>4, <3>5
    <2>7. QED
        BY <2>6
<1> HIDE DEF P
<1>3. K \in P
    BY <1>1, <1>2, SetInduction
<1>4. In(K) = A
    OBVIOUS
<1>5. QED
    BY <1>3, <1>4 DEF P

-----------------------------------------------------------------------------
(* Least and greatest *)

\* A finite set of integers has a least and a greatest member.
LEMMA MinMax ==
    ASSUME NEW S, IsFiniteSet(S), S \subseteq Int, S # {}
    PROVE  /\ Min(S) \in S /\ \A y \in S : Min(S) <= y
           /\ Max(S) \in S /\ \A y \in S : y <= Max(S)
<1> DEFINE P == {T \in SUBSET S : T # {} =>
                    /\ \E m \in T : \A y \in T : m <= y
                    /\ \E m \in T : \A y \in T : m >= y}
<1>1. {} \in P
    OBVIOUS
<1>2. ASSUME NEW T \in SUBSET S, NEW x \in S \ T, T \in P
      PROVE  T \cup {x} \in P
    <2>1. CASE T = {}
        <3>1. T \cup {x} = {x} /\ x \in Int
            BY <2>1
        <3>2. QED
            BY <3>1
    <2>2. CASE T # {}
        <3>1. PICK m \in T : \A y \in T : m <= y
            BY <1>2, <2>2
        <3>2. PICK n \in T : \A y \in T : n >= y
            BY <1>2, <2>2
        <3>3. T \cup {x} \subseteq Int /\ m \in Int /\ n \in Int /\ x \in Int
            OBVIOUS
        <3>4. \E k \in T \cup {x} : \A y \in T \cup {x} : k <= y
            <4>1. CASE x <= m
                BY <3>1, <3>3, <4>1
            <4>2. CASE ~ (x <= m)
                BY <3>1, <3>3, <4>2
            <4>3. QED
                BY <4>1, <4>2
        <3>5. \E k \in T \cup {x} : \A y \in T \cup {x} : k >= y
            <4>1. CASE x >= n
                BY <3>2, <3>3, <4>1
            <4>2. CASE ~ (x >= n)
                BY <3>2, <3>3, <4>2
            <4>3. QED
                BY <4>1, <4>2
        <3>6. QED
            BY <3>4, <3>5
    <2>3. QED
        BY <2>1, <2>2
<1> HIDE DEF P
<1>3. S \in P
    BY <1>1, <1>2, SetInduction
<1>4. /\ \E m \in S : \A y \in S : m <= y
      /\ \E m \in S : \A y \in S : m >= y
    BY <1>3 DEF P
<1>5. Min(S) \in S /\ \A y \in S : Min(S) <= y
    BY <1>4 DEF Min
<1>6. Max(S) \in S /\ \A y \in S : Max(S) >= y
    BY <1>4 DEF Max
<1>7. QED
    BY <1>5, <1>6

\* What is in a set and nowhere exceeded is its extremum.
LEMMA MinMaxUnique ==
    ASSUME NEW S, NEW m, S \subseteq Int, m \in S
    PROVE  /\ (\A y \in S : m <= y) => Min(S) = m
           /\ (\A y \in S : m >= y) => Max(S) = m
<1>1. ASSUME \A y \in S : m <= y PROVE Min(S) = m
    <2>1. Min(S) \in S /\ \A y \in S : Min(S) <= y
        BY <1>1 DEF Min
    <2>2. m <= Min(S) /\ Min(S) <= m /\ m \in Int /\ Min(S) \in Int
        BY <1>1, <2>1
    <2>3. QED
        BY <2>2
<1>2. ASSUME \A y \in S : m >= y PROVE Max(S) = m
    <2>1. Max(S) \in S /\ \A y \in S : Max(S) >= y
        BY <1>2 DEF Max
    <2>2. m >= Max(S) /\ Max(S) >= m /\ m \in Int /\ Max(S) \in Int
        BY <1>2, <2>1
    <2>3. QED
        BY <2>2
<1>3. QED
    BY <1>1, <1>2

\* The extrema of a union are extrema of the extrema.
LEMMA MinMaxUnion ==
    ASSUME NEW S, NEW T, IsFiniteSet(S), IsFiniteSet(T), S \subseteq Int, T \subseteq Int,
           S # {}, T # {}
    PROVE  /\ Min(S \cup T) = IF Min(T) < Min(S) THEN Min(T) ELSE Min(S)
           /\ Max(S \cup T) = IF Max(T) > Max(S) THEN Max(T) ELSE Max(S)
<1>1. /\ Min(S) \in S /\ \A y \in S : Min(S) <= y
      /\ Max(S) \in S /\ \A y \in S : y <= Max(S)
    BY MinMax
<1>2. /\ Min(T) \in T /\ \A y \in T : Min(T) <= y
      /\ Max(T) \in T /\ \A y \in T : y <= Max(T)
    BY MinMax
<1> DEFINE m == IF Min(T) < Min(S) THEN Min(T) ELSE Min(S)
           n == IF Max(T) > Max(S) THEN Max(T) ELSE Max(S)
<1>3. m \in S \cup T /\ \A y \in S \cup T : m <= y
    <2>1. Min(S) \in Int /\ Min(T) \in Int
        BY <1>1, <1>2
    <2>2. \A y \in S \cup T : y \in Int
        OBVIOUS
    <2>3. m \in S \cup T
        BY <1>1, <1>2
    <2>4. ASSUME NEW y \in S \cup T PROVE m <= y
        <3>1. Min(S) <= y \/ Min(T) <= y
            BY <1>1, <1>2
        <3>2. QED
            BY <2>1, <2>2, <3>1
    <2>5. QED
        BY <2>3, <2>4
<1>4. n \in S \cup T /\ \A y \in S \cup T : n >= y
    <2>1. Max(S) \in Int /\ Max(T) \in Int
        BY <1>1, <1>2
    <2>2. \A y \in S \cup T : y \in Int
        OBVIOUS
    <2>3. n \in S \cup T
        BY <1>1, <1>2
    <2>4. ASSUME NEW y \in S \cup T PROVE n >= y
        <3>1. y <= Max(S) \/ y <= Max(T)
            BY <1>1, <1>2
        <3>2. QED
            BY <2>1, <2>2, <3>1
    <2>5. QED
        BY <2>3, <2>4
<1>5. S \cup T \subseteq Int
    OBVIOUS
<1> HIDE DEF m, n
<1>6. Min(S \cup T) = m /\ Max(S \cup T) = n
    BY <1>3, <1>4, <1>5, MinMaxUnique
<1>7. QED
    BY <1>6 DEF m, n
=============================================================================
