---------------------------- MODULE SnapshotProofs ----------------------------
(***************************************************************************)
(* Proofs about Snapshot, for any finite history of activities.  Each loop *)
(* keeps to the summary of the rows it has seen (SnapshotInv): a row that  *)
(* stands for some activities joins their bucket, and whether it stands    *)
(* for one or for a whole group makes no difference (AddSummarises).  So   *)
(* both loops end with the outcome of the same history, in any order of    *)
(* their rows, and what is said of a snapshot is a matter of sums over     *)
(* classes of activities and of the extrema of their dates.                *)
(***************************************************************************)
EXTENDS Snapshot, FiniteSums

-----------------------------------------------------------------------------
(* Rows *)

Dates(ids) == {stored[i].occurred_at : i \in ids}
Timed(ids) == {i \in ids : stored[i].minutes_spent # None}
Stored == stored \in [Record -> Activity]

\* There are finitely many rows.
LEMMA RowsFinite ==
    ASSUME NEW ids \in SUBSET Record
    PROVE  IsFiniteSet(ids) /\ Cardinality(ids) \in Nat
    BY SnapshotAssumption, FS_Subset, FS_CardinalityType

\* Disjoint sets together have as many members as both.
LEMMA DisjointSize ==
    ASSUME NEW S, NEW T, IsFiniteSet(S), IsFiniteSet(T), S \cap T = {}
    PROVE  /\ IsFiniteSet(S \cup T)
           /\ Cardinality(S \cup T) = Cardinality(S) + Cardinality(T)
<1>1. /\ IsFiniteSet(S \cup T)
      /\ Cardinality(S \cup T) =
             Cardinality(S) + Cardinality(T) - Cardinality(S \cap T)
    BY FS_Union
<1>2. Cardinality(S \cap T) = 0
    <2>1. Cardinality({}) = 0
        BY FS_EmptySet
    <2>2. QED
        BY <2>1, Zenon
<1>3. Cardinality(S) \in Nat /\ Cardinality(T) \in Nat
    BY FS_CardinalityType
<1>4. QED
    BY <1>1, <1>2, <1>3

\* What a row holds.
LEMMA RowTypes ==
    ASSUME Stored, NEW i \in Record
    PROVE  /\ stored[i].topic \in Topic \cup Retired
           /\ stored[i].difficulty \in Difficulty /\ stored[i].outcome \in OUTCOMES
           /\ stored[i].minutes_spent # None => stored[i].minutes_spent \in Nat \ {0}
           /\ stored[i].occurred_at \in Nat
    BY SnapshotAssumption DEF Stored, Activity

\* Rows have finitely many dates, and any if there are rows.
LEMMA DatesFinite ==
    ASSUME Stored, NEW ids \in SUBSET Record
    PROVE  /\ IsFiniteSet(Dates(ids)) /\ Dates(ids) \subseteq Int /\ Dates(ids) \subseteq Nat
           /\ ids = {} <=> Dates(ids) = {}
           /\ None \notin Dates(ids)
<1> DEFINE f == [i \in Record |-> stored[i].occurred_at]
<1>1. Dates(ids) = {f[i] : i \in ids}
    BY DEF Dates
<1>2. IsFiniteSet({f[i] : i \in ids})
    <2> HIDE DEF f
    <2>1. QED
        BY RowsFinite, ImageSize
<1>3. Dates(ids) \subseteq Nat /\ Dates(ids) \subseteq Int
    BY RowTypes DEF Dates
<1>4. None \notin Dates(ids)
    BY <1>3, SnapshotAssumption
<1>5. ids = {} <=> Dates(ids) = {}
    BY DEF Dates
<1>6. IsFiniteSet(Dates(ids))
    BY <1>1, <1>2, Zenon
<1>7. QED
    BY <1>3, <1>4, <1>5, <1>6

\* The first and the last date of some rows, taken together with those of more.
LEMMA DatesAdd ==
    ASSUME Stored, NEW ids \in SUBSET Record, NEW more \in SUBSET Record, more # {}
    PROVE  /\ Earlier(IF ids = {} THEN None ELSE Min(Dates(ids)), Min(Dates(more)))
                  = Min(Dates(ids \cup more))
           /\ Later(IF ids = {} THEN None ELSE Max(Dates(ids)), Max(Dates(more)))
                  = Max(Dates(ids \cup more))
<1> DEFINE D == Dates(ids)
           E == Dates(more)
<1>1. /\ IsFiniteSet(D) /\ D \subseteq Int /\ (ids = {} <=> D = {}) /\ None \notin D
      /\ IsFiniteSet(E) /\ E \subseteq Int /\ E # {}
    BY DatesFinite
<1>2. Dates(ids \cup more) = D \cup E
    BY DEF Dates
<1> HIDE DEF D, E
<1>3. CASE ids = {}
    <2>1. D \cup E = E
        BY <1>1, <1>3
    <2>2. Earlier(None, Min(E)) = Min(E) /\ Later(None, Max(E)) = Max(E)
        BY DEF Earlier, Later
    <2>3. Min(D \cup E) = Min(E) /\ Max(D \cup E) = Max(E)
        BY <2>1, Zenon
    <2>4. QED
        BY <1>2, <1>3, <2>2, <2>3 DEF D, E
<1>4. CASE ids # {}
    <2>1. D # {}
        BY <1>1, <1>4
    <2>2. Min(D) \in D /\ Max(D) \in D
        BY <1>1, <2>1, MinMax
    <2>3. /\ Min(D \cup E) = IF Min(E) < Min(D) THEN Min(E) ELSE Min(D)
          /\ Max(D \cup E) = IF Max(E) > Max(D) THEN Max(E) ELSE Max(D)
        BY <1>1, <2>1, MinMaxUnion
    <2>4. Earlier(Min(D), Min(E)) = Min(D \cup E) /\ Later(Max(D), Max(E)) = Max(D \cup E)
        BY <1>1, <2>2, <2>3 DEF Earlier, Later
    <2>5. QED
        BY <1>2, <1>4, <2>4 DEF D, E
<1>5. QED
    BY <1>3, <1>4

\* The minutes of rows are a sum over those that have any.
LEMMA MinutesAreSums ==
    ASSUME Stored, NEW ids \in SUBSET Record
    PROVE  /\ MinutesOf(ids).sum =
                  SumFunctionOnSet([i \in Record |-> stored[i].minutes_spent], Timed(ids))
           /\ MinutesOf(ids).number = Cardinality(Timed(ids))
           /\ IsFiniteSet(Timed(ids))
           /\ \A i \in Timed(ids) : [j \in Record |-> stored[j].minutes_spent][i] \in Int
<1> DEFINE T == Timed(ids)
           f == [i \in Record |-> stored[i].minutes_spent]
           g == [i \in T |-> stored[i].minutes_spent]
<1>1. IsFiniteSet(T) /\ T \in SUBSET Record
    BY RowsFinite DEF Timed
<1>2. \A i \in T : f[i] \in Int /\ g[i] \in Int /\ g[i] = f[i]
    BY RowTypes DEF Timed
<1>3. SumFunctionOnSet(g, T) = SumFunctionOnSet(f, T)
    <2> HIDE DEF f, g, T
    <2>1. QED
        BY <1>1, <1>2, SumSame
<1>4. MinutesOf(ids) = [sum |-> SumFunction(g), number |-> Cardinality(T)]
    BY DEF MinutesOf, Timed
<1>5. SumFunction(g) = SumFunctionOnSet(g, T)
    BY DEF SumFunction
<1>6. QED
    BY <1>1, <1>2, <1>3, <1>4, <1>5

\* Minutes of disjoint rows add up.
LEMMA MinutesAdd ==
    ASSUME Stored, NEW ids \in SUBSET Record, NEW more \in SUBSET Record, ids \cap more = {}
    PROVE  /\ MinutesOf(ids \cup more).sum = MinutesOf(ids).sum + MinutesOf(more).sum
           /\ MinutesOf(ids \cup more).number = MinutesOf(ids).number + MinutesOf(more).number
<1> DEFINE f == [i \in Record |-> stored[i].minutes_spent]
           S == Timed(ids)
           T == Timed(more)
<1>1. Timed(ids \cup more) = S \cup T /\ S \cap T = {} /\ ids \cup more \in SUBSET Record
    BY DEF Timed
<1>2. /\ MinutesOf(ids).sum = SumFunctionOnSet(f, S)
      /\ MinutesOf(more).sum = SumFunctionOnSet(f, T)
      /\ MinutesOf(ids \cup more).sum = SumFunctionOnSet(f, S \cup T)
    BY <1>1, MinutesAreSums
<1>3. /\ MinutesOf(ids).number = Cardinality(S)
      /\ MinutesOf(more).number = Cardinality(T)
      /\ MinutesOf(ids \cup more).number = Cardinality(S \cup T)
    BY <1>1, MinutesAreSums
<1>4. /\ IsFiniteSet(S) /\ IsFiniteSet(T)
      /\ \A i \in S \cup T : f[i] \in Int
    BY <1>1, MinutesAreSums
<1> HIDE DEF f, S, T
<1>5. SumFunctionOnSet(f, S \cup T) = SumFunctionOnSet(f, S) + SumFunctionOnSet(f, T)
    BY <1>1, <1>4, SumSplits
<1>6. Cardinality(S \cup T) = Cardinality(S) + Cardinality(T)
    BY <1>1, <1>4, DisjointSize
<1>7. QED
    BY <1>2, <1>3, <1>5, <1>6

-----------------------------------------------------------------------------
(* Buckets *)

Key == Difficulty \X OUTCOMES
LevelOf(i) == <<stored[i].difficulty, stored[i].outcome>>
Level(ids, k) == {i \in ids : LevelOf(i) = k}
Number(ids) == [k \in Key |-> Cardinality(Level(ids, k))]

\* The parts of a summary.
LEMMA SummaryParts ==
    ASSUME NEW ids
    PROVE  Summary(ids) =
               [counts |-> Number(ids), minutes_recorded |-> MinutesOf(ids).sum,
                activities_with_minutes |-> MinutesOf(ids).number,
                first_at |-> IF ids = {} THEN None ELSE Min(Dates(ids)),
                last_at |-> IF ids = {} THEN None ELSE Max(Dates(ids))]
    BY DEF Summary, Number, Key, Level, LevelOf, Dates

\* A row stands for some records of one topic, difficulty and outcome.
StandsFor(row, more) ==
    /\ more # {}
    /\ row.topic \in Topic /\ \A i \in more : stored[i].topic = row.topic
    /\ <<row.difficulty, row.outcome>> \in Key
    /\ \A i \in more : LevelOf(i) = <<row.difficulty, row.outcome>>
    /\ row.count = Cardinality(more)
    /\ row.minutes = MinutesOf(more).sum /\ row.with_minutes = MinutesOf(more).number
    /\ row.first_at = Min(Dates(more)) /\ row.last_at = Max(Dates(more))

\* The bucket of some records and a row for others is the bucket of all of them.
LEMMA AddSummarises ==
    ASSUME Stored, NEW ids \in SUBSET Record, NEW more \in SUBSET Record, ids \cap more = {},
           NEW row, StandsFor(row, more)
    PROVE  Add(Summary(ids), row) = Summary(ids \cup more)
<1> DEFINE key == <<row.difficulty, row.outcome>>
           all == ids \cup more
<1>1. Number(all) = [Number(ids) EXCEPT ![key] = @ + row.count]
    <2>1. \A S \in SUBSET Record : IsFiniteSet(S)
        BY RowsFinite
    <2>2. Level(all, key) = Level(ids, key) \cup more
        BY DEF Level, StandsFor
    <2>3. Cardinality(Level(all, key)) = Cardinality(Level(ids, key)) + Cardinality(more)
        <3>1. Level(ids, key) \in SUBSET Record /\ Level(ids, key) \cap more = {}
            BY DEF Level
        <3>2. Cardinality(Level(ids, key) \cup more)
                  = Cardinality(Level(ids, key)) + Cardinality(more)
            BY <2>1, <3>1, DisjointSize
        <3>3. QED
            BY <2>2, <3>2
    <2>4. ASSUME NEW k \in Key, k # key PROVE Level(all, k) = Level(ids, k)
        BY <2>4 DEF Level, StandsFor
    <2>5. ASSUME NEW k \in Key, k # key
          PROVE  Cardinality(Level(all, k)) = Cardinality(Level(ids, k))
        BY <2>4, <2>5, Zenon
    <2>6. key \in Key /\ row.count = Cardinality(more)
        BY DEF StandsFor
    <2> HIDE DEF key, all
    <2>7. QED
        BY <2>3, <2>5, <2>6 DEF Number
<1>2. /\ MinutesOf(all).sum = MinutesOf(ids).sum + row.minutes
      /\ MinutesOf(all).number = MinutesOf(ids).number + row.with_minutes
    BY MinutesAdd DEF StandsFor
<1>3. /\ Earlier(IF ids = {} THEN None ELSE Min(Dates(ids)), row.first_at) = Min(Dates(all))
      /\ Later(IF ids = {} THEN None ELSE Max(Dates(ids)), row.last_at) = Max(Dates(all))
    BY DatesAdd DEF StandsFor
<1>4. all # {}
    BY DEF StandsFor
<1> HIDE DEF all
<1>5. Summary(all) = [counts |-> Number(all), minutes_recorded |-> MinutesOf(all).sum,
                      activities_with_minutes |-> MinutesOf(all).number,
                      first_at |-> Min(Dates(all)), last_at |-> Max(Dates(all))]
    BY <1>4, SummaryParts
<1>6. Add(Summary(ids), row) =
          [counts |-> [Number(ids) EXCEPT ![key] = @ + row.count],
           minutes_recorded |-> MinutesOf(ids).sum + row.minutes,
           activities_with_minutes |-> MinutesOf(ids).number + row.with_minutes,
           first_at |-> Earlier(IF ids = {} THEN None ELSE Min(Dates(ids)), row.first_at),
           last_at |-> Later(IF ids = {} THEN None ELSE Max(Dates(ids)), row.last_at)]
    BY SummaryParts DEF Add
<1>7. Add(Summary(ids), row) = Summary(all)
    BY <1>1, <1>2, <1>3, <1>5, <1>6
<1>8. QED
    BY <1>7 DEF all

\* Of some records, and a row for others, all topics' buckets.
LEMMA AddToSummaries ==
    ASSUME Stored, NEW ids \in SUBSET Record, NEW more \in SUBSET Record, ids \cap more = {},
           NEW row, StandsFor(row, more)
    PROVE  [Summaries(ids) EXCEPT ![row.topic] = Add(@, row)] = Summaries(ids \cup more)
<1> DEFINE t == row.topic
           all == ids \cup more
<1>1. t \in Topic /\ \A i \in more : stored[i].topic = t
    BY DEF StandsFor
<1>2. About(t, all) = About(t, ids) \cup more
    BY <1>1 DEF About
<1>3. Add(Summary(About(t, ids)), row) = Summary(About(t, all))
    <2>1. About(t, ids) \in SUBSET Record /\ About(t, ids) \cap more = {}
        BY DEF About
    <2>2. Add(Summary(About(t, ids)), row) = Summary(About(t, ids) \cup more)
        BY <2>1, AddSummarises
    <2>3. QED
        BY <1>2, <2>2
<1>4. ASSUME NEW u \in Topic, u # t PROVE Summary(About(u, all)) = Summary(About(u, ids))
    <2>1. About(u, all) = About(u, ids)
        BY <1>1, <1>4 DEF About
    <2>2. QED
        BY <2>1
<1> HIDE DEF t, all
<1>5. [Summaries(ids) EXCEPT ![t] = Add(@, row)] = Summaries(all)
    BY <1>1, <1>3, <1>4 DEF Summaries
<1>6. QED
    BY <1>5 DEF t, all

\* An activity stands for itself.
LEMMA ActivityStandsForItself ==
    ASSUME Stored, NEW i \in Record, stored[i].topic \in Topic
    PROVE  StandsFor(AsRow(stored[i]), {i})
<1> DEFINE a == stored[i]
           row == AsRow(a)
<1>1. /\ row.topic = a.topic /\ row.difficulty = a.difficulty /\ row.outcome = a.outcome
      /\ row.count = 1 /\ row.first_at = a.occurred_at /\ row.last_at = a.occurred_at
      /\ row.minutes = (IF a.minutes_spent = None THEN 0 ELSE a.minutes_spent)
      /\ row.with_minutes = (IF a.minutes_spent = None THEN 0 ELSE 1)
    BY DEF AsRow
<1>2. IsFiniteSet({i}) /\ Cardinality({i}) = 1
    BY FS_Singleton
<1>3. Dates({i}) = {a.occurred_at} /\ a.occurred_at \in Int
    BY RowTypes DEF Dates
<1>4. Min(Dates({i})) = a.occurred_at /\ Max(Dates({i})) = a.occurred_at
    <2>1. \A m \in Int : Min({m}) = m /\ Max({m}) = m
        BY MinMaxUnique
    <2>2. QED
        BY <1>3, <2>1, Zenon
<1> DEFINE f == [j \in Record |-> stored[j].minutes_spent]
<1>5. /\ MinutesOf({i}).sum = SumFunctionOnSet(f, Timed({i}))
      /\ MinutesOf({i}).number = Cardinality(Timed({i}))
    BY MinutesAreSums
<1>6. MinutesOf({i}).sum = row.minutes /\ MinutesOf({i}).number = row.with_minutes
    <2>1. CASE a.minutes_spent = None
        <3>1. Timed({i}) = {}
            BY <2>1 DEF Timed
        <3>2. SumFunctionOnSet(f, {}) = 0 /\ Cardinality({}) = 0
            <4> HIDE DEF f
            <4>1. QED
                BY SumEmpty, FS_EmptySet
        <3>3. SumFunctionOnSet(f, Timed({i})) = 0 /\ Cardinality(Timed({i})) = 0
            BY <3>1, <3>2, Zenon
        <3>4. QED
            BY <1>1, <1>5, <2>1, <3>3
    <2>2. CASE a.minutes_spent # None
        <3>1. Timed({i}) = {} \cup {i} /\ Timed({i}) = {i}
            BY <2>2 DEF Timed
        <3>2. f[i] = a.minutes_spent /\ f[i] \in Int
            BY <2>2, RowTypes
        <3>3. SumFunctionOnSet(f, {} \cup {i}) = SumFunctionOnSet(f, {}) + f[i]
            <4>1. IsFiniteSet({}) /\ i \notin {} /\ \A y \in {} \cup {i} : f[y] \in Int
                BY <3>2, FS_EmptySet
            <4> HIDE DEF f
            <4>2. QED
                BY <4>1, SumAdds
        <3>4. SumFunctionOnSet(f, {}) = 0
            <4> HIDE DEF f
            <4>1. QED
                BY SumEmpty
        <3>5. SumFunctionOnSet(f, Timed({i})) = SumFunctionOnSet(f, {} \cup {i})
            BY <3>1, Zenon
        <3>6. SumFunctionOnSet(f, Timed({i})) = a.minutes_spent
            <4> HIDE DEF f
            <4>1. QED
                BY <3>2, <3>3, <3>4, <3>5
        <3>7. Cardinality(Timed({i})) = 1
            BY <1>2, <3>1, Zenon
        <3>8. QED
            BY <1>1, <1>5, <2>2, <3>6, <3>7
    <2>3. QED
        BY <2>1, <2>2
<1>7. <<row.difficulty, row.outcome>> \in Key /\ LevelOf(i) = <<row.difficulty, row.outcome>>
    BY <1>1, RowTypes DEF Key, LevelOf
<1>8. {i} # {} /\ \A j \in {i} : j = i
    OBVIOUS
<1> HIDE DEF row, f
<1>9. StandsFor(row, {i})
    BY <1>1, <1>2, <1>4, <1>6, <1>7, <1>8 DEF StandsFor
<1>10. QED
    BY <1>9 DEF row

\* A row of the GROUP BY stands for its group.
LEMMA GroupStandsForItsRows ==
    ASSUME Stored, NEW g \in {KeyOf(i) : i \in Visible}, g[1] \in Topic
    PROVE  StandsFor(Row(g), {i \in Visible : KeyOf(i) = g})
<1> DEFINE ids == {i \in Visible : KeyOf(i) = g}
           row == Row(g)
<1>1. row = [topic |-> g[1], difficulty |-> g[2], outcome |-> g[3], count |-> Cardinality(ids),
             minutes |-> MinutesOf(ids).sum, with_minutes |-> MinutesOf(ids).number,
             first_at |-> Min(Dates(ids)), last_at |-> Max(Dates(ids))]
    BY DEF Row, Dates
<1>2. PICK i \in Visible : g = KeyOf(i)
    OBVIOUS
<1>3. i \in Record /\ i \in ids
    BY <1>2 DEF Visible
<1>4. \A j \in ids : /\ stored[j].topic = g[1]
                     /\ stored[j].difficulty = g[2] /\ stored[j].outcome = g[3]
    BY DEF KeyOf
<1>5. <<g[2], g[3]>> \in Key
    BY <1>3, <1>4, RowTypes DEF Key
<1> HIDE DEF ids
<1>6. StandsFor(row, ids)
    BY <1>1, <1>3, <1>4, <1>5 DEF StandsFor, LevelOf
<1>7. QED
    BY <1>6 DEF ids

-----------------------------------------------------------------------------
(* The loops *)

\* No rows, empty buckets.
LEMMA NoRowsNoBuckets == Summaries({}) = NoBuckets
<1>1. \A t \in Topic : About(t, {}) = {}
    BY DEF About
<1>2. Number({}) = [k \in Difficulty \X OUTCOMES |-> 0]
    <2>1. \A k \in Key : Level({}, k) = {}
        BY DEF Level
    <2>2. Cardinality({}) = 0
        BY FS_EmptySet
    <2>3. \A k \in Key : Cardinality(Level({}, k)) = 0
        BY <2>1, <2>2, Zenon
    <2>4. QED
        BY <2>3 DEF Number, Key
<1>3. MinutesOf({}).sum = 0 /\ MinutesOf({}).number = 0
    <2> DEFINE T == {i \in {} : stored[i].minutes_spent # None}
               f == [i \in T |-> stored[i].minutes_spent]
    <2>1. T = {}
        OBVIOUS
    <2>2. MinutesOf({}) = [sum |-> SumFunction(f), number |-> Cardinality(T)]
        BY DEF MinutesOf
    <2>3. SumFunction(f) = SumFunctionOnSet(f, T)
        BY DEF SumFunction
    <2> HIDE DEF T, f
    <2>4. SumFunctionOnSet(f, T) = SumFunctionOnSet(f, {}) /\ Cardinality(T) = Cardinality({})
        BY <2>1, Zenon
    <2>5. QED
        BY <2>2, <2>3, <2>4, SumEmpty, FS_EmptySet
<1>4. Summary({}) = EmptyBucket
    BY <1>2, <1>3, SummaryParts DEF EmptyBucket
<1>5. \A t \in Topic : Summary(About(t, {})) = EmptyBucket
    BY <1>1, <1>4, Zenon
<1>6. QED
    BY <1>5 DEF Summaries, NoBuckets

\* What holds at first.
LEMMA SnapshotInit == Init => SnapshotInv
<1> SUFFICES ASSUME Init PROVE SnapshotInv
    OBVIOUS
<1>1. Seen = {}
    BY DEF Init, Seen, Visible
<1>2. buckets = Summaries(Seen)
    BY <1>1, NoRowsNoBuckets, Zenon DEF Init
<1>3. QED
    BY <1>1, <1>2 DEF Init, SnapshotInv

\* A loop that ends as it must hands over to the other one, which has seen nothing.
LEMMA FinishKeeps ==
    ASSUME SnapshotInv, phase # "done", Finish(Outcome)
    PROVE  SnapshotInv'
<1>1. stored' = stored /\ buckets' = NoBuckets
    BY DEF Finish
<1>2. Visible' = Visible /\ Outcome' = Outcome
    <2>1. Visible' = Visible
        BY <1>1 DEF Visible
    <2>2. QED
        BY <1>1, <2>1 DEF Outcome, Summaries, Summary, About, MinutesOf
<1>3. built' = [built EXCEPT ![phase] = Outcome] /\ phase \in {"records", "groups"}
    BY DEF Finish, SnapshotInv
<1>4. built' = [p \in {"records", "groups"} |->
                   IF phase' = "done" \/ (phase' = "groups" /\ p = "records") THEN Outcome
                   ELSE None]
    BY <1>3 DEF SnapshotInv, Finish
<1>5. CASE phase = "records"
    <2>1. phase' = "groups" /\ todo' = {KeyOf(i) : i \in Visible}
        BY <1>5 DEF Finish
    <2>2. todo' = {KeyOf(i) : i \in Visible}' /\ \A i : KeyOf(i)' = KeyOf(i)
        BY <1>1, <1>2, <2>1 DEF KeyOf
    <2>3. Seen' = {}
        BY <1>2, <2>1, <2>2 DEF Seen
    <2>4. Summaries(Seen)' = NoBuckets
        <3>1. Summaries({})' = NoBuckets
            <4>1. Summaries({})' = Summaries({})
                BY <1>1 DEF Summaries, Summary, About, MinutesOf
            <4>2. QED
                BY <4>1, NoRowsNoBuckets
        <3>2. Summaries(Seen)' = Summaries({})'
            BY <2>3 DEF Summaries, Summary, About, MinutesOf
        <3>3. QED
            BY <3>1, <3>2
    <2>5. QED
        BY <1>1, <1>2, <1>4, <2>1, <2>2, <2>3, <2>4 DEF SnapshotInv
<1>6. CASE phase = "groups"
    <2>1. phase' = "done" /\ todo' = {}
        BY <1>6 DEF Finish
    <2>2. QED
        BY <1>1, <1>2, <1>4, <2>1 DEF SnapshotInv
<1>7. QED
    BY <1>3, <1>5, <1>6

\* A row that stands for records that were not seen joins its bucket.
LEMMA AccumulateKeeps ==
    ASSUME SnapshotInv, phase # "done", NEW x, NEW more \in SUBSET Visible, NEW row,
           StandsFor(row, more), Accumulate(x, row), x \in todo,
           \A i \in Visible : i \in more <=> (IF phase = "records" THEN i ELSE KeyOf(i)) = x
    PROVE  SnapshotInv'
<1>1. /\ buckets' = [buckets EXCEPT ![row.topic] = Add(@, row)]
      /\ todo' = todo \ {x} /\ stored' = stored /\ phase' = phase /\ built' = built
    BY DEF Accumulate
<1>2. Visible' = Visible /\ Outcome' = Outcome /\ \A i : KeyOf(i)' = KeyOf(i)
    <2>1. Visible' = Visible
        BY <1>1 DEF Visible
    <2>2. QED
        BY <1>1, <2>1 DEF Outcome, Summaries, Summary, About, MinutesOf, KeyOf
<1>3. Seen \cap more = {} /\ Seen' = Seen \cup more
    BY <1>1, <1>2 DEF Seen
<1>4. buckets = Summaries(Seen) /\ Stored
    BY DEF SnapshotInv, Stored
<1>5. Seen \in SUBSET Record /\ more \in SUBSET Record
    BY DEF Seen, Visible
<1>6. [Summaries(Seen) EXCEPT ![row.topic] = Add(@, row)] = Summaries(Seen \cup more)
    BY <1>3, <1>4, <1>5, AddToSummaries
<1>7. buckets' = Summaries(Seen \cup more)
    BY <1>1, <1>4, <1>6
<1>8. Summaries(Seen)' = Summaries(Seen \cup more)
    BY <1>1, <1>3 DEF Summaries, Summary, About, MinutesOf
<1>9. \A i \in Seen' : stored'[i].topic \in Topic
    BY <1>1, <1>3 DEF SnapshotInv, StandsFor
<1>10. QED
    BY <1>1, <1>2, <1>7, <1>8, <1>9 DEF SnapshotInv

\* Whatever row comes next, the loop keeps to the summary of what it has seen.
LEMMA SnapshotStep ==
    ASSUME SnapshotInv, [Next]_vars
    PROVE  SnapshotInv'
<1>1. Stored /\ Visible \subseteq Record
    BY DEF SnapshotInv, Stored, Visible
<1>2. ASSUME NEW i \in Record, SkipLater(i) PROVE SnapshotInv'
    <2>1. /\ todo' = todo \ {i} /\ phase = "records" /\ i \notin Visible
          /\ UNCHANGED <<stored, buckets, phase, built>>
        <3>1. stored[i].occurred_at \in Nat /\ AsOf \in Nat
            BY <1>1, RowTypes, SnapshotAssumption
        <3>2. QED
            BY <1>2, <3>1 DEF SkipLater, Visible
    <2>2. Visible' = Visible
        BY <2>1 DEF Visible
    <2>3. Seen' = Seen
        BY <2>1, <2>2 DEF Seen
    <2>4. Summaries(Seen)' = Summaries(Seen) /\ Outcome' = Outcome
        BY <2>1, <2>2, <2>3 DEF Outcome, Summaries, Summary, About, MinutesOf
    <2>5. QED
        BY <2>1, <2>3, <2>4 DEF SnapshotInv
<1>3. ASSUME NEW i \in Record, AddActivity(i) PROVE SnapshotInv'
    <2>1. /\ phase = "records" /\ i \in todo /\ i \in Visible
          /\ stored[i].topic \in Topic /\ Accumulate(i, AsRow(stored[i]))
        BY <1>3 DEF AddActivity, Visible
    <2>2. StandsFor(AsRow(stored[i]), {i})
        BY <1>1, <2>1, ActivityStandsForItself
    <2>3. {i} \in SUBSET Visible /\ \A j \in Visible : j \in {i} <=> j = i
        BY <2>1
    <2>4. QED
        BY <2>1, <2>2, <2>3, AccumulateKeeps
<1>4. ASSUME NEW g \in Group, AddGroup(g) PROVE SnapshotInv'
    <2>1. phase = "groups" /\ g \in todo /\ g[1] \in Topic /\ Accumulate(g, Row(g))
        BY <1>4 DEF AddGroup
    <2>2. g \in {KeyOf(i) : i \in Visible}
        BY <2>1 DEF SnapshotInv
    <2> DEFINE more == {i \in Visible : KeyOf(i) = g}
    <2>3. StandsFor(Row(g), more)
        BY <1>1, <2>1, <2>2, GroupStandsForItsRows
    <2>4. more \in SUBSET Visible /\ \A j \in Visible : j \in more <=> KeyOf(j) = g
        OBVIOUS
    <2> HIDE DEF more
    <2>5. QED
        BY <2>1, <2>3, <2>4, AccumulateKeeps
<1>5. ASSUME NEW x \in todo, RefuseTopic(x) PROVE SnapshotInv'
    <2>1. Finish(UnknownTopic) /\ phase # "done"
        BY <1>5 DEF RefuseTopic, SnapshotInv
    <2>2. \E i \in Visible : stored[i].topic \notin Topic
        <3>1. CASE phase = "records"
            <4>1. x \in Record /\ stored[x].occurred_at <= AsOf /\ stored[x].topic \notin Topic
                BY <1>5, <3>1 DEF RefuseTopic, SnapshotInv
            <4>2. QED
                BY <4>1 DEF Visible
        <3>2. CASE phase # "records"
            <4>1. x \in {KeyOf(i) : i \in Visible} /\ x[1] \notin Topic
                BY <1>5, <3>2, <2>1 DEF RefuseTopic, SnapshotInv
            <4>2. QED
                BY <4>1 DEF KeyOf
        <3>3. QED
            BY <3>1, <3>2
    <2>3. Outcome = UnknownTopic
        BY <2>2 DEF Outcome
    <2>4. Finish(Outcome)
        BY <2>1, <2>3
    <2>5. QED
        BY <2>1, <2>4, FinishKeeps
<1>6. CASE Assemble
    <2>1. phase # "done" /\ todo = {} /\ Finish(Assembled(buckets))
        BY <1>6 DEF Assemble
    <2>2. Seen = Visible
        BY <2>1 DEF Seen
    <2>3. buckets = Summaries(Visible) /\ \A i \in Visible : stored[i].topic \in Topic
        BY <2>1, <2>2 DEF SnapshotInv
    <2>4. Assembled(buckets) = Outcome
        BY <2>3 DEF Outcome
    <2>5. Finish(Outcome)
        BY <2>1, <2>4
    <2>6. QED
        BY <2>1, <2>5, FinishKeeps
<1>7. CASE UNCHANGED vars
    <2>1. UNCHANGED <<stored, todo, buckets, phase, built>>
        BY <1>7 DEF vars
    <2>2. Visible' = Visible
        BY <2>1 DEF Visible
    <2>3. Seen' = Seen
        BY <2>1, <2>2 DEF Seen, KeyOf
    <2>4. Summaries(Seen)' = Summaries(Seen) /\ Outcome' = Outcome
        BY <2>1, <2>2, <2>3 DEF Outcome, Summaries, Summary, About, MinutesOf
    <2>5. QED
        BY <2>1, <2>2, <2>3, <2>4 DEF SnapshotInv, KeyOf
<1>8. QED
    BY <1>2, <1>3, <1>4, <1>5, <1>6, <1>7 DEF Next

\* In whatever order the rows arrive, each loop keeps to the summary of what it
\* has seen and ends with the outcome that the history has.
THEOREM LoopsSummarise == Spec => []SnapshotInv
    BY SnapshotInit, SnapshotStep, PTL DEF Spec

\* Both loops agree, of any history and in any order of its rows and groups.
THEOREM BothPathsAgree == Spec => []PathsAgree
<1>1. SnapshotInv => PathsAgree
    BY DEF SnapshotInv, PathsAgree
<1>2. QED
    BY LoopsSummarise, <1>1, PTL

-----------------------------------------------------------------------------
(* What a snapshot says *)

\* A finished snapshot is assembled from the summaries of the visible rows, all
\* of which are in the vocabulary.
LEMMA FinishedSnapshots ==
    ASSUME SnapshotInv, NEW p \in {"records", "groups"}, IsSnapshot(p)
    PROVE  /\ built[p] = Assembled(Summaries(Visible))
           /\ \A i \in Visible : stored[i].topic \in Topic
           /\ Stored /\ Visible \in SUBSET Record
<1>1. built[p] = Outcome /\ Outcome # UnknownTopic
    BY DEF SnapshotInv, IsSnapshot
<1>2. QED
    BY <1>1 DEF Outcome, SnapshotInv, Stored, Visible

\* The counts of a bucket add up to the number of its rows, and so do those of
\* the solved and the attempted ones.
LEMMA CountsAddUp ==
    ASSUME Stored, NEW ids \in SUBSET Record
    PROVE  /\ Total(Summary(ids).counts, Difficulty \X OUTCOMES) = Cardinality(ids)
           /\ Frozen(Summary(ids)).solved + Frozen(Summary(ids)).attempted = Cardinality(ids)
<1> DEFINE count == Number(ids)
           key == [i \in ids |-> LevelOf(i)]
           class == [k \in Key |-> Level(ids, k)]
           Solved == Difficulty \X {"solved"}
           Attempted == Difficulty \X {"attempted"}
<1>1. Summary(ids).counts = count
    BY SummaryParts
<1>2. IsFiniteSet(Solved) /\ IsFiniteSet(Attempted)
    BY FS_Product, FS_Singleton, SnapshotAssumption
<1>3. Key = Solved \cup Attempted /\ Solved \cap Attempted = {}
    BY DEF Key, OUTCOMES
<1>4. IsFiniteSet(Key)
    <2> HIDE DEF Solved, Attempted
    <2>1. QED
        BY <1>2, <1>3, FS_Union
<1>5. SumFunctionOnSet(count, Key) = Cardinality(ids)
    <2>1. \A k \in Key : count[k] = Cardinality(class[k])
        BY DEF Number
    <2>2. \A k \in Key : /\ class[k] \in SUBSET ids
                         /\ \A i \in ids : i \in class[k] <=> key[i] = k
        BY DEF Level
    <2>3. \A i \in ids : key[i] \in Key
        BY RowTypes DEF Key, LevelOf
    <2>4. IsFiniteSet(ids)
        BY RowsFinite
    <2> HIDE DEF count, key, class
    <2>5. QED
        BY <1>4, <2>1, <2>2, <2>3, <2>4, SumOfClasses
<1>6. \A k \in Key : count[k] \in Int
    <2>1. \A k \in Key : Level(ids, k) \in SUBSET Record
        BY DEF Level
    <2>2. \A k \in Key : Cardinality(Level(ids, k)) \in Int
        BY <2>1, RowsFinite
    <2>3. QED
        BY <2>2 DEF Number
<1>7. SumFunctionOnSet(count, Key)
          = SumFunctionOnSet(count, Solved) + SumFunctionOnSet(count, Attempted)
    <2> HIDE DEF Solved, Attempted, count
    <2>1. \A k \in Solved \cup Attempted : count[k] \in Int
        BY <1>3, <1>6
    <2>2. SumFunctionOnSet(count, Solved \cup Attempted)
              = SumFunctionOnSet(count, Solved) + SumFunctionOnSet(count, Attempted)
        BY <1>2, <1>3, <2>1, SumSplits
    <2>3. QED
        BY <1>3, <2>2, Zenon
<1>8. /\ Frozen(Summary(ids)).solved = SumFunctionOnSet(count, Solved)
      /\ Frozen(Summary(ids)).attempted = SumFunctionOnSet(count, Attempted)
    BY <1>1 DEF Frozen, Total
<1>9. Total(Summary(ids).counts, Difficulty \X OUTCOMES) = SumFunctionOnSet(count, Key)
    BY <1>1 DEF Total, Key
<1> HIDE DEF count, Solved, Attempted
<1>10. QED
    BY <1>5, <1>7, <1>8, <1>9

\* The numbers of rows of the topics add up to the number of rows.
LEMMA TopicsAddUp ==
    ASSUME Stored, NEW ids \in SUBSET Record, \A i \in ids : stored[i].topic \in Topic
    PROVE  SumFunction([t \in Topic |-> Cardinality(About(t, ids))]) = Cardinality(ids)
<1> DEFINE count == [t \in Topic |-> Cardinality(About(t, ids))]
           key == [i \in ids |-> stored[i].topic]
           class == [t \in Topic |-> About(t, ids)]
<1>1. \A t \in Topic : count[t] = Cardinality(class[t])
    OBVIOUS
<1>2. /\ \A t \in Topic : /\ class[t] \in SUBSET ids
                          /\ \A i \in ids : i \in class[t] <=> key[i] = t
      /\ \A i \in ids : key[i] \in Topic
    BY DEF About
<1>3. IsFiniteSet(ids) /\ IsFiniteSet(Topic)
    BY RowsFinite, SnapshotAssumption
<1>4. SumFunction(count) = SumFunctionOnSet(count, Topic)
    BY DEF SumFunction
<1> HIDE DEF count, key, class
<1>5. SumFunctionOnSet(count, Topic) = Cardinality(ids)
    BY <1>1, <1>2, <1>3, SumOfClasses
<1>6. QED
    BY <1>4, <1>5 DEF count

\* However the rows came, none is lost or counted twice.
THEOREM NothingIsLost == Spec => []TotalsCountEveryActivity
<1>1. SnapshotInv => TotalsCountEveryActivity
    <2> SUFFICES ASSUME SnapshotInv, NEW p \in {"records", "groups"}, IsSnapshot(p)
                 PROVE  /\ built[p].total_activities = Cardinality(Visible)
                        /\ built[p].total_activities =
                               SumFunction([t \in Topic |->
                                   built[p].topics[t].solved + built[p].topics[t].attempted])
        BY DEF TotalsCountEveryActivity
    <2> DEFINE B == Summaries(Visible)
               number == [t \in Topic |-> Cardinality(About(t, Visible))]
    <2>1. /\ built[p] = Assembled(B) /\ Stored /\ Visible \in SUBSET Record
          /\ \A i \in Visible : stored[i].topic \in Topic
        BY FinishedSnapshots
    <2>2. \A t \in Topic : About(t, Visible) \in SUBSET Record
        BY <2>1 DEF About
    <2>3. \A t \in Topic :
              /\ Total(B[t].counts, Difficulty \X OUTCOMES) = number[t]
              /\ Frozen(B[t]).solved + Frozen(B[t]).attempted = number[t]
        <3>1. \A t \in Topic : B[t] = Summary(About(t, Visible))
            BY DEF Summaries
        <3> HIDE DEF B
        <3>2. QED
            BY <2>1, <2>2, <3>1, CountsAddUp
    <2>4. SumFunction(number) = Cardinality(Visible)
        BY <2>1, TopicsAddUp
    <2> HIDE DEF B, number
    <2>5. /\ built[p].total_activities =
                 SumFunction([t \in Topic |-> Total(B[t].counts, Difficulty \X OUTCOMES)])
          /\ built[p].topics = [t \in Topic |-> Frozen(B[t])]
        BY <2>1 DEF Assembled
    <2>6. [t \in Topic |-> Total(B[t].counts, Difficulty \X OUTCOMES)] = number
        BY <2>3 DEF number
    <2>7. [t \in Topic |-> built[p].topics[t].solved + built[p].topics[t].attempted] = number
        BY <2>3, <2>5 DEF number
    <2>8. SumFunction([t \in Topic |-> Total(B[t].counts, Difficulty \X OUTCOMES)])
              = SumFunction(number)
        BY <2>6, Zenon
    <2>9. SumFunction([t \in Topic |->
                           built[p].topics[t].solved + built[p].topics[t].attempted])
              = SumFunction(number)
        BY <2>7, Zenon
    <2>10. QED
        BY <2>4, <2>5, <2>8, <2>9, Zenon
<1>2. QED
    BY LoopsSummarise, <1>1, PTL

\* In every topic the minutes recorded and the number of activities that have
\* any are those of the same rows.
THEOREM MinutesBelongTogether == Spec => []MinutesAreHonest
<1>1. SnapshotInv => MinutesAreHonest
    <2> SUFFICES ASSUME SnapshotInv, NEW p \in {"records", "groups"}, IsSnapshot(p),
                        NEW t \in Topic
                 PROVE  LET timed == {i \in Visible : /\ stored[i].topic = t
                                                      /\ stored[i].minutes_spent # None}
                        IN  /\ built[p].topics[t].activities_with_minutes = Cardinality(timed)
                            /\ built[p].topics[t].minutes_recorded =
                                   SumFunction([i \in timed |-> stored[i].minutes_spent])
        BY DEF MinutesAreHonest
    <2> DEFINE ids == About(t, Visible)
               timed == {i \in Visible : /\ stored[i].topic = t
                                         /\ stored[i].minutes_spent # None}
    <2>1. built[p].topics[t] = Frozen(Summary(ids))
        BY FinishedSnapshots DEF Assembled, Summaries
    <2>2. {i \in ids : stored[i].minutes_spent # None} = timed
        BY DEF About
    <2>3. MinutesOf(ids) = [sum |-> SumFunction([i \in timed |-> stored[i].minutes_spent]),
                            number |-> Cardinality(timed)]
        BY <2>2, Zenon DEF MinutesOf
    <2>4. /\ built[p].topics[t].activities_with_minutes = MinutesOf(ids).number
          /\ built[p].topics[t].minutes_recorded = MinutesOf(ids).sum
        BY <2>1, SummaryParts DEF Frozen
    <2>5. QED
        BY <2>3, <2>4
<1>2. QED
    BY LoopsSummarise, <1>1, PTL

\* The extrema of the topics that have any are those of all rows.
LEMMA ExtremaOfTopics ==
    ASSUME Stored, NEW ids \in SUBSET Record, \A i \in ids : stored[i].topic \in Topic
    PROVE  LET firsts == {Summaries(ids)[t].first_at : t \in Topic} \ {None}
               lasts == {Summaries(ids)[t].last_at : t \in Topic} \ {None}
           IN  /\ ids = {} => firsts = {} /\ lasts = {}
               /\ ids # {} => /\ firsts # {} /\ Min(firsts) = Min(Dates(ids))
                              /\ lasts # {} /\ Max(lasts) = Max(Dates(ids))
<1> DEFINE B == Summaries(ids)
           D == Dates(ids)
           Of(t) == About(t, ids)
           firsts == {B[t].first_at : t \in Topic} \ {None}
           lasts == {B[t].last_at : t \in Topic} \ {None}
<1>1. \A t \in Topic :
          /\ B[t].first_at = IF Of(t) = {} THEN None ELSE Min(Dates(Of(t)))
          /\ B[t].last_at = IF Of(t) = {} THEN None ELSE Max(Dates(Of(t)))
    <2>1. \A t \in Topic : B[t] = Summary(Of(t))
        BY DEF Summaries
    <2> HIDE DEF B, Of
    <2>2. QED
        BY <2>1, SummaryParts
<1>2. \A t : Of(t) \in SUBSET ids /\ Dates(Of(t)) \subseteq D
    BY DEF About, Dates
<1>3. IsFiniteSet(D) /\ D \subseteq Int /\ (ids = {} <=> D = {}) /\ None \notin D
    BY DatesFinite
<1>4. \A t \in Topic : Of(t) # {} =>
          /\ Dates(Of(t)) # {} /\ Dates(Of(t)) \subseteq Int
          /\ Min(Dates(Of(t))) \in Dates(Of(t)) /\ Max(Dates(Of(t))) \in Dates(Of(t))
    <2> SUFFICES ASSUME NEW t \in Topic, Of(t) # {}
                 PROVE  /\ Dates(Of(t)) # {} /\ Dates(Of(t)) \subseteq Int
                        /\ Min(Dates(Of(t))) \in Dates(Of(t))
                        /\ Max(Dates(Of(t))) \in Dates(Of(t))
        OBVIOUS
    <2>1. Of(t) \in SUBSET Record
        BY <1>2
    <2> DEFINE E == Dates(Of(t))
    <2>2. IsFiniteSet(E) /\ E \subseteq Int /\ E # {}
        <3> HIDE DEF Of
        <3>1. QED
            BY <2>1, DatesFinite
    <2> HIDE DEF E
    <2>3. Min(E) \in E /\ Max(E) \in E
        BY <2>2, MinMax
    <2>4. QED
        BY <2>2, <2>3 DEF E
<1>5. firsts \subseteq D /\ lasts \subseteq D
    <2> HIDE DEF B, D, Of
    <2>1. \A t \in Topic : B[t].first_at = None \/ B[t].first_at \in D
        BY <1>1, <1>2, <1>4
    <2>2. \A t \in Topic : B[t].last_at = None \/ B[t].last_at \in D
        BY <1>1, <1>2, <1>4
    <2>3. QED
        BY <2>1, <2>2
<1>6. \A m \in D : (\A y \in D : m <= y) => m \in firsts
    <2> SUFFICES ASSUME NEW m \in D, \A y \in D : m <= y PROVE m \in firsts
        BY Zenon
    <2>1. PICK i \in ids : m = stored[i].occurred_at
        BY DEF Dates
    <2> DEFINE t == stored[i].topic
               E == Dates(Of(t))
    <2>2. t \in Topic /\ m \in E /\ Of(t) # {}
        BY <2>1 DEF About, Dates
    <2>3. E \subseteq D
        BY <1>2
    <2>4. Min(E) = m
        <3> HIDE DEF E
        <3>1. E \subseteq Int /\ \A y \in E : m <= y
            BY <2>3, <1>3
        <3>2. QED
            BY <2>2, <3>1, MinMaxUnique
    <2>5. B[t].first_at = m /\ m # None
        <3> HIDE DEF B, Of, t
        <3>1. QED
            BY <1>1, <1>3, <2>2, <2>4
    <2>6. QED
        BY <2>2, <2>5
<1>7. \A m \in D : (\A y \in D : m >= y) => m \in lasts
    <2> SUFFICES ASSUME NEW m \in D, \A y \in D : m >= y PROVE m \in lasts
        BY Zenon
    <2>1. PICK i \in ids : m = stored[i].occurred_at
        BY DEF Dates
    <2> DEFINE t == stored[i].topic
               E == Dates(Of(t))
    <2>2. t \in Topic /\ m \in E /\ Of(t) # {}
        BY <2>1 DEF About, Dates
    <2>3. E \subseteq D
        BY <1>2
    <2>4. Max(E) = m
        <3> HIDE DEF E
        <3>1. E \subseteq Int /\ \A y \in E : m >= y
            BY <2>3, <1>3
        <3>2. QED
            BY <2>2, <3>1, MinMaxUnique
    <2>5. B[t].last_at = m /\ m # None
        <3> HIDE DEF B, Of, t
        <3>1. QED
            BY <1>1, <1>3, <2>2, <2>4
    <2>6. QED
        BY <2>2, <2>5
<1>8. ASSUME ids = {} PROVE firsts = {} /\ lasts = {}
    <2> HIDE DEF firsts, lasts
    <2>1. QED
        BY <1>3, <1>5, <1>8
<1>9. ASSUME ids # {}
      PROVE  firsts # {} /\ Min(firsts) = Min(D) /\ lasts # {} /\ Max(lasts) = Max(D)
    <2> HIDE DEF firsts, lasts, D
    <2>1. /\ Min(D) \in D /\ \A y \in D : Min(D) <= y
          /\ Max(D) \in D /\ \A y \in D : y <= Max(D)
        BY <1>3, <1>9, MinMax
    <2>2. Min(D) \in firsts
        BY <1>6, <2>1
    <2>3. Max(D) \in lasts
        <3>1. \A y \in D : Max(D) >= y
            BY <1>3, <2>1
        <3>2. QED
            BY <1>7, <2>1, <3>1
    <2>4. firsts \subseteq Int /\ lasts \subseteq Int
        BY <1>3, <1>5
    <2>5. \A y \in firsts : Min(D) <= y
        BY <1>5, <2>1
    <2>6. \A y \in lasts : Max(D) >= y
        BY <1>3, <1>5, <2>1
    <2>7. Min(firsts) = Min(D)
        BY <2>2, <2>4, <2>5, MinMaxUnique
    <2>8. Max(lasts) = Max(D)
        BY <2>3, <2>4, <2>6, MinMaxUnique
    <2>9. QED
        BY <2>2, <2>3, <2>7, <2>8
<1>10. QED
    BY <1>8, <1>9

\* The dates of a snapshot are those of its first and its last visible row, and
\* the last topic was practised at the last of them.
THEOREM DatesAreTheirs == Spec => []DatesAreExtrema
<1>1. SnapshotInv => DatesAreExtrema
    <2> SUFFICES ASSUME SnapshotInv, NEW p \in {"records", "groups"}, IsSnapshot(p)
                 PROVE  LET dates == {stored[i].occurred_at : i \in Visible}
                            practised == {built[p].topics[t].last_practised_at : t \in Topic}
                                             \ {None}
                        IN  IF dates = {}
                            THEN built[p].first_activity_at = None /\ practised = {}
                            ELSE /\ built[p].first_activity_at = Min(dates)
                                 /\ built[p].last_activity_at = Max(dates)
                                 /\ Max(practised) = Max(dates)
        BY DEF DatesAreExtrema
    <2> DEFINE B == Summaries(Visible)
               firsts == {B[t].first_at : t \in Topic} \ {None}
               lasts == {B[t].last_at : t \in Topic} \ {None}
               practised == {built[p].topics[t].last_practised_at : t \in Topic} \ {None}
               dates == {stored[i].occurred_at : i \in Visible}
    <2>1. /\ built[p] = Assembled(B) /\ Stored /\ Visible \in SUBSET Record
          /\ \A i \in Visible : stored[i].topic \in Topic
        BY FinishedSnapshots
    <2>2. /\ built[p].first_activity_at = (IF firsts = {} THEN None ELSE Min(firsts))
          /\ built[p].last_activity_at = (IF lasts = {} THEN None ELSE Max(lasts))
          /\ \A t \in Topic : built[p].topics[t].last_practised_at = B[t].last_at
        <3> HIDE DEF B
        <3>1. QED
            BY <2>1 DEF Assembled, Frozen
    <2>3. practised = lasts
        <3> HIDE DEF B
        <3>1. QED
            BY <2>2
    <2>4. dates = Dates(Visible) /\ (dates = {} <=> Visible = {})
        BY DEF Dates
    <2>5. /\ Visible = {} => firsts = {} /\ lasts = {}
          /\ Visible # {} => /\ firsts # {} /\ Min(firsts) = Min(Dates(Visible))
                             /\ lasts # {} /\ Max(lasts) = Max(Dates(Visible))
        BY <2>1, ExtremaOfTopics
    <2> HIDE DEF B, firsts, lasts, practised, dates
    <2>6. CASE Visible = {}
        <3>1. dates = {} /\ practised = {} /\ built[p].first_activity_at = None
            BY <2>2, <2>3, <2>4, <2>5, <2>6
        <3>2. QED
            BY <3>1 DEF dates, practised
    <2>7. CASE Visible # {}
        <3>1. /\ dates # {}
              /\ Min(dates) = Min(Dates(Visible)) /\ Max(dates) = Max(Dates(Visible))
            BY <2>4, <2>7, Zenon
        <3>2. Max(practised) = Max(lasts)
            BY <2>3, Zenon
        <3>3. /\ built[p].first_activity_at = Min(dates)
              /\ built[p].last_activity_at = Max(dates) /\ Max(practised) = Max(dates)
            BY <2>2, <2>5, <2>7, <3>1, <3>2
        <3>4. QED
            BY <3>1, <3>3 DEF dates, practised
    <2>8. QED
        BY <2>6, <2>7
<1>2. QED
    BY LoopsSummarise, <1>1, PTL
=============================================================================
