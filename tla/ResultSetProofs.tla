------------------------------ MODULE ResultSetProofs ------------------------------
(*******************************************************************************)
(* Proofs about ResultSet: that no reply is left lying and every row shown as   *)
(* loading is on its way, and that the rows shown are the server's.              *)
(*******************************************************************************)
EXTENDS ResultSet, FiniteSetTheorems, SequenceTheorems, WellFoundedInduction, TLAPS

--------------------------------------------------------------------------------
(* Smallest and greatest numbers, and types *)

\* A set of naturals that is not empty has a least element.
LEMMA NatMin ==
    ASSUME NEW T, T \subseteq Nat, T # {}
    PROVE  \E x \in T : \A y \in T : x <= y
<1> DEFINE R == OpToRel(<, Nat)
<1>1. IsWellFoundedOn(R, Nat)
    BY NatLessThanWellFounded
<1>2. \A x, y \in Nat : y < x => <<y, x>> \in R
    BY DEF OpToRel
<1> HIDE DEF R
<1>3. PICK x \in T : \A y \in T : ~(<<y, x>> \in R)
    BY <1>1, WFMin
<1> SUFFICES ASSUME NEW y \in T PROVE x <= y
    OBVIOUS
<1>4. x \in Nat /\ y \in Nat
    OBVIOUS
<1>5. ~(y < x)
    BY <1>2, <1>3, <1>4
<1> QED BY <1>4, <1>5

\* If it is bounded it has a greatest one.
LEMMA NatMax ==
    ASSUME NEW T, T \subseteq Nat, T # {}, NEW b \in Nat, \A x \in T : x <= b
    PROVE  \E x \in T : \A y \in T : y <= x
<1> DEFINE U == {u \in Nat : \A y \in T : y <= u}
<1>1. U \subseteq Nat /\ b \in U
    OBVIOUS
<1>2. PICK u \in U : \A z \in U : u <= z
  <2> HIDE DEF U
  <2> QED BY <1>1, NatMin
<1>3. u \in Nat /\ \A y \in T : y \in Nat /\ y <= u
    OBVIOUS
<1>4. u \in T
  <2> SUFFICES ASSUME u \notin T PROVE FALSE
      OBVIOUS
  <2>1. \A y \in T : y < u
      BY <1>3
  <2>2. PICK y0 \in T : TRUE
      OBVIOUS
  <2>3. u - 1 \in Nat
      BY <1>3, <2>1, <2>2
  <2>4. u - 1 \in U
      BY <1>3, <2>1, <2>3
  <2>5. u <= u - 1
      BY <1>2, <2>4
  <2> QED BY <1>3, <2>5
<1> QED BY <1>3, <1>4

--------------------------------------------------------------------------------
\* What the variables hold
RowValues == Rows \cup {Empty, Loading}
Caches == [rows : Seq(RowValues) \cup {Unknown}, total : Int \cup {Unknown}, cached : Int,
           disordered : BOOLEAN, start : Nat]
Ranges == {p \in Nat \X Nat : p[1] < p[2]}
Requests == [index : Nat, start : Nat, end : Nat, criteria : Criteria,
             status : {"asked", "ok", "error", "bad"}, data : Seq(Rows),
             total : Nat \cup {Unknown}]
Ghosts == [disturbed : Nat, marks : SUBSET Marks]

\* An answer has the rows of the range that there are, and how many there are in all.
RequestOK(x) ==
    /\ x.start < x.end
    /\ x.status = "ok" =>
         /\ x.total \in Nat
         /\ Len(x.data) = IF x.start < Least(x.end, x.total)
                          THEN Least(x.end, x.total) - x.start ELSE 0
    /\ x.status # "ok" => x.data = <<>>

\* What the proofs need to know of the types
Typed ==
    /\ cache \in Caches /\ criteria \in Criteria /\ pending \in Ranges \cup {Unknown}
    /\ sent \in Nat /\ last \in Nat
    /\ held \subseteq Requests /\ wire \subseteq Requests
    /\ \A x \in held \cup wire : RequestOK(x)
    /\ \A x \in held : x.status # "asked"
    /\ server \in [Rows -> Criteria \cup {NoCriteria}]
    /\ ghost \in Ghosts

\* The numbers and the special values of the code are told apart.
LEMMA Numbers ==
    /\ PageSize \in Nat /\ UnknownLength \in Nat /\ MaxEvents \in Nat
    /\ IsFiniteSet(Rows) /\ Cardinality(Rows) \in Nat
    /\ Cardinality(Rows) + PageSize <= UnknownLength
    /\ Rows \subseteq Nat /\ Loading \notin Rows /\ Empty \notin Rows /\ Empty # Loading
    /\ Unknown \notin Int /\ Unknown \notin Nat /\ Unknown \notin Ranges
    /\ Unknown \notin Seq(RowValues)
BY RowsAssumption, NumbersAssumption, UnknownAssumption, FS_CardinalityType DEF Ranges, RowValues

\* The less and the greater of two numbers
LEMMA LeastMost ==
    ASSUME NEW a \in Int, NEW b \in Int
    PROVE  /\ Least(a, b) \in Int /\ Most(a, b) \in Int
           /\ Least(a, b) <= a /\ Least(a, b) <= b /\ a <= Most(a, b) /\ b <= Most(a, b)
           /\ (Least(a, b) = a \/ Least(a, b) = b) /\ (Most(a, b) = a \/ Most(a, b) = b)
BY DEF Least, Most

\* The fields of a cache
LEMMA CacheFields ==
    ASSUME NEW c \in Caches
    PROVE  /\ c.rows \in Seq(RowValues) \cup {Unknown} /\ c.total \in Int \cup {Unknown}
           /\ c.cached \in Int /\ c.disordered \in BOOLEAN /\ c.start \in Nat
           /\ HasRows(c) => /\ c.rows \in Seq(RowValues) /\ Len(c.rows) \in Nat
                            /\ DOMAIN c.rows = 1 .. Len(c.rows)
                            /\ \A i \in 1 .. Len(c.rows) : c.rows[i] \in RowValues
           /\ LengthIsKnown(c) => HasRows(c) /\ c.total \in Int
           /\ Length(c) \in Int
BY Numbers DEF Caches, HasRows, LengthIsKnown, Length

\* What is shown at a position
LEMMA AtFacts ==
    ASSUME NEW c \in Caches
    PROVE  /\ \A i \in Int : At(c, i) \in RowValues
           /\ \A i \in Int : At(c, i) # Empty =>
                  HasRows(c) /\ i \in 0 .. Len(c.rows) - 1 /\ At(c, i) = c.rows[i + 1]
           /\ \A i \in Int : i \in Loaded(c) <=> IsRow(At(c, i))
           /\ Loaded(c) \subseteq Nat /\ IsFiniteSet(Loaded(c))
           /\ \A i \in Int : i \in Loaded(c) => At(c, i) \in Rows
<1>1. \A i \in Int : At(c, i) \in RowValues
    BY CacheFields DEF At, RowValues
<1>2. \A i \in Int : At(c, i) # Empty =>
          HasRows(c) /\ i \in 0 .. Len(c.rows) - 1 /\ At(c, i) = c.rows[i + 1]
    BY DEF At
<1>3. \A i \in Int : i \in Loaded(c) <=> IsRow(At(c, i))
    BY DEF At, Loaded, IsRow
<1>4. Loaded(c) \subseteq Nat /\ IsFiniteSet(Loaded(c))
  <2>1. CASE HasRows(c)
    <3>1. Len(c.rows) - 1 \in Int /\ 0 \in Int
        BY <2>1, CacheFields
    <3>2. IsFiniteSet(0 .. Len(c.rows) - 1)
        BY <3>1, FS_Interval
    <3>3. Loaded(c) \in SUBSET (0 .. Len(c.rows) - 1)
        BY <2>1 DEF Loaded
    <3> QED BY <3>1, <3>2, <3>3, FS_Subset
  <2>2. CASE ~HasRows(c)
      BY <2>2, FS_EmptySet DEF Loaded
  <2> QED BY <2>1, <2>2
<1>5. \A i \in Int : i \in Loaded(c) => At(c, i) \in Rows
    BY <1>1, <1>3 DEF IsRow, RowValues
<1> QED BY <1>1, <1>2, <1>3, <1>4, <1>5

--------------------------------------------------------------------------------
(* Positions in the order of the server *)

\* The members of S that are less than r; their number is the position of r in S.
Below(S, r) == {q \in S : q < r}
Position(S, r) == Cardinality(Below(S, r))

\* Positions count from 0, and grow with the rows.
LEMMA Positions ==
    ASSUME NEW S, S \subseteq Nat, IsFiniteSet(S)
    PROVE  /\ Cardinality(S) \in Nat
           /\ \A r \in S : Position(S, r) \in 0 .. Cardinality(S) - 1
           /\ \A q, r \in S : q < r => Position(S, q) < Position(S, r)
<1>1. Cardinality(S) \in Nat
    BY FS_CardinalityType
<1>2. \A r \in S : IsFiniteSet(Below(S, r)) /\ Cardinality(Below(S, r)) \in Nat
  <2> SUFFICES ASSUME NEW r \in S
               PROVE  IsFiniteSet(Below(S, r)) /\ Cardinality(Below(S, r)) \in Nat
      OBVIOUS
  <2>1. Below(S, r) \in SUBSET S
      BY DEF Below
  <2> QED BY <2>1, FS_Subset, FS_CardinalityType
<1>3. ASSUME NEW r \in S PROVE Position(S, r) \in 0 .. Cardinality(S) - 1
  <2>1. Below(S, r) \in SUBSET S /\ r \notin Below(S, r)
      BY DEF Below
  <2>2. Cardinality(Below(S, r)) <= Cardinality(S) /\ Cardinality(Below(S, r)) # Cardinality(S)
      BY <2>1, FS_Subset
  <2> QED BY <1>1, <1>2, <2>2 DEF Position
<1>4. ASSUME NEW q \in S, NEW r \in S, q < r PROVE Position(S, q) < Position(S, r)
  <2>1. Below(S, q) \in SUBSET Below(S, r) /\ q \in Below(S, r) /\ q \notin Below(S, q)
    <3>1. q \in Nat /\ r \in Nat
        OBVIOUS
    <3>2. \A p \in Nat : p < q => p < r
        BY <1>4, <3>1
    <3>3. ~(q < q)
        BY <3>1
    <3>4. Below(S, q) \subseteq Below(S, r)
        BY <3>2 DEF Below
    <3> QED BY <1>4, <3>3, <3>4 DEF Below
  <2>2. /\ Cardinality(Below(S, q)) <= Cardinality(Below(S, r))
        /\ Cardinality(Below(S, q)) # Cardinality(Below(S, r))
      BY <1>2, <2>1, FS_Subset
  <2> QED BY <1>2, <2>2 DEF Position
<1> QED BY <1>1, <1>3, <1>4

\* Every position is taken: there is somebody in the n-th place.
LEMMA PositionsTaken ==
    ASSUME NEW S, S \subseteq Nat, IsFiniteSet(S), NEW n \in 0 .. Cardinality(S) - 1
    PROVE  \E r \in S : Position(S, r) = n
<1> DEFINE Free == {k \in 0 .. Cardinality(S) - 1 : \A r \in S : Position(S, r) # k}
<1> SUFFICES ASSUME Free # {} PROVE FALSE
    OBVIOUS
<1>1. Cardinality(S) \in Nat
    BY FS_CardinalityType
<1>2. Free \subseteq Nat
    BY <1>1
<1>3. PICK k \in Free : \A j \in Free : k <= j
    BY <1>2, NatMin
<1>4. k \in Nat /\ k < Cardinality(S) /\ \A r \in S : Position(S, r) # k
    BY <1>1
<1> HIDE DEF Free
<1> DEFINE T == {r \in S : Position(S, r) < k}
<1>5. \A r \in S : Position(S, r) \in Nat
  <2>1. \A r \in S : Position(S, r) \in 0 .. Cardinality(S) - 1
      BY Positions
  <2> QED BY <1>1, <2>1
<1>15. \A q, r \in S : q < r => Position(S, q) < Position(S, r)
    BY Positions
<1>6. \A j \in 0 .. k - 1 : \E r \in S : Position(S, r) = j
  <2> SUFFICES ASSUME NEW j \in 0 .. k - 1, \A r \in S : Position(S, r) # j PROVE FALSE
      OBVIOUS
  <2>1. j \in Free
      BY <1>1, <1>4 DEF Free
  <2> QED BY <1>3, <1>4, <2>1
<1>7. IsFiniteSet(T) /\ Cardinality(T) = k
  <2> DEFINE f == [r \in T |-> Position(S, r)]
  <2>1. f \in Bijection(T, 0 .. k - 1)
    <3>1. f \in [T -> 0 .. k - 1]
      <4> SUFFICES ASSUME NEW r \in T PROVE Position(S, r) \in 0 .. k - 1
          OBVIOUS
      <4>1. r \in S /\ Position(S, r) < k
          OBVIOUS
      <4>2. Position(S, r) \in Nat
          BY <1>5, <4>1
      <4> QED BY <1>4, <4>1, <4>2
    <3>2. \A q, r \in T : f[q] = f[r] => q = r
      <4> SUFFICES ASSUME NEW q \in T, NEW r \in T, Position(S, q) = Position(S, r)
                   PROVE  q = r
          OBVIOUS
      <4>1. q \in Nat /\ r \in Nat
          OBVIOUS
      <4>2. q \in S /\ r \in S /\ Position(S, q) \in Nat
          BY <1>5
      <4>3. ~(Position(S, q) < Position(S, r)) /\ ~(Position(S, r) < Position(S, q))
          BY <4>2
      <4>4. ~(q < r) /\ ~(r < q)
          BY <1>15, <4>2, <4>3
      <4> QED BY <4>1, <4>4
    <3>3. \A j \in 0 .. k - 1 : \E r \in T : f[r] = j
      <4> SUFFICES ASSUME NEW j \in 0 .. k - 1 PROVE \E r \in T : Position(S, r) = j
          OBVIOUS
      <4>1. PICK r \in S : Position(S, r) = j
          BY <1>6
      <4>2. r \in T
          BY <1>4, <4>1
      <4> QED BY <4>1, <4>2
    <3> HIDE DEF f, T
    <3> QED BY <3>1, <3>2, <3>3 DEF Bijection, Injection, Surjection, IsInjective
  <2>2. IsFiniteSet(T)
    <3>1. T \in SUBSET S
        OBVIOUS
    <3> QED BY <3>1, FS_Subset
  <2>3. Cardinality(0 .. k - 1) = k
      BY <1>4, FS_Interval
  <2>4. ExistsBijection(T, 0 .. k - 1)
      BY <2>1 DEF ExistsBijection
  <2> QED BY <2>2, <2>3, <2>4, FS_Bijection
<1>8. S \ T # {} /\ S \ T \subseteq Nat
  <2>1. T # S
      BY <1>4, <1>7
  <2>2. T \subseteq S
      OBVIOUS
  <2> QED BY <2>1, <2>2
<1>9. PICK m \in S \ T : \A r \in S \ T : m <= r
    BY <1>8, NatMin
<1>10. Below(S, m) = T
  <2>1. ASSUME NEW r \in Below(S, m) PROVE r \in T
    <3>1. r \in S /\ r < m /\ r \in Nat /\ m \in Nat
        BY <1>8 DEF Below
    <3> QED BY <1>9, <3>1
  <2>2. ASSUME NEW r \in T PROVE r \in Below(S, m)
    <3>1. r \in S /\ m \in S /\ r \in Nat /\ m \in Nat /\ m # r
        BY <1>8
    <3>2. Position(S, r) < k /\ ~(Position(S, m) < k)
        OBVIOUS
    <3>3. Position(S, r) \in Nat /\ Position(S, m) \in Nat
        BY <1>5, <3>1
    <3>4. ~(Position(S, m) < Position(S, r))
        BY <1>4, <3>2, <3>3
    <3>5. ~(m < r)
        BY <1>15, <3>1, <3>4
    <3> QED BY <3>1, <3>5 DEF Below
  <2> QED BY <2>1, <2>2
<1>11. Position(S, m) = k
    BY <1>7, <1>10 DEF Position
<1> QED BY <1>4, <1>8, <1>11

\* The rows that match some criteria
Matches(c) == {r \in Rows : server[r] = c}

\* The server's answer has them all, in its order.
LEMMA MatchingFacts ==
    ASSUME NEW c
    PROVE  /\ Matches(c) \subseteq Nat /\ IsFiniteSet(Matches(c))
           /\ Matching(c) \in Seq(Matches(c)) /\ Matching(c) \in Seq(Rows)
           /\ Len(Matching(c)) = Cardinality(Matches(c)) /\ Cardinality(Matches(c)) \in Nat
           /\ \A n \in 1 .. Len(Matching(c)) : /\ Matching(c)[n] \in Matches(c)
                                               /\ Position(Matches(c), Matching(c)[n]) = n - 1
<1> DEFINE S == Matches(c)
<1>1. S \subseteq Nat /\ S \in SUBSET Rows
    BY Numbers DEF Matches
<1>2. IsFiniteSet(S)
    BY <1>1, Numbers, FS_Subset
<1>3. Cardinality(S) \in Nat
    BY <1>2, FS_CardinalityType
<1> DEFINE pick(n) == CHOOSE r \in S : Position(S, r) = n - 1
<1>4. \A n \in 1 .. Cardinality(S) : pick(n) \in S /\ Position(S, pick(n)) = n - 1
  <2> SUFFICES ASSUME NEW n \in 1 .. Cardinality(S)
               PROVE  pick(n) \in S /\ Position(S, pick(n)) = n - 1
      OBVIOUS
  <2>1. n - 1 \in 0 .. Cardinality(S) - 1
      BY <1>3
  <2>2. \E r \in S : Position(S, r) = n - 1
      BY <1>1, <1>2, <2>1, PositionsTaken
  <2> HIDE DEF S
  <2> QED BY <2>2
<1>5. Matching(c) = [n \in 1 .. Cardinality(S) |-> pick(n)]
    BY DEF Matching, Matches, Position, Below
<1> HIDE DEF S, pick
<1>6. Matching(c) \in Seq(S) /\ Len(Matching(c)) = Cardinality(S)
    BY <1>3, <1>4, <1>5
<1>7. Matching(c) \in Seq(Rows)
  <2>1. \A n \in 1 .. Cardinality(S) : pick(n) \in Rows
      BY <1>1, <1>4
  <2> QED BY <1>3, <1>5, <2>1
<1>8. \A n \in 1 .. Cardinality(S) : Matching(c)[n] = pick(n)
    BY <1>5
<1> QED BY <1>1, <1>2, <1>3, <1>4, <1>6, <1>7, <1>8 DEF S

--------------------------------------------------------------------------------
(* Sequences of rows *)

\* setFullLength cuts the rows at the new length, or fills them up with what was not
\* asked for; a negative length counts from the end.
LEMMA ResizedFacts ==
    ASSUME NEW rows \in Seq(RowValues), NEW n \in Int
    PROVE  /\ Resized(rows, n) \in Seq(RowValues)
           /\ n >= 0 => /\ Len(Resized(rows, n)) = n
                        /\ \A k \in 1 .. n : Resized(rows, n)[k] =
                                               IF k <= Len(rows) THEN rows[k] ELSE Empty
           /\ n < 0 => /\ Len(Resized(rows, n)) = IF Len(rows) + n > 0 THEN Len(rows) + n ELSE 0
                       /\ \A k \in 1 .. Len(Resized(rows, n)) :
                              k <= Len(rows) /\ Resized(rows, n)[k] = rows[k]
<1>1. Len(rows) \in Nat /\ \A k \in 1 .. Len(rows) : rows[k] \in RowValues
    OBVIOUS
<1>2. CASE n >= 0
  <2>1. Resized(rows, n) = [k \in 1 .. n |-> IF k <= Len(rows) THEN rows[k] ELSE Empty]
      BY <1>2 DEF Resized
  <2>2. \A k \in 1 .. n : (IF k <= Len(rows) THEN rows[k] ELSE Empty) \in RowValues
      BY <1>1 DEF RowValues
  <2> QED BY <1>2, <2>1, <2>2
<1>3. CASE n < 0
  <2>1. Resized(rows, n) = SubSeq(rows, 1, Len(rows) + n)
      BY <1>3 DEF Resized
  <2>2. Len(rows) + n \in Int /\ \A k \in 1 .. Len(rows) + n : rows[k] \in RowValues
      BY <1>1, <1>3
  <2>3. /\ SubSeq(rows, 1, Len(rows) + n) \in Seq(RowValues)
        /\ Len(SubSeq(rows, 1, Len(rows) + n)) =
              IF 1 <= Len(rows) + n THEN (Len(rows) + n) - 1 + 1 ELSE 0
        /\ \A k \in 1 .. (Len(rows) + n) - 1 + 1 :
              SubSeq(rows, 1, Len(rows) + n)[k] = rows[1 + k - 1]
      BY <2>2, SubSeqProperties
  <2> HIDE DEF RowValues
  <2> QED BY <1>1, <1>3, <2>1, <2>3
<1> QED BY <1>2, <1>3

\* A sequence without one of its elements
LEMMA RemovedFacts ==
    ASSUME NEW V, NEW rows \in Seq(V), NEW i \in 0 .. Len(rows) - 1
    PROVE  /\ Removed(rows, i) \in Seq(V)
           /\ Len(Removed(rows, i)) = Len(rows) - 1
           /\ \A k \in 1 .. Len(rows) - 1 :
                Removed(rows, i)[k] = IF k <= i THEN rows[k] ELSE rows[k + 1]
<1> DEFINE a == SubSeq(rows, 1, i)
           b == SubSeq(rows, i + 2, Len(rows))
<1>1. Len(rows) \in Nat /\ \A k \in 1 .. Len(rows) : rows[k] \in V
    OBVIOUS
<1>2. Removed(rows, i) = a \o b
  <2>1. (i + 1) - 1 = i /\ (i + 1) + 1 = i + 2
      BY <1>1
  <2> QED BY <2>1 DEF Removed, RemoveAt
<1>3. a \in Seq(V) /\ Len(a) = i /\ \A k \in 1 .. i : a[k] = rows[k]
  <2>1. /\ a \in Seq(V) /\ Len(a) = IF 1 <= i THEN i - 1 + 1 ELSE 0
        /\ \A k \in 1 .. i - 1 + 1 : a[k] = rows[1 + k - 1]
      BY <1>1, SubSeqProperties
  <2> HIDE DEF a
  <2> QED BY <1>1, <2>1
<1>4. b \in Seq(V) /\ Len(b) = Len(rows) - 1 - i
      /\ \A k \in 1 .. Len(rows) - 1 - i : b[k] = rows[i + 1 + k]
  <2>1. /\ b \in Seq(V) /\ Len(b) = IF i + 2 <= Len(rows) THEN Len(rows) - (i + 2) + 1 ELSE 0
        /\ \A k \in 1 .. Len(rows) - (i + 2) + 1 : b[k] = rows[(i + 2) + k - 1]
      BY <1>1, SubSeqProperties
  <2> HIDE DEF b
  <2> QED BY <1>1, <2>1
<1> HIDE DEF a, b
<1>5. /\ a \o b \in Seq(V) /\ Len(a \o b) = Len(a) + Len(b)
      /\ \A k \in 1 .. Len(a) + Len(b) : (a \o b)[k] = IF k <= Len(a) THEN a[k] ELSE b[k - Len(a)]
    BY <1>3, <1>4, ConcatProperties
<1>6. \A k \in 1 .. Len(rows) - 1 : (a \o b)[k] = IF k <= i THEN rows[k] ELSE rows[k + 1]
  <2> SUFFICES ASSUME NEW k \in 1 .. Len(rows) - 1
               PROVE  (a \o b)[k] = IF k <= i THEN rows[k] ELSE rows[k + 1]
      OBVIOUS
  <2>1. CASE k <= i
      BY <1>1, <1>3, <1>4, <1>5, <2>1
  <2>2. CASE k > i
    <3>1. k - i \in 1 .. Len(rows) - 1 - i /\ i + 1 + (k - i) = k + 1
        BY <1>1, <2>2
    <3>2. b[k - i] = rows[k + 1]
        BY <1>4, <3>1
    <3> QED BY <1>1, <1>3, <1>4, <1>5, <2>2, <3>2
  <2>3. k \in Int /\ i \in Int
      BY <1>1
  <2>4. k <= i \/ k > i
      BY <2>3
  <2> QED BY <2>1, <2>2, <2>4, Zenon
<1> QED BY <1>1, <1>2, <1>3, <1>4, <1>5, <1>6

\* A sequence with one element more
LEMMA InsertedFacts ==
    ASSUME NEW rows \in Seq(RowValues), NEW i \in 0 .. Len(rows), NEW r \in RowValues
    PROVE  /\ Inserted(rows, i, r) \in Seq(RowValues)
           /\ Len(Inserted(rows, i, r)) = Len(rows) + 1
           /\ \A k \in 1 .. i : Inserted(rows, i, r)[k] = rows[k]
           /\ Inserted(rows, i, r)[i + 1] = r
           /\ \A k \in i + 2 .. Len(rows) + 1 : Inserted(rows, i, r)[k] = rows[k - 1]
<1> DEFINE a == SubSeq(rows, 1, i)
           b == SubSeq(rows, i + 1, Len(rows))
<1>1. Len(rows) \in Nat /\ \A k \in 1 .. Len(rows) : rows[k] \in RowValues
    OBVIOUS
<1>2. Inserted(rows, i, r) = a \o <<r>> \o b
  <2>1. (i + 1) - 1 = i
      BY <1>1
  <2> QED BY <2>1 DEF Inserted, InsertAt
<1>3. a \in Seq(RowValues) /\ Len(a) = i /\ \A k \in 1 .. i : a[k] = rows[k]
  <2>1. /\ a \in Seq(RowValues) /\ Len(a) = IF 1 <= i THEN i - 1 + 1 ELSE 0
        /\ \A k \in 1 .. i - 1 + 1 : a[k] = rows[1 + k - 1]
      BY <1>1, SubSeqProperties
  <2> HIDE DEF a
  <2> QED BY <1>1, <2>1
<1>4. b \in Seq(RowValues) /\ Len(b) = Len(rows) - i
      /\ \A k \in 1 .. Len(rows) - i : b[k] = rows[i + k]
  <2>1. /\ b \in Seq(RowValues) /\ Len(b) = IF i + 1 <= Len(rows) THEN Len(rows) - (i + 1) + 1 ELSE 0
        /\ \A k \in 1 .. Len(rows) - (i + 1) + 1 : b[k] = rows[(i + 1) + k - 1]
      BY <1>1, SubSeqProperties
  <2> HIDE DEF b
  <2> QED BY <1>1, <2>1
<1> HIDE DEF a, b
<1> DEFINE m == a \o <<r>>
<1>5. /\ m \in Seq(RowValues) /\ Len(m) = i + 1
      /\ \A k \in 1 .. i + 1 : m[k] = IF k <= i THEN rows[k] ELSE r
  <2>1. <<r>> \in Seq(RowValues) /\ Len(<<r>>) = 1 /\ <<r>>[1] = r
      OBVIOUS
  <2>2. /\ m \in Seq(RowValues) /\ Len(m) = Len(a) + Len(<<r>>)
        /\ \A k \in 1 .. Len(a) + Len(<<r>>) :
             m[k] = IF k <= Len(a) THEN a[k] ELSE <<r>>[k - Len(a)]
      BY <1>3, <2>1, ConcatProperties
  <2>3. m \in Seq(RowValues) /\ Len(m) = i + 1
      BY <1>3, <2>1, <2>2
  <2>4. ASSUME NEW k \in 1 .. i + 1 PROVE m[k] = IF k <= i THEN rows[k] ELSE r
    <3>1. CASE k <= i
        BY <1>3, <2>1, <2>2, <3>1
    <3>2. CASE k = i + 1
      <4>1. k - Len(a) = 1 /\ k \in 1 .. Len(a) + Len(<<r>>) /\ ~(k <= Len(a))
          BY <1>1, <1>3, <2>1, <3>2
      <4>2. m[k] = r
          BY <2>1, <2>2, <4>1
      <4>3. ~(k <= i)
          BY <1>1, <3>2
      <4> QED BY <4>2, <4>3, Zenon
    <3>3. k \in Int /\ i \in Int
        BY <1>1
    <3>4. k <= i \/ k = i + 1
        BY <3>3
    <3> QED BY <3>1, <3>2, <3>4, Zenon
  <2> QED BY <2>3, <2>4
<1> HIDE DEF m
<1>6. /\ m \o b \in Seq(RowValues) /\ Len(m \o b) = Len(m) + Len(b)
      /\ \A k \in 1 .. Len(m) + Len(b) : (m \o b)[k] = IF k <= Len(m) THEN m[k] ELSE b[k - Len(m)]
    BY <1>4, <1>5, ConcatProperties
<1>7. ASSUME NEW k \in 1 .. Len(rows) + 1
      PROVE  (m \o b)[k] = IF k <= i THEN rows[k] ELSE IF k = i + 1 THEN r ELSE rows[k - 1]
  <2>1. CASE k <= i + 1
      BY <1>1, <1>4, <1>5, <1>6, <2>1
  <2>2. CASE k > i + 1
    <3>1. k - (i + 1) \in 1 .. Len(rows) - i /\ i + (k - (i + 1)) = k - 1
        BY <1>1, <2>2
    <3>2. b[k - (i + 1)] = rows[k - 1]
        BY <1>4, <3>1
    <3> QED BY <1>1, <1>4, <1>5, <1>6, <2>2, <3>2
  <2>3. k \in Int /\ i + 1 \in Int
      BY <1>1
  <2>4. k <= i + 1 \/ k > i + 1
      BY <2>3
  <2> QED BY <2>1, <2>2, <2>4, Zenon
<1>8. Inserted(rows, i, r) = m \o b
    BY <1>2 DEF m
<1>9. Len(m) + Len(b) = Len(rows) + 1
    BY <1>1, <1>4, <1>5
<1>10. \A k \in 1 .. i : (m \o b)[k] = rows[k]
  <2>1. \A k \in 1 .. i : k \in 1 .. Len(rows) + 1 /\ k <= i
      BY <1>1
  <2> QED BY <1>7, <2>1
<1>11. (m \o b)[i + 1] = r
  <2>1. i + 1 \in 1 .. Len(rows) + 1 /\ ~(i + 1 <= i)
      BY <1>1
  <2> QED BY <1>7, <2>1
<1>12. \A k \in i + 2 .. Len(rows) + 1 : (m \o b)[k] = rows[k - 1]
  <2>1. \A k \in i + 2 .. Len(rows) + 1 : k \in 1 .. Len(rows) + 1 /\ ~(k <= i) /\ k # i + 1
      BY <1>1
  <2> QED BY <1>7, <2>1
<1> QED BY <1>6, <1>8, <1>9, <1>10, <1>11, <1>12

\* No row is shown as loading
NoneLoading(c) == \A i \in Int : At(c, i) # Loading

\* A cache whose rows are all among those of another one, or new ones, has no mark more.
LEMMA NoneLoadingIn ==
    ASSUME NEW c \in Caches
    PROVE  NoneLoading(c) <=> (HasRows(c) => \A k \in 1 .. Len(c.rows) : c.rows[k] # Loading)
<1>1. CASE ~HasRows(c)
    BY <1>1, Numbers DEF NoneLoading, At
<1>2. CASE HasRows(c)
  <2>1. Len(c.rows) \in Nat
      BY <1>2, CacheFields
  <2>2. ASSUME NoneLoading(c), NEW k \in 1 .. Len(c.rows) PROVE c.rows[k] # Loading
    <3>1. k - 1 \in 0 .. Len(c.rows) - 1 /\ (k - 1) + 1 = k /\ k - 1 \in Int
        BY <2>1
    <3>2. At(c, k - 1) = c.rows[k]
        BY <1>2, <3>1 DEF At
    <3> QED BY <2>2, <3>1, <3>2 DEF NoneLoading
  <2>3. ASSUME \A k \in 1 .. Len(c.rows) : c.rows[k] # Loading PROVE NoneLoading(c)
    <3> SUFFICES ASSUME NEW i \in Int PROVE At(c, i) # Loading
        BY DEF NoneLoading
    <3>1. CASE i \in 0 .. Len(c.rows) - 1
      <4>1. i + 1 \in 1 .. Len(c.rows)
          BY <2>1, <3>1
      <4> QED BY <1>2, <2>3, <3>1, <4>1 DEF At
    <3>2. CASE i \notin 0 .. Len(c.rows) - 1
        BY <3>2, Numbers DEF At
    <3> QED BY <3>1, <3>2
  <2> QED BY <1>2, <2>2, <2>3
<1> QED BY <1>1, <1>2

--------------------------------------------------------------------------------
(* The parts of the cache *)

\* A cache that has rows
LEMMA WithRows ==
    ASSUME NEW d \in Caches, d.rows \in Seq(RowValues)
    PROVE  /\ HasRows(d) /\ Len(d.rows) \in Nat
           /\ \A i \in Int : At(d, i) = IF i \in 0 .. Len(d.rows) - 1 THEN d.rows[i + 1] ELSE Empty
BY Numbers DEF HasRows, At

\* localData is made if it is not there; nothing else is shown.
Opened(c) == [c EXCEPT !.rows = IF @ = Unknown THEN <<>> ELSE @]

\* Making localData changes nothing that is shown.
LEMMA OpenedFacts ==
    ASSUME NEW c \in Caches
    PROVE  /\ Opened(c) \in Caches /\ HasRows(Opened(c)) /\ Opened(c).rows \in Seq(RowValues)
           /\ \A i \in Int : At(Opened(c), i) = At(c, i)
           /\ Opened(c).total = c.total /\ Opened(c).cached = c.cached
           /\ Opened(c).disordered = c.disordered /\ Opened(c).start = c.start
           /\ HasRows(c) => Opened(c) = c
<1> DEFINE d == Opened(c)
<1>1. /\ d \in Caches /\ d.rows = IF c.rows = Unknown THEN <<>> ELSE c.rows
      /\ d.total = c.total /\ d.cached = c.cached
      /\ d.disordered = c.disordered /\ d.start = c.start
  <2>1. <<>> \in Seq(RowValues)
      OBVIOUS
  <2>2. c.rows = Unknown \/ c.rows \in Seq(RowValues)
      BY DEF Caches
  <2>3. (IF c.rows = Unknown THEN <<>> ELSE c.rows) \in Seq(RowValues)
      BY <2>1, <2>2
  <2> DEFINE e == IF c.rows = Unknown THEN <<>> ELSE c.rows
  <2>4. d = [c EXCEPT !.rows = e] /\ e \in Seq(RowValues)
      BY <2>3 DEF Opened
  <2> HIDE DEF e
  <2>5. /\ d \in Caches /\ d.rows = e /\ d.total = c.total /\ d.cached = c.cached
        /\ d.disordered = c.disordered /\ d.start = c.start
      BY <2>4 DEF Caches
  <2> QED BY <2>5 DEF e
<1>2. d.rows \in Seq(RowValues)
    BY <1>1, CacheFields DEF HasRows
<1>3. CASE HasRows(c)
  <2>1. d = c
      BY <1>3 DEF Opened, HasRows, Caches
  <2> QED BY <1>1, <1>2, <1>3, <2>1
<1>4. CASE ~HasRows(c)
  <2>1. d.rows = <<>> /\ Len(d.rows) = 0
      BY <1>1, <1>4 DEF HasRows
  <2> HIDE DEF d
  <2>2. HasRows(d) /\ \A i \in Int : At(d, i) = Empty
    <3>1. HasRows(d) /\ \A i \in Int : At(d, i) = IF i \in 0 .. Len(d.rows) - 1
                                                  THEN d.rows[i + 1] ELSE Empty
        BY <1>1, <1>2, WithRows DEF d
    <3>2. \A i \in Int : i \notin 0 .. Len(d.rows) - 1
        BY <2>1
    <3> QED BY <3>1, <3>2
  <2>3. \A i \in Int : At(c, i) = Empty
      BY <1>4 DEF At
  <2>4. HasRows(d) /\ \A i \in Int : At(d, i) = At(c, i)
      BY <2>2, <2>3
  <2> QED BY <1>1, <1>2, <1>4, <2>4 DEF d
<1> QED BY <1>3, <1>4

\* setFullLength: what lies below the new length stays.
LEMMA SetFullLengthFacts ==
    ASSUME NEW c \in Caches, NEW n \in Int
    PROVE  LET d == SetFullLength(c, n)
           IN /\ d \in Caches /\ d.total = n /\ d.cached = Least(c.cached, n)
              /\ d.disordered = c.disordered /\ d.start = c.start
              /\ HasRows(d) <=> HasRows(c)
              /\ HasRows(c) => d.rows = Resized(c.rows, n)
              /\ NoneLoading(c) => NoneLoading(d)
              /\ HasRows(c) /\ n >= 0 =>
                   /\ Len(d.rows) = n
                   /\ \A i \in Nat : At(d, i) = IF i < n THEN At(c, i) ELSE Empty
<1> DEFINE d == SetFullLength(c, n)
<1>1. Least(c.cached, n) \in Int
    BY LeastMost, CacheFields
<1>2. HasRows(c) => Resized(c.rows, n) \in Seq(RowValues)
    BY ResizedFacts, CacheFields
<1>3. /\ d \in Caches /\ d.total = n /\ d.cached = Least(c.cached, n)
      /\ d.disordered = c.disordered /\ d.start = c.start
      /\ d.rows = IF c.rows = Unknown THEN Unknown ELSE Resized(c.rows, n)
  <2>1. d = [c EXCEPT !.total = n, !.cached = Least(c.cached, n),
                      !.rows = IF c.rows = Unknown THEN c.rows ELSE Resized(c.rows, n)]
      BY DEF SetFullLength, Caches
  <2> HIDE DEF d
  <2> QED BY <1>1, <1>2, <2>1 DEF Caches, HasRows
<1> HIDE DEF d
<1>4. CASE ~HasRows(c)
  <2>1. ~HasRows(d)
      BY <1>3, <1>4 DEF HasRows
  <2>2. NoneLoading(d)
      BY <2>1, Numbers DEF NoneLoading, At
  <2> QED BY <1>3, <1>4, <2>1, <2>2 DEF d
<1>5. CASE HasRows(c)
  <2>1. d.rows = Resized(c.rows, n) /\ d.rows \in Seq(RowValues) /\ c.rows \in Seq(RowValues)
      BY <1>2, <1>3, <1>5, CacheFields DEF HasRows
  <2>2. HasRows(d) /\ Len(d.rows) \in Nat
      BY <1>3, <2>1, WithRows
  <2> DEFINE q == Resized(c.rows, n)
  <2>20. /\ n >= 0 => /\ Len(q) = n
                      /\ \A k \in 1 .. n : q[k] = IF k <= Len(c.rows) THEN c.rows[k] ELSE Empty
         /\ n < 0 => \A k \in 1 .. Len(q) : k <= Len(c.rows) /\ q[k] = c.rows[k]
      BY <2>1, ResizedFacts
  <2>21. d.rows = q /\ Len(c.rows) \in Nat
      BY <2>1
  <2> HIDE DEF q
  <2>3. ASSUME NoneLoading(c) PROVE NoneLoading(d)
    <3>1. \A k \in 1 .. Len(c.rows) : c.rows[k] # Loading
        BY <1>5, <2>3, NoneLoadingIn
    <3>2. \A k \in 1 .. Len(d.rows) : d.rows[k] # Loading
      <4> SUFFICES ASSUME NEW k \in 1 .. Len(d.rows) PROVE d.rows[k] # Loading
          OBVIOUS
      <4>1. CASE n >= 0
        <5>1. k \in 1 .. n /\ d.rows[k] = IF k <= Len(c.rows) THEN c.rows[k] ELSE Empty
            BY <2>20, <2>21, <4>1
        <5> QED BY <3>1, <5>1, Numbers
      <4>2. CASE n < 0
        <5>1. k <= Len(c.rows) /\ d.rows[k] = c.rows[k] /\ k \in 1 .. Len(c.rows)
            BY <2>20, <2>21, <2>2, <4>2
        <5> QED BY <3>1, <5>1
      <4> QED BY <4>1, <4>2
    <3> QED BY <1>3, <3>2, NoneLoadingIn
  <2>4. ASSUME n >= 0
        PROVE  Len(d.rows) = n /\ \A i \in Nat : At(d, i) = IF i < n THEN At(c, i) ELSE Empty
    <3>1. Len(d.rows) = n
          /\ \A k \in 1 .. n : d.rows[k] = IF k <= Len(c.rows) THEN c.rows[k] ELSE Empty
        BY <2>20, <2>21, <2>4
    <3>2. ASSUME NEW i \in Nat PROVE At(d, i) = IF i < n THEN At(c, i) ELSE Empty
      <4>1. CASE i < n
        <5>1. i + 1 \in 1 .. n /\ i \in 0 .. n - 1
            BY <4>1
        <5>2. At(d, i) = IF i + 1 <= Len(c.rows) THEN c.rows[i + 1] ELSE Empty
            BY <2>2, <3>1, <5>1 DEF At
        <5>3. At(c, i) = IF i + 1 <= Len(c.rows) THEN c.rows[i + 1] ELSE Empty
          <6>1. Len(c.rows) \in Nat
              BY <2>1
          <6>2. i \in 0 .. Len(c.rows) - 1 <=> i + 1 <= Len(c.rows)
              BY <6>1
          <6> QED BY <1>5, <6>2, Zenon DEF At
        <5> QED BY <4>1, <5>2, <5>3
      <4>2. CASE ~(i < n)
        <5>1. i \notin 0 .. Len(d.rows) - 1
            BY <2>4, <3>1, <4>2
        <5> QED BY <4>2, <5>1 DEF At
      <4> QED BY <4>1, <4>2
    <3> QED BY <3>1, <3>2
  <2> QED BY <1>3, <1>5, <2>1, <2>2, <2>3, <2>4 DEF d
<1> QED BY <1>4, <1>5

\* The positions that a range of rows adds
NewIn(c, start, end) == {i \in start .. end - 1 : ~IsRow(At(c, i))}

\* fillCacheData: the rows of the range are those that came, the others stay.
LEMMA FillCacheDataFacts ==
    ASSUME NEW c \in Caches, c.rows \in Seq(RowValues), NEW data \in Seq(Rows), NEW start \in Nat
    PROVE  LET d == FillCacheData(c, data, start)
               end == start + Len(data)
           IN /\ d \in Caches /\ d.rows \in Seq(RowValues) /\ d.total = c.total
              /\ d.cached = c.cached + Cardinality(NewIn(c, start, end))
              /\ IsFiniteSet(NewIn(c, start, end))
              /\ d.disordered = c.disordered /\ d.start = c.start
              /\ Len(d.rows) = IF data = <<>> THEN Len(c.rows) ELSE Most(Len(c.rows), end)
              /\ \A i \in Nat : At(d, i) = IF start <= i /\ i < end THEN data[i - start + 1]
                                                                  ELSE At(c, i)
<1> DEFINE d == FillCacheData(c, data, start)
           end == start + Len(data)
           len == IF data = <<>> THEN Len(c.rows) ELSE Most(Len(c.rows), end)
           row(i) == IF start < i /\ i <= end THEN data[i - start] ELSE At(c, i - 1)
           rows == [i \in 1 .. len |-> row(i)]
           new == Cardinality(NewIn(c, start, end))
<1>1. Len(data) \in Nat /\ end \in Nat /\ Len(c.rows) \in Nat /\ HasRows(c)
    BY WithRows
<1>2. len \in Nat /\ len >= Len(c.rows) /\ (data # <<>> => len >= end) /\ (data = <<>> => end = start)
  <2>1. Most(Len(c.rows), end) \in Int /\ Most(Len(c.rows), end) >= Len(c.rows)
        /\ Most(Len(c.rows), end) >= end
      BY <1>1 DEF Most
  <2>2. data = <<>> => Len(data) = 0
      OBVIOUS
  <2> QED BY <1>1, <2>1, <2>2
<1>3. IsFiniteSet(NewIn(c, start, end)) /\ new \in Nat
  <2>1. IsFiniteSet(start .. end - 1)
      BY <1>1, FS_Interval
  <2>2. NewIn(c, start, end) \in SUBSET (start .. end - 1)
      BY DEF NewIn
  <2> HIDE DEF end
  <2> QED BY <2>1, <2>2, FS_Subset, FS_CardinalityType
<1>4. \A i \in 1 .. len : row(i) \in RowValues
  <2> SUFFICES ASSUME NEW i \in 1 .. len PROVE row(i) \in RowValues
      OBVIOUS
  <2>1. CASE start < i /\ i <= end
    <3>1. i - start \in 1 .. Len(data)
        BY <1>1, <1>2, <2>1
    <3>2. data[i - start] \in Rows
        BY <3>1
    <3> QED BY <2>1, <3>2 DEF RowValues
  <2>2. CASE ~(start < i /\ i <= end)
    <3>1. At(c, i - 1) \in RowValues
        BY <1>2, AtFacts
    <3> QED BY <2>2, <3>1
  <2> QED BY <2>1, <2>2
<1>5. d = [c EXCEPT !.cached = c.cached + new, !.rows = rows]
    BY DEF FillCacheData, NewIn, Caches
<1> HIDE DEF row
<1>6. rows \in Seq(RowValues) /\ Len(rows) = len /\ \A i \in 1 .. len : rows[i] = row(i)
    BY <1>2, <1>4
<1> HIDE DEF rows, new
<1>7. /\ d \in Caches /\ d.rows = rows /\ d.total = c.total /\ d.cached = c.cached + new
      /\ d.disordered = c.disordered /\ d.start = c.start
  <2>1. c.cached + new \in Int
      BY <1>3, CacheFields
  <2> HIDE DEF d
  <2> QED BY <1>5, <1>6, <2>1 DEF Caches
<1> HIDE DEF d
<1>8. ASSUME NEW i \in Nat
      PROVE  At(d, i) = IF start <= i /\ i < end THEN data[i - start + 1] ELSE At(c, i)
  <2>1. At(d, i) = IF i \in 0 .. Len(d.rows) - 1 THEN d.rows[i + 1] ELSE Empty
      BY <1>6, <1>7, WithRows
  <2>2. CASE i < len
    <3>1. i + 1 \in 1 .. len /\ i \in 0 .. len - 1
        BY <1>2, <2>2
    <3>2. At(d, i) = row(i + 1)
        BY <1>6, <1>7, <2>1, <3>1
    <3>3. (i + 1) - 1 = i /\ (i + 1) - start = i - start + 1
          /\ (start < i + 1 /\ i + 1 <= end <=> start <= i /\ i < end)
        BY <1>1
    <3> QED BY <3>2, <3>3 DEF row
  <2>3. CASE ~(i < len)
    <3>1. ~(start <= i /\ i < end) /\ i \notin 0 .. len - 1 /\ i \notin 0 .. Len(c.rows) - 1
        BY <1>1, <1>2, <2>3
    <3>2. At(d, i) = Empty
        BY <1>6, <1>7, <2>1, <3>1
    <3>3. At(c, i) = Empty
        BY <3>1 DEF At
    <3> QED BY <3>1, <3>2, <3>3
  <2> QED BY <2>2, <2>3
<1>9. d.rows \in Seq(RowValues) /\ Len(d.rows) = len
    BY <1>6, <1>7
<1> QED BY <1>3, <1>7, <1>8, <1>9 DEF d, new

\* setRangeLoading marks what was not asked for before, in the range only.
LEMMA SetRangeLoadingFacts ==
    ASSUME NEW c \in Caches, NEW start \in Nat, NEW end \in Nat
    PROVE  LET d == SetRangeLoading(c, start, end)
           IN /\ d \in Caches /\ d.rows \in Seq(RowValues) /\ d.total = c.total
              /\ d.cached = c.cached /\ d.disordered = c.disordered /\ d.start = c.start
              /\ Len(d.rows) = Most(IF HasRows(c) THEN Len(c.rows) ELSE 0, end)
              /\ \A i \in Nat : At(d, i) = IF start <= i /\ i < end /\ At(c, i) = Empty
                                           THEN Loading ELSE At(c, i)
<1> DEFINE d == SetRangeLoading(c, start, end)
           old == IF HasRows(c) THEN c.rows ELSE <<>>
           len == Most(Len(old), end)
           row(i) == IF start < i /\ i <= end /\ At(c, i - 1) = Empty
                     THEN Loading ELSE At(c, i - 1)
           rows == [i \in 1 .. len |-> row(i)]
<1>1. Len(old) = (IF HasRows(c) THEN Len(c.rows) ELSE 0) /\ Len(old) \in Nat
  <2>1. CASE HasRows(c)
      BY <2>1, CacheFields
  <2>2. CASE ~HasRows(c)
      BY <2>2
  <2> QED BY <2>1, <2>2
<1>2. len \in Nat /\ len >= end /\ len >= Len(old)
    BY <1>1 DEF Most
<1>3. \A i \in 1 .. len : row(i) \in RowValues
  <2> SUFFICES ASSUME NEW i \in 1 .. len PROVE row(i) \in RowValues
      OBVIOUS
  <2>1. At(c, i - 1) \in RowValues
      BY <1>2, AtFacts
  <2> QED BY <2>1 DEF RowValues
<1>4. d = [c EXCEPT !.rows = rows]
    BY DEF SetRangeLoading
<1>5. len = Most(IF HasRows(c) THEN Len(c.rows) ELSE 0, end)
    BY <1>1
<1>6. ~HasRows(c) => Len(old) = 0
    BY <1>1
<1>7. \A i \in Int : i \notin 0 .. Len(old) - 1 => At(c, i) = Empty
    BY DEF At
<1> HIDE DEF row, old, len
<1>8. rows \in Seq(RowValues) /\ Len(rows) = len /\ \A i \in 1 .. len : rows[i] = row(i)
    BY <1>2, <1>3
<1> HIDE DEF rows
<1>9. /\ d \in Caches /\ d.rows = rows /\ d.total = c.total /\ d.cached = c.cached
      /\ d.disordered = c.disordered /\ d.start = c.start
    BY <1>4, <1>8 DEF Caches
<1> HIDE DEF d
<1>10. ASSUME NEW i \in Nat
       PROVE  At(d, i) = IF start <= i /\ i < end /\ At(c, i) = Empty THEN Loading ELSE At(c, i)
  <2>1. At(d, i) = IF i \in 0 .. Len(d.rows) - 1 THEN d.rows[i + 1] ELSE Empty
      BY <1>8, <1>9, WithRows
  <2>2. CASE i < len
    <3>1. i + 1 \in 1 .. len /\ i \in 0 .. len - 1
        BY <1>2, <2>2
    <3>2. At(d, i) = row(i + 1)
        BY <1>8, <1>9, <2>1, <3>1
    <3>3. (i + 1) - 1 = i /\ (start < i + 1 /\ i + 1 <= end <=> start <= i /\ i < end)
        OBVIOUS
    <3> QED BY <3>2, <3>3 DEF row
  <2>3. CASE ~(i < len)
    <3>1. ~(start <= i /\ i < end) /\ i \notin 0 .. len - 1 /\ i \notin 0 .. Len(old) - 1
        BY <1>1, <1>2, <2>3
    <3>2. At(d, i) = Empty
        BY <1>8, <1>9, <2>1, <3>1
    <3>3. At(c, i) = Empty
        BY <1>7, <3>1
    <3> QED BY <3>1, <3>2, <3>3
  <2> QED BY <2>2, <2>3
<1> QED BY <1>5, <1>8, <1>9, <1>10 DEF d

\* The length that a reply brings
TotalOf(x) == IF x.status = "error" THEN x.start ELSE x.total
\* Where the rows that it brings end
After(x) == x.start + Len(x.data)

\* The rows of an answer lie in the range asked for and below the length.
LEMMA RequestFacts ==
    ASSUME NEW x \in Requests, RequestOK(x), x.status \in {"ok", "error"}
    PROVE  /\ x.index \in Nat /\ x.start \in Nat /\ x.end \in Nat /\ x.start < x.end
           /\ x.data \in Seq(Rows) /\ Len(x.data) \in Nat
           /\ TotalOf(x) \in Nat /\ After(x) \in Nat
           /\ \A i \in Nat : x.start <= i /\ i < After(x) => i < TotalOf(x) /\ i < x.end
           /\ \A i \in Nat : x.start <= i /\ i < x.end /\ i < TotalOf(x) => i < After(x)
           /\ x.data # <<>> => After(x) <= TotalOf(x)
<1>1. /\ x.index \in Nat /\ x.start \in Nat /\ x.end \in Nat /\ x.start < x.end
      /\ x.data \in Seq(Rows)
    BY DEF Requests, RequestOK
<1>2. Len(x.data) \in Nat /\ (x.data = <<>> <=> Len(x.data) = 0)
    BY <1>1
<1>3. CASE x.status = "error"
  <2>1. x.data = <<>> /\ TotalOf(x) = x.start
      BY <1>3 DEF RequestOK, TotalOf
  <2>2. Len(x.data) = 0 /\ After(x) = x.start
      BY <1>1, <1>2, <2>1 DEF After
  <2> QED BY <1>1, <1>2, <2>1, <2>2
<1>4. CASE x.status = "ok"
  <2>1. TotalOf(x) = x.total /\ x.total \in Nat
        /\ Len(x.data) = IF x.start < Least(x.end, x.total)
                         THEN Least(x.end, x.total) - x.start ELSE 0
      BY <1>4 DEF RequestOK, TotalOf
  <2>2. After(x) \in Nat
      BY <1>1, <1>2 DEF After
  <2>3. CASE x.start < Least(x.end, x.total)
    <3>1. After(x) = Least(x.end, x.total)
        BY <1>1, <2>1, <2>3 DEF After, Least
    <3> QED BY <1>1, <1>2, <2>1, <2>2, <2>3, <3>1 DEF Least
  <2>4. CASE ~(x.start < Least(x.end, x.total))
    <3>1. Len(x.data) = 0 /\ x.data = <<>> /\ After(x) = x.start
        BY <1>1, <1>2, <2>1, <2>4 DEF After
    <3>2. x.total <= x.start
        BY <1>1, <2>1, <2>4 DEF Least
    <3> QED BY <1>1, <1>2, <2>1, <3>1, <3>2
  <2> QED BY <2>3, <2>4
<1> QED BY <1>3, <1>4

\* _handleNewData: the range shows the rows that came, the others stay below the length,
\* and no mark is left in the range asked for.
LEMMA HandleNewDataFacts ==
    ASSUME NEW c \in Caches, NEW x \in Requests, RequestOK(x), x.status \in {"ok", "error"}
    PROVE  LET d == HandleNewData(c, x)
           IN /\ d \in Caches /\ d.rows \in Seq(RowValues) /\ d.total = TotalOf(x)
              /\ d.disordered = c.disordered /\ d.start = c.start
              /\ Len(d.rows) = TotalOf(x)
              /\ d.cached = Least(c.cached, TotalOf(x))
                   + Cardinality(NewIn(SetFullLength(Opened(c), TotalOf(x)), x.start, After(x)))
              /\ \A i \in Nat :
                   /\ i >= TotalOf(x) => At(d, i) = Empty
                   /\ x.start <= i /\ i < After(x) => At(d, i) = x.data[i - x.start + 1]
                   /\ i < TotalOf(x) /\ ~(x.start <= i /\ i < After(x)) =>
                        At(d, i) = At(c, i) \/ (At(c, i) = Loading /\ At(d, i) = Empty)
              /\ \A i \in Nat : At(d, i) = Loading =>
                                  At(c, i) = Loading /\ ~(x.start <= i /\ i < x.end)
<1> DEFINE total == TotalOf(x)
           after == After(x)
           s == SetFullLength(Opened(c), total)
           f == FillCacheData(s, x.data, x.start)
           left(i) == i >= after /\ i < total /\ \A j \in after .. i : At(f, j) = Loading
           rows == [i \in DOMAIN f.rows |-> IF left(i - 1) THEN Empty ELSE f.rows[i]]
           d == HandleNewData(c, x)
<1>1. /\ x.start \in Nat /\ x.end \in Nat /\ x.data \in Seq(Rows) /\ Len(x.data) \in Nat
      /\ total \in Nat /\ after \in Nat
      /\ \A i \in Nat : x.start <= i /\ i < after => i < total /\ i < x.end
      /\ \A i \in Nat : x.start <= i /\ i < x.end /\ i < total => i < after
      /\ x.data # <<>> => after <= total
    BY RequestFacts
<1>2. d = [f EXCEPT !.rows = rows]
    BY DEF HandleNewData, Opened, TotalOf, After
<1>3. /\ Opened(c) \in Caches /\ HasRows(Opened(c)) /\ \A i \in Int : At(Opened(c), i) = At(c, i)
      /\ Opened(c).cached = c.cached
      /\ Opened(c).disordered = c.disordered /\ Opened(c).start = c.start
    BY OpenedFacts
<1> HIDE DEF total, after
<1>4. /\ s \in Caches /\ s.total = total /\ s.cached = Least(c.cached, total)
      /\ s.disordered = c.disordered /\ s.start = c.start /\ HasRows(s) /\ Len(s.rows) = total
      /\ \A i \in Nat : At(s, i) = IF i < total THEN At(c, i) ELSE Empty
  <2>1. /\ s \in Caches /\ s.total = total /\ s.cached = Least(Opened(c).cached, total)
        /\ s.disordered = Opened(c).disordered /\ s.start = Opened(c).start
        /\ HasRows(s) <=> HasRows(Opened(c))
        /\ HasRows(Opened(c)) /\ total >= 0 =>
             /\ Len(s.rows) = total
             /\ \A i \in Nat : At(s, i) = IF i < total THEN At(Opened(c), i) ELSE Empty
    <3>1. total \in Int
        BY <1>1
    <3> HIDE DEF s
    <3> QED BY <1>3, <3>1, SetFullLengthFacts DEF s
  <2>2. total >= 0
      BY <1>1
  <2> HIDE DEF s
  <2> QED BY <1>3, <2>1, <2>2
<1>5. s.rows \in Seq(RowValues)
    BY <1>4, CacheFields
<1> HIDE DEF s
<1>6. /\ f \in Caches /\ f.rows \in Seq(RowValues) /\ f.total = total
      /\ f.cached = Least(c.cached, total) + Cardinality(NewIn(s, x.start, after))
      /\ f.disordered = c.disordered /\ f.start = c.start
      /\ Len(f.rows) = IF x.data = <<>> THEN total ELSE Most(total, after)
      /\ \A i \in Nat : At(f, i) = IF x.start <= i /\ i < after THEN x.data[i - x.start + 1]
                                   ELSE At(s, i)
  <2>1. /\ f \in Caches /\ f.rows \in Seq(RowValues) /\ f.total = s.total
        /\ f.cached = s.cached + Cardinality(NewIn(s, x.start, x.start + Len(x.data)))
        /\ f.disordered = s.disordered /\ f.start = s.start
        /\ Len(f.rows) = IF x.data = <<>> THEN Len(s.rows) ELSE Most(Len(s.rows), x.start + Len(x.data))
        /\ \A i \in Nat : At(f, i) = IF x.start <= i /\ i < x.start + Len(x.data)
                                     THEN x.data[i - x.start + 1] ELSE At(s, i)
    <3>1. s \in Caches /\ s.rows \in Seq(RowValues) /\ x.data \in Seq(Rows) /\ x.start \in Nat
        BY <1>1, <1>4, <1>5
    <3> HIDE DEF f
    <3> QED BY <3>1, FillCacheDataFacts DEF f
  <2>2. after = x.start + Len(x.data)
      BY DEF after, After
  <2> HIDE DEF f
  <2> QED BY <1>4, <2>1, <2>2
<1>7. Len(f.rows) = total /\ DOMAIN f.rows = 1 .. total
  <2>1. x.data # <<>> => Most(total, after) = total
      BY <1>1 DEF Most
  <2> HIDE DEF f
  <2> QED BY <1>6, <2>1
<1> HIDE DEF f, left
<1>8. \A i \in 1 .. total : f.rows[i] \in RowValues
    BY <1>6, <1>7
<1>9. rows \in Seq(RowValues) /\ Len(rows) = total
      /\ \A i \in 1 .. total : rows[i] = IF left(i - 1) THEN Empty ELSE f.rows[i]
  <2>1. rows = [i \in 1 .. total |-> IF left(i - 1) THEN Empty ELSE f.rows[i]]
      BY <1>7
  <2>2. \A i \in 1 .. total : (IF left(i - 1) THEN Empty ELSE f.rows[i]) \in RowValues
      BY <1>8 DEF RowValues
  <2> DEFINE q(i) == IF left(i - 1) THEN Empty ELSE f.rows[i]
  <2>3. rows = [i \in 1 .. total |-> q(i)] /\ \A i \in 1 .. total : q(i) \in RowValues
      BY <2>1, <2>2
  <2> HIDE DEF q, rows
  <2>4. rows \in Seq(RowValues) /\ Len(rows) = total /\ \A i \in 1 .. total : rows[i] = q(i)
      BY <1>1, <2>3
  <2> QED BY <2>4 DEF q
<1> HIDE DEF rows
<1>10. /\ d \in Caches /\ d.rows = rows /\ d.total = total /\ d.cached = f.cached
       /\ d.disordered = c.disordered /\ d.start = c.start
  <2> HIDE DEF d
  <2> QED BY <1>2, <1>6, <1>9 DEF Caches
<1> HIDE DEF d
<1>11. \A i \in Nat : At(d, i) = IF i < total THEN (IF left(i) THEN Empty ELSE At(f, i)) ELSE Empty
  <2> SUFFICES ASSUME NEW i \in Nat
               PROVE At(d, i) = IF i < total THEN (IF left(i) THEN Empty ELSE At(f, i)) ELSE Empty
      OBVIOUS
  <2>1. At(d, i) = IF i \in 0 .. Len(rows) - 1 THEN rows[i + 1] ELSE Empty
      BY <1>9, <1>10, WithRows
  <2>2. At(f, i) = IF i \in 0 .. Len(f.rows) - 1 THEN f.rows[i + 1] ELSE Empty
      BY <1>6, WithRows
  <2>3. CASE i < total
    <3>1. i \in 0 .. total - 1 /\ i + 1 \in 1 .. total /\ (i + 1) - 1 = i
        BY <1>1, <2>3
    <3> QED BY <1>7, <1>9, <2>1, <2>2, <2>3, <3>1
  <2>4. CASE ~(i < total)
    <3>1. i \notin 0 .. total - 1
        BY <1>1, <2>4
    <3> QED BY <1>9, <2>1, <2>4, <3>1
  <2> QED BY <2>3, <2>4
<1>12. ASSUME NEW i \in Nat
       PROVE  /\ i >= total => At(d, i) = Empty
              /\ x.start <= i /\ i < after => At(d, i) = x.data[i - x.start + 1]
              /\ i < total /\ ~(x.start <= i /\ i < after) =>
                   At(d, i) = At(c, i) \/ (At(c, i) = Loading /\ At(d, i) = Empty)
  <2>1. i >= total <=> ~(i < total)
      BY <1>1
  <2>2. ASSUME x.start <= i, i < after PROVE At(d, i) = x.data[i - x.start + 1]
    <3>1. i < total /\ ~left(i)
        BY <1>1, <2>2 DEF left
    <3> QED BY <1>6, <1>11, <2>2, <3>1
  <2>3. ASSUME i < total, ~(x.start <= i /\ i < after)
        PROVE  At(d, i) = At(c, i) \/ (At(c, i) = Loading /\ At(d, i) = Empty)
    <3>1. At(f, i) = At(c, i)
        BY <1>4, <1>6, <2>3
    <3>2. CASE left(i)
      <4>1. i \in after .. i
          BY <1>1, <3>2 DEF left
      <4>2. At(f, i) = Loading
          BY <3>2, <4>1 DEF left
      <4> QED BY <1>11, <2>3, <3>1, <3>2, <4>2
    <3>3. CASE ~left(i)
        BY <1>11, <2>3, <3>1, <3>3
    <3> QED BY <3>2, <3>3
  <2> QED BY <1>11, <2>1, <2>2, <2>3
<1>13. ASSUME NEW i \in Nat, At(d, i) = Loading
       PROVE  At(c, i) = Loading /\ ~(x.start <= i /\ i < x.end)
  <2>1. i < total
      BY <1>1, <1>12, <1>13, Numbers
  <2>2. ~(x.start <= i /\ i < after)
    <3> SUFFICES ASSUME x.start <= i, i < after PROVE FALSE
        OBVIOUS
    <3>1. i - x.start + 1 \in 1 .. Len(x.data)
        BY <1>1 DEF after, After
    <3>2. At(d, i) \in Rows
        BY <1>1, <1>12, <3>1
    <3> QED BY <1>13, <3>2, Numbers
  <2> QED BY <1>1, <1>12, <1>13, <2>1, <2>2, Numbers
<1>14. d.rows \in Seq(RowValues) /\ Len(d.rows) = total
    BY <1>9, <1>10
<1>15. d.cached = Least(c.cached, total) + Cardinality(NewIn(s, x.start, after))
    BY <1>6, <1>10
<1>16. total = TotalOf(x) /\ after = After(x) /\ s = SetFullLength(Opened(c), TotalOf(x))
    BY DEF total, after, s
<1> QED BY <1>10, <1>12, <1>13, <1>14, <1>15, <1>16 DEF d

--------------------------------------------------------------------------------
(* Fetching ahead *)

\* The first position from a up to b that is not loaded, and the last from a down to b
FirstMissing(c, a, b) ==
    IF \E i \in a .. b : ~IsRow(At(c, i))
    THEN CHOOSE i \in a .. b : ~IsRow(At(c, i)) /\ \A j \in a .. i - 1 : ~~IsRow(At(c, j))
    ELSE b + 1
LastMissing(c, a, b) ==
    IF \E i \in b .. a : ~IsRow(At(c, i))
    THEN CHOOSE i \in b .. a : ~IsRow(At(c, i)) /\ \A j \in i + 1 .. a : ~~IsRow(At(c, j))
    ELSE b - 1

\* The first missing position is one of the range, or follows it.
LEMMA FirstMissingFacts ==
    ASSUME NEW c, NEW a \in Nat, NEW b \in Int, a <= b + 1
    PROVE  /\ FirstMissing(c, a, b) \in a .. b + 1
           /\ a <= b /\ ~IsRow(At(c, b)) => FirstMissing(c, a, b) \in a .. b
<1> DEFINE T == {i \in a .. b : ~IsRow(At(c, i))}
<1>1. CASE T = {}
  <2>1. ~\E i \in a .. b : ~IsRow(At(c, i))
      BY <1>1
  <2>2. FirstMissing(c, a, b) = b + 1
      BY <2>1 DEF FirstMissing
  <2>3. ~(a <= b /\ ~IsRow(At(c, b)))
    <3>1. a <= b => b \in a .. b
        OBVIOUS
    <3> QED BY <2>1, <3>1
  <2> QED BY <2>2, <2>3
<1>2. CASE T # {}
  <2>1. T \subseteq Nat
      OBVIOUS
  <2> DEFINE good(i) == ~IsRow(At(c, i)) /\ \A j \in a .. i - 1 : ~~IsRow(At(c, j))
  <2>2. \E i \in a .. b : good(i)
    <3> HIDE DEF T
    <3>1. PICK i \in T : \A j \in T : i <= j
        BY <1>2, <2>1, NatMin
    <3>2. i \in a .. b /\ ~IsRow(At(c, i))
        BY DEF T
    <3>3. ASSUME NEW j \in a .. i - 1 PROVE IsRow(At(c, j))
      <4> SUFFICES ASSUME ~IsRow(At(c, j)) PROVE FALSE
          OBVIOUS
      <4>1. j \in a .. b /\ j < i /\ j \in Int /\ i \in Int
          BY <3>2
      <4>2. i <= j
          BY <3>1, <4>1 DEF T
      <4> QED BY <4>1, <4>2
    <3> QED BY <3>2, <3>3
  <2>3. FirstMissing(c, a, b) = CHOOSE i \in a .. b : good(i)
    <3>1. \E i \in a .. b : ~IsRow(At(c, i))
        BY <1>2
    <3> QED BY <3>1 DEF FirstMissing
  <2> HIDE DEF good
  <2>4. FirstMissing(c, a, b) \in a .. b
      BY <2>2, <2>3
  <2> QED BY <2>4
<1> QED BY <1>1, <1>2

\* The last missing position is one of the range, or is before it.
LEMMA LastMissingFacts ==
    ASSUME NEW c, NEW a \in Int, NEW b \in Nat, b <= a + 1
    PROVE  /\ LastMissing(c, a, b) \in b - 1 .. a
           /\ b <= a /\ ~IsRow(At(c, b)) => LastMissing(c, a, b) \in b .. a
<1> DEFINE T == {i \in b .. a : ~IsRow(At(c, i))}
<1>1. CASE T = {}
  <2>1. ~\E i \in b .. a : ~IsRow(At(c, i))
      BY <1>1
  <2>2. LastMissing(c, a, b) = b - 1
      BY <2>1 DEF LastMissing
  <2>3. ~(b <= a /\ ~IsRow(At(c, b)))
    <3>1. b <= a => b \in b .. a
        OBVIOUS
    <3> QED BY <2>1, <3>1
  <2> QED BY <2>2, <2>3
<1>2. CASE T # {}
  <2>1. T \subseteq Nat
      OBVIOUS
  <2> DEFINE good(i) == ~IsRow(At(c, i)) /\ \A j \in i + 1 .. a : ~~IsRow(At(c, j))
  <2>2. \E i \in b .. a : good(i)
    <3>0. b <= a /\ a \in Nat /\ \A i \in T : i <= a
        BY <1>2
    <3> HIDE DEF T
    <3>1. PICK i \in T : \A j \in T : j <= i
        BY <1>2, <2>1, <3>0, NatMax
    <3>2. i \in b .. a /\ ~IsRow(At(c, i))
        BY DEF T
    <3>3. ASSUME NEW j \in i + 1 .. a PROVE IsRow(At(c, j))
      <4> SUFFICES ASSUME ~IsRow(At(c, j)) PROVE FALSE
          OBVIOUS
      <4>1. j \in b .. a /\ j > i /\ j \in Int /\ i \in Int
          BY <3>2
      <4>2. j <= i
          BY <3>1, <4>1 DEF T
      <4> QED BY <4>1, <4>2
    <3> QED BY <3>2, <3>3
  <2>3. LastMissing(c, a, b) = CHOOSE i \in b .. a : good(i)
    <3>1. \E i \in b .. a : ~IsRow(At(c, i))
        BY <1>2
    <3> QED BY <3>1 DEF LastMissing
  <2> HIDE DEF good
  <2>4. LastMissing(c, a, b) \in b .. a
      BY <2>2, <2>3
  <2> QED BY <2>4
<1> QED BY <1>1, <1>2

\* The range that is fetched ahead begins at the first missing row or before it, not
\* before position 0, and ends after the last one.
LEMMA FetchAheadFacts ==
    ASSUME NEW c, NEW start \in Nat, NEW end \in Nat, NEW first \in start .. end - 1,
           NEW final \in first .. end - 1, end <= start + PageSize,
           Length(c) \in Int, final <= Length(c),
           ~IsRow(At(c, first)), ~IsRow(At(c, final))
    PROVE  LET range == FetchAhead(c, start, end, first, final)
           IN range \in Nat \X Nat /\ range[1] <= first /\ final < range[2]
<1> DEFINE margin == (PageSize - (final - first)) \div 2
           low == Most(0, first - Least(first, margin))
           high == Least(Length(c), final + margin)
           f == FirstMissing(c, low, first)
           l == LastMissing(c, high, final)
           range == IF f = 0 \/ (f > low /\ l = high)
                    THEN <<f, Most(f + PageSize, end)>>
                    ELSE IF f = low /\ l < high
                    THEN <<Least((l + 1) - Least(l + 1, PageSize), start), l + 1>>
                    ELSE <<Least(low, start), Most(high, end)>>
           from == IF range[1] < low THEN FirstMissing(c, range[1], low - 1) ELSE range[1]
           to == IF range[2] - 1 > high THEN LastMissing(c, range[2] - 1, high + 1) + 1 ELSE range[2]
<1>1. FetchAhead(c, start, end, first, final) = <<from, to>>
    BY DEF FetchAhead, FirstMissing, LastMissing
<1>2. first \in Nat /\ final \in Nat /\ start <= first /\ first <= final /\ final < end
      /\ PageSize \in Nat /\ PageSize >= 1
    BY Numbers
<1>3. margin \in Nat
  <2>1. PageSize - (final - first) \in Nat
      BY <1>2
  <2> QED BY <2>1
<1> HIDE DEF margin
<1>4. low \in Nat /\ low <= first
    BY <1>2, <1>3 DEF Least, Most
<1>5. high \in Nat /\ final <= high
    BY <1>2, <1>3 DEF Least
<1> HIDE DEF low, high
<1>6. f \in Nat /\ low <= f /\ f <= first
  <2>1. f \in low .. first
      BY <1>2, <1>4, FirstMissingFacts
  <2> QED BY <1>4, <2>1
<1>7. l \in Nat /\ final <= l /\ l <= high
  <2>1. l \in final .. high
      BY <1>2, <1>5, LastMissingFacts
  <2> QED BY <1>5, <2>1
<1> HIDE DEF f, l
<1>8. range[1] \in Nat /\ range[1] <= first /\ range[2] \in Nat /\ final < range[2]
  <2>1. CASE f = 0 \/ (f > low /\ l = high)
    <3>1. Most(f + PageSize, end) \in Nat /\ final < Most(f + PageSize, end)
        BY <1>2, <1>6 DEF Most
    <3>2. range = <<f, Most(f + PageSize, end)>>
        BY <2>1
    <3> QED BY <1>6, <3>1, <3>2
  <2>2. CASE ~(f = 0 \/ (f > low /\ l = high)) /\ f = low /\ l < high
    <3>1. Least((l + 1) - Least(l + 1, PageSize), start) \in Nat
          /\ Least((l + 1) - Least(l + 1, PageSize), start) <= first
        BY <1>2, <1>7 DEF Least
    <3>2. range = <<Least((l + 1) - Least(l + 1, PageSize), start), l + 1>>
        BY <2>2
    <3>3. l + 1 \in Nat /\ final < l + 1
        BY <1>2, <1>7
    <3> QED BY <3>1, <3>2, <3>3
  <2>3. CASE ~(f = 0 \/ (f > low /\ l = high)) /\ ~(f = low /\ l < high)
    <3>1. Least(low, start) \in Nat /\ Least(low, start) <= first
        BY <1>2, <1>4 DEF Least
    <3>2. Most(high, end) \in Nat /\ final < Most(high, end)
        BY <1>2, <1>5 DEF Most
    <3>3. range = <<Least(low, start), Most(high, end)>>
        BY <2>3
    <3> QED BY <3>1, <3>2, <3>3
  <2> QED BY <2>1, <2>2, <2>3
<1> HIDE DEF range
<1>9. from \in Nat /\ from <= first
  <2>1. CASE range[1] < low
    <3>1. FirstMissing(c, range[1], low - 1) \in range[1] .. (low - 1) + 1
        BY <1>4, <1>8, <2>1, FirstMissingFacts
    <3> QED BY <1>2, <1>4, <1>8, <2>1, <3>1
  <2>2. CASE ~(range[1] < low)
      BY <1>8, <2>2
  <2> QED BY <2>1, <2>2
<1>10. to \in Nat /\ final < to
  <2>1. CASE range[2] - 1 > high
    <3>1. LastMissing(c, range[2] - 1, high + 1) \in (high + 1) - 1 .. range[2] - 1
        BY <1>5, <1>8, <2>1, LastMissingFacts
    <3> QED BY <1>2, <1>5, <1>8, <2>1, <3>1
  <2>2. CASE ~(range[2] - 1 > high)
      BY <1>8, <2>2
  <2> QED BY <2>1, <2>2
<1> HIDE DEF from, to
<1> QED BY <1>1, <1>9, <1>10

--------------------------------------------------------------------------------
(* A run of replies *)

\* What is in hand while replies are processed
States == [cache : Caches, last : Nat, held : SUBSET {x \in Requests : RequestOK(x)
                                                              /\ x.status # "asked"},
           ghost : Ghosts]

\* What it means that a reply is taken in
MarksBy(x) == (IF x.criteria # criteria THEN {"mixed"} ELSE {})
                \cup (IF x.status = "error" THEN {"failed"} ELSE {})

\* What happened is only added to.
LEMMA MoreMarks ==
    ASSUME NEW g \in Ghosts, NEW marks \in SUBSET Marks
    PROVE  /\ Happened(g, marks) \in Ghosts /\ Happened(g, marks).marks = g.marks \cup marks
           /\ Disturbed(g) \in Ghosts /\ Disturbed(g).marks = g.marks
<1>1. g.marks \subseteq Marks /\ g.disturbed \in Nat
    BY DEF Ghosts
<1> DEFINE m == g.marks \cup marks
<1>2. Happened(g, marks) = [g EXCEPT !.marks = m] /\ m \in SUBSET Marks
    BY <1>1 DEF Happened
<1> HIDE DEF m
<1>3. Happened(g, marks) \in Ghosts /\ Happened(g, marks).marks = m
    BY <1>2 DEF Ghosts
<1>4. Disturbed(g) \in Ghosts /\ Disturbed(g).marks = g.marks
    BY <1>1 DEF Disturbed, Ghosts
<1> QED BY <1>3, <1>4 DEF m

\* One reply: nothing happens if none is in turn.
LEMMA OneReply ==
    ASSUME NEW s \in States
    PROVE  \/ InTurn(s) = {} /\ Processed(s) = s
           \/ \E x \in InTurn(s) :
                 /\ x \in Requests /\ RequestOK(x) /\ x \in s.held /\ x.index = s.last + 1
                 /\ Processed(s) \in States
                 /\ Processed(s).held = s.held \ {x}
                 /\ \/ /\ x.status = "bad"
                       /\ Processed(s).cache = s.cache /\ Processed(s).last = s.last
                       /\ Processed(s).ghost.marks = s.ghost.marks \cup {"bad"}
                    \/ /\ x.status \in {"ok", "error"}
                       /\ Processed(s).cache = HandleNewData(s.cache, x)
                       /\ Processed(s).last = x.index
                       /\ Processed(s).ghost.marks = s.ghost.marks \cup MarksBy(x)
<1>1. CASE InTurn(s) = {}
    BY <1>1 DEF Processed
<1>2. CASE InTurn(s) # {}
  <2> DEFINE x == CHOOSE x \in InTurn(s) : TRUE
  <2>1. x \in InTurn(s)
      BY <1>2
  <2>2. Processed(s) = IF x.status = "bad"
            THEN [s EXCEPT !.held = @ \ {x}, !.ghost = Happened(@, {"bad"})]
            ELSE [cache |-> HandleNewData(s.cache, x), last |-> x.index,
                  held |-> s.held \ {x}, ghost |-> Happened(s.ghost, MarksBy(x))]
      BY <1>2 DEF Processed, MarksBy
  <2> HIDE DEF x
  <2>3. /\ s.cache \in Caches /\ s.last \in Nat /\ s.ghost \in Ghosts
        /\ s.held \in SUBSET {y \in Requests : RequestOK(y) /\ y.status # "asked"}
      BY DEF States
  <2>4. /\ x \in s.held /\ x.index = s.last + 1 /\ x \in Requests /\ RequestOK(x)
        /\ x.status # "asked" /\ x.status \in {"asked", "ok", "error", "bad"}
    <3>1. x \in s.held /\ x.index = s.last + 1
        BY <2>1 DEF InTurn
    <3> QED BY <2>3, <3>1 DEF Requests
  <2> DEFINE h == s.held \ {x}
  <2>5. h \in SUBSET {y \in Requests : RequestOK(y) /\ y.status # "asked"}
      BY <2>3
  <2>6. CASE x.status = "bad"
    <3> DEFINE g == Happened(s.ghost, {"bad"})
    <3>1. g \in Ghosts /\ g.marks = s.ghost.marks \cup {"bad"}
        BY <2>3, MoreMarks DEF Marks
    <3>2. Processed(s) = [s EXCEPT !.held = h, !.ghost = g]
        BY <2>2, <2>6
    <3> HIDE DEF g, h
    <3>3. /\ Processed(s) \in States /\ Processed(s).held = h /\ Processed(s).ghost = g
          /\ Processed(s).cache = s.cache /\ Processed(s).last = s.last
        BY <2>5, <3>1, <3>2 DEF States
    <3> QED BY <2>1, <2>4, <2>6, <3>1, <3>3 DEF h
  <2>7. CASE x.status # "bad"
    <3> DEFINE g == Happened(s.ghost, MarksBy(x))
               c == HandleNewData(s.cache, x)
    <3>1. g \in Ghosts /\ g.marks = s.ghost.marks \cup MarksBy(x)
      <4>1. MarksBy(x) \in SUBSET Marks
          BY DEF MarksBy, Marks
      <4> QED BY <2>3, <4>1, MoreMarks
    <3>2. Processed(s) = [cache |-> c, last |-> x.index, held |-> h, ghost |-> g]
        BY <2>2, <2>7
    <3>3. c \in Caches /\ x.status \in {"ok", "error"} /\ x.index \in Nat
      <4>1. x.status \in {"ok", "error"} /\ x.index \in Nat
          BY <2>4, <2>7 DEF Requests
      <4> QED BY <2>3, <2>4, <4>1, HandleNewDataFacts
    <3> HIDE DEF g, h, c
    <3>4. /\ Processed(s) \in States /\ Processed(s).held = h /\ Processed(s).ghost = g
          /\ Processed(s).cache = c /\ Processed(s).last = x.index
        BY <2>5, <3>1, <3>2, <3>3 DEF States
    <3> QED BY <2>1, <2>4, <3>1, <3>3, <3>4 DEF h, c
  <2> QED BY <2>6, <2>7
<1> QED BY <1>1, <1>2

\* Settled is the last of a run of Processed.
LEMMA SettledIsReached ==
    ASSUME NEW first, sent \in Nat
    PROVE  \E f : /\ f[0] = first /\ Settled(first) = f[sent]
                  /\ \A n \in 1 .. sent : f[n] = Processed(f[n - 1])
<1> DEFINE Rec(f, N) == f = [n \in 0 .. N |-> IF n = 0 THEN first ELSE Processed(f[n - 1])]
           Without1 == {N \in Nat : ~\E f : Rec(f, N)}
<1>1. Without1 = {}
  <2> SUFFICES ASSUME Without1 # {} PROVE FALSE
      OBVIOUS
  <2>1. Without1 \subseteq Nat
      OBVIOUS
  <2> HIDE DEF Without1
  <2>2. PICK N \in Without1 : \A M \in Without1 : N <= M
      BY <2>1, NatMin
  <2> USE DEF Without1
  <2>3. N \in Nat /\ ~\E f : Rec(f, N)
      OBVIOUS
  <2>4. N # 0
    <3> SUFFICES ASSUME N = 0 PROVE FALSE
        OBVIOUS
    <3> DEFINE f == [n \in 0 .. 0 |-> first]
    <3>1. Rec(f, 0)
      <4>1. \A n \in 0 .. 0 : n = 0
          OBVIOUS
      <4>2. f = [n \in 0 .. 0 |-> IF n = 0 THEN first ELSE Processed(f[n - 1])]
          BY <4>1, Zenon
      <4> QED BY <4>2
    <3> HIDE DEF f, Rec
    <3> QED BY <2>3, <3>1
  <2>5. N - 1 \in Nat /\ N - 1 \notin Without1
    <3> HIDE DEF Without1
    <3> QED BY <2>2, <2>3, <2>4
  <2>6. PICK f : Rec(f, N - 1)
      BY <2>5
  <2> DEFINE g == [n \in 0 .. N |-> IF n = 0 THEN first ELSE Processed(f[n - 1])]
  <2>7. \A n \in 0 .. N - 1 : g[n] = f[n]
    <3>1. \A n \in 0 .. N - 1 : n \in 0 .. N
        BY <2>3
    <3>2. \A n \in 0 .. N - 1 : f[n] = IF n = 0 THEN first ELSE Processed(f[n - 1])
        BY <2>6
    <3> QED BY <3>1, <3>2
  <2>8. \A n \in 0 .. N : n # 0 => g[n - 1] = f[n - 1]
    <3>1. \A n \in 0 .. N : n # 0 => n - 1 \in 0 .. N - 1
        BY <2>3
    <3> HIDE DEF g
    <3> QED BY <2>7, <3>1
  <2>9. \A n \in 0 .. N : (IF n = 0 THEN first ELSE Processed(f[n - 1]))
                          = (IF n = 0 THEN first ELSE Processed(g[n - 1]))
    <3> HIDE DEF g
    <3> QED BY <2>8, Zenon
  <2>10. Rec(g, N)
    <3> DEFINE a(n) == IF n = 0 THEN first ELSE Processed(f[n - 1])
               b(n) == IF n = 0 THEN first ELSE Processed(g[n - 1])
    <3>1. g = [n \in 0 .. N |-> a(n)] /\ \A n \in 0 .. N : a(n) = b(n)
        BY <2>9
    <3> HIDE DEF g, a
    <3>2. g = [n \in 0 .. N |-> b(n)]
        BY <3>1
    <3> QED BY <3>2
  <2> HIDE DEF g, Rec
  <2> QED BY <2>3, <2>10
<1>2. \E f : Rec(f, sent)
    BY <1>1
<1> DEFINE f == CHOOSE f : Rec(f, sent)
<1>3. Rec(f, sent)
  <2> HIDE DEF Rec
  <2> QED BY <1>2
<1>4. Settled(first) = f[sent]
    BY DEF Settled
<1> HIDE DEF f
<1>5. \A n \in 0 .. sent : f[n] = IF n = 0 THEN first ELSE Processed(f[n - 1])
    BY <1>3
<1>6. 0 \in 0 .. sent /\ \A n \in 1 .. sent : n \in 0 .. sent /\ n # 0
    OBVIOUS
<1>7. f[0] = first /\ \A n \in 1 .. sent : f[n] = Processed(f[n - 1])
    BY <1>5, <1>6
<1> QED BY <1>4, <1>7

\* What every reply keeps holds at the end.
LEMMA SettledKeeps ==
    ASSUME NEW G, NEW first \in G, sent \in Nat, \A s \in G : Processed(s) \in G
    PROVE  Settled(first) \in G
<1>1. PICK f : /\ f[0] = first /\ Settled(first) = f[sent]
               /\ \A n \in 1 .. sent : f[n] = Processed(f[n - 1])
    BY SettledIsReached
<1> DEFINE Bad == {n \in 0 .. sent : f[n] \notin G}
<1>2. Bad = {}
  <2> SUFFICES ASSUME Bad # {} PROVE FALSE
      OBVIOUS
  <2>1. Bad \subseteq Nat
      OBVIOUS
  <2> HIDE DEF Bad
  <2>2. PICK n \in Bad : \A m \in Bad : n <= m
      BY <2>1, NatMin
  <2>3. n \in 0 .. sent /\ f[n] \notin G
      BY DEF Bad
  <2>4. n # 0
      BY <1>1, <2>3
  <2>5. n \in 1 .. sent /\ n - 1 \in 0 .. sent /\ ~(n <= n - 1)
      BY <2>3, <2>4
  <2>6. f[n - 1] \in G
      BY <2>2, <2>5 DEF Bad
  <2> QED BY <1>1, <2>3, <2>5, <2>6
<1> QED BY <1>1, <1>2

\* Requests have numbers of their own, after the last one processed.
Indexes(w, h, l, n) ==
    /\ \A x \in w \cup h : l < x.index /\ x.index <= n
    /\ \A x, y \in w : x.index = y.index => x = y
    /\ \A x, y \in h : x.index = y.index => x = y
    /\ \A x \in w, y \in h : x.index # y.index

\* Each request not processed is outstanding, unless a bad reply was thrown away.
NoneLost(w, h, l, n, marks) ==
    marks \cap {"bad"} = {} => \A k \in l + 1 .. n : \E x \in w \cup h : x.index = k

\* A row shown as loading is asked for.
Covered(w, h, c, marks) ==
    marks \cap {"late", "bad"} = {} =>
        \A i \in Nat : At(c, i) = Loading => \E x \in w \cup h : x.start <= i /\ i < x.end

\* What is in hand while w is on the wire and n was sent last
InHand(w, n) == {s \in States : /\ s.last <= n
                                /\ Indexes(w, s.held, s.last, n)
                                /\ NoneLost(w, s.held, s.last, n, s.ghost.marks)
                                /\ Covered(w, s.held, s.cache, s.ghost.marks)}

\* fetchRemoteDataReply keeps the replies in sequence and none is lost; once one is not
\* in turn it changes nothing any more.
LEMMA ProcessedInHand ==
    ASSUME NEW w \in SUBSET Requests, NEW n \in Nat, NEW s \in InHand(w, n)
    PROVE  /\ Processed(s) \in InHand(w, n)
           /\ InTurn(s) = {} => Processed(s) = s
           /\ InTurn(s) # {} => \/ InTurn(Processed(s)) = {}
                                \/ Processed(s).last = s.last + 1
<1> DEFINE p == Processed(s)
<1>1. /\ s \in States /\ s.last <= n /\ s.last \in Nat /\ s.held \subseteq Requests
      /\ s.cache \in Caches
      /\ Indexes(w, s.held, s.last, n)
      /\ NoneLost(w, s.held, s.last, n, s.ghost.marks)
      /\ Covered(w, s.held, s.cache, s.ghost.marks)
    BY DEF InHand, States
<1>2. CASE InTurn(s) = {}
  <2>1. p = s
      BY <1>1, <1>2, OneReply
  <2> QED BY <1>2, <2>1
<1>3. CASE InTurn(s) # {}
  <2>1. PICK x \in InTurn(s) :
                 /\ x \in Requests /\ RequestOK(x) /\ x \in s.held /\ x.index = s.last + 1
                 /\ p \in States
                 /\ p.held = s.held \ {x}
                 /\ \/ /\ x.status = "bad"
                       /\ p.cache = s.cache /\ p.last = s.last
                       /\ p.ghost.marks = s.ghost.marks \cup {"bad"}
                    \/ /\ x.status \in {"ok", "error"}
                       /\ p.cache = HandleNewData(s.cache, x)
                       /\ p.last = x.index
                       /\ p.ghost.marks = s.ghost.marks \cup MarksBy(x)
      BY <1>1, <1>3, OneReply
  <2> HIDE DEF p
  <2>2. s.last < x.index /\ x.index <= n
      BY <1>1, <2>1 DEF Indexes
  <2>3. \A y \in p.held : y \in s.held /\ y # x /\ y.index # x.index
      BY <1>1, <2>1 DEF Indexes
  <2>4. \A y \in w : y.index # x.index
      BY <1>1, <2>1 DEF Indexes
  <2>5. CASE x.status = "bad"
    <3>1. p.cache = s.cache /\ p.last = s.last /\ "bad" \in p.ghost.marks
        BY <2>1, <2>5
    <3>2. Indexes(w, p.held, p.last, n)
        BY <1>1, <2>3, <3>1 DEF Indexes
    <3>3. NoneLost(w, p.held, p.last, n, p.ghost.marks)
          /\ Covered(w, p.held, p.cache, p.ghost.marks)
        BY <3>1 DEF NoneLost, Covered
    <3>4. InTurn(p) = {}
        BY <2>1, <2>3, <3>1 DEF InTurn
    <3> QED BY <1>1, <1>3, <2>1, <3>1, <3>2, <3>3, <3>4 DEF InHand, p
  <2>6. CASE x.status # "bad"
    <3>1. p.cache = HandleNewData(s.cache, x) /\ p.last = x.index /\ x.status \in {"ok", "error"}
          /\ p.ghost.marks = s.ghost.marks \cup MarksBy(x) /\ p.last = s.last + 1
        BY <2>1, <2>6
    <3>2. Indexes(w, p.held, p.last, n)
      <4>1. \A y \in w \cup p.held : p.last < y.index /\ y.index <= n
        <5> SUFFICES ASSUME NEW y \in w \cup p.held PROVE p.last < y.index /\ y.index <= n
            OBVIOUS
        <5>1. s.last < y.index /\ y.index <= n /\ y.index # s.last + 1 /\ y.index \in Nat
            BY <1>1, <2>1, <2>3, <2>4 DEF Indexes, Requests
        <5> QED BY <1>1, <3>1, <5>1
      <4> QED BY <1>1, <2>3, <4>1 DEF Indexes
    <3>3. NoneLost(w, p.held, p.last, n, p.ghost.marks)
      <4> SUFFICES ASSUME p.ghost.marks \cap {"bad"} = {}, NEW k \in p.last + 1 .. n
                   PROVE  \E y \in w \cup p.held : y.index = k
          BY DEF NoneLost
      <4>1. k \in s.last + 1 .. n /\ k # x.index /\ s.ghost.marks \cap {"bad"} = {}
          BY <1>1, <2>1, <3>1
      <4>2. PICK y \in w \cup s.held : y.index = k
          BY <1>1, <4>1 DEF NoneLost
      <4>3. y \in w \cup p.held
          BY <2>1, <4>1, <4>2
      <4> QED BY <4>2, <4>3
    <3>4. Covered(w, p.held, p.cache, p.ghost.marks)
      <4> SUFFICES ASSUME p.ghost.marks \cap {"late", "bad"} = {}, NEW i \in Nat,
                          At(p.cache, i) = Loading
                   PROVE  \E y \in w \cup p.held : y.start <= i /\ i < y.end
          BY DEF Covered
      <4>1. At(s.cache, i) = Loading /\ ~(x.start <= i /\ i < x.end)
          BY <1>1, <2>1, <3>1, HandleNewDataFacts
      <4>2. PICK y \in w \cup s.held : y.start <= i /\ i < y.end
          BY <1>1, <3>1, <4>1 DEF Covered
      <4>3. y \in w \cup p.held
          BY <2>1, <4>1, <4>2
      <4> QED BY <4>2, <4>3
    <3> QED BY <1>1, <1>3, <2>1, <2>2, <3>1, <3>2, <3>3, <3>4 DEF InHand, p
  <2> QED BY <2>5, <2>6
<1> QED BY <1>2, <1>3

\* Once the replies that follow are processed nobody is in turn any more.
LEMMA SettledInHand ==
    ASSUME NEW w \in SUBSET Requests, sent \in Nat, NEW first \in InHand(w, sent)
    PROVE  Settled(first) \in InHand(w, sent) /\ InTurn(Settled(first)) = {}
<1>1. Settled(first) \in InHand(w, sent)
  <2>1. \A s \in InHand(w, sent) : Processed(s) \in InHand(w, sent)
      BY ProcessedInHand
  <2> QED BY <2>1, SettledKeeps
<1>2. PICK f : /\ f[0] = first /\ Settled(first) = f[sent]
               /\ \A n \in 1 .. sent : f[n] = Processed(f[n - 1])
    BY SettledIsReached
<1> DEFINE Done(n) == /\ f[n] \in InHand(w, sent)
                      /\ InTurn(f[n]) = {} \/ n <= f[n].last
           Bad == {n \in 0 .. sent : ~Done(n)}
<1>3. Bad = {}
  <2> SUFFICES ASSUME Bad # {} PROVE FALSE
      OBVIOUS
  <2>1. Bad \subseteq Nat
      OBVIOUS
  <2> HIDE DEF Bad
  <2>2. PICK n \in Bad : \A m \in Bad : n <= m
      BY <2>1, NatMin
  <2>3. n \in 0 .. sent /\ ~Done(n)
      BY DEF Bad
  <2>4. n # 0
    <3>1. first.last \in Nat
        BY DEF InHand, States
    <3> QED BY <1>2, <2>3, <3>1
  <2>5. n \in 1 .. sent /\ n - 1 \in 0 .. sent /\ ~(n <= n - 1)
      BY <2>3, <2>4
  <2>6. Done(n - 1)
    <3> HIDE DEF Done
    <3> QED BY <2>2, <2>5 DEF Bad
  <2> DEFINE s == f[n - 1]
  <2>7. s \in InHand(w, sent) /\ (InTurn(s) = {} \/ n - 1 <= s.last) /\ f[n] = Processed(s)
      BY <1>2, <2>5, <2>6
  <2> HIDE DEF s
  <2>8. /\ Processed(s) \in InHand(w, sent)
        /\ InTurn(s) = {} => Processed(s) = s
        /\ InTurn(s) # {} => InTurn(Processed(s)) = {} \/ Processed(s).last = s.last + 1
      BY <2>7, ProcessedInHand
  <2>9. s.last \in Nat
      BY <2>7 DEF InHand, States
  <2>10. Done(n)
      BY <2>3, <2>7, <2>8, <2>9
  <2> QED BY <2>3, <2>10
<1>4. Done(sent)
    BY <1>3
<1> DEFINE s == f[sent]
<1>5. s \in InHand(w, sent) /\ (InTurn(s) = {} \/ sent <= s.last)
    BY <1>4
<1> HIDE DEF s
<1>6. InTurn(s) = {}
  <2> SUFFICES ASSUME NEW x \in InTurn(s), sent <= s.last PROVE FALSE
      BY <1>5
  <2>1. x \in s.held /\ x.index = s.last + 1 /\ s.last \in Nat
      BY <1>5 DEF InTurn, InHand, States
  <2>2. x.index <= sent
      BY <1>5, <2>1 DEF InHand, Indexes
  <2> QED BY <2>1, <2>2
<1> QED BY <1>1, <1>2, <1>6 DEF s

--------------------------------------------------------------------------------
(* Changes that are reported *)

\* A length that is not known counts as 0.
LEMMA LengthenedFacts ==
    ASSUME NEW c \in Caches, NEW d \in Int
    PROVE  LET n == (IF c.total = Unknown THEN 0 ELSE c.total) + d
           IN /\ n \in Int /\ Lengthened(c, d) = SetFullLength(c, n)
              /\ Lengthened(c, d) \in Caches /\ Lengthened(c, d).start = c.start
              /\ NoneLoading(c) => NoneLoading(Lengthened(c, d))
<1> DEFINE n == (IF c.total = Unknown THEN 0 ELSE c.total) + d
<1>1. n \in Int
    BY CacheFields
<1>2. Lengthened(c, d) = SetFullLength(c, n)
    BY DEF Lengthened
<1> HIDE DEF n
<1>3. /\ SetFullLength(c, n) \in Caches /\ SetFullLength(c, n).start = c.start
      /\ NoneLoading(c) => NoneLoading(SetFullLength(c, n))
    BY <1>1, SetFullLengthFacts
<1> QED BY <1>1, <1>2, <1>3 DEF n

\* invalidateRowOrder changes the mark only.
LEMMA DisorderFacts ==
    ASSUME NEW c \in Caches
    PROVE  LET d == Disorder(c)
           IN /\ d \in Caches /\ d.rows = c.rows /\ d.total = c.total /\ d.cached = c.cached
              /\ d.start = c.start
              /\ d.disordered = (c.disordered \/ ~AllMatchingRowsCached(c))
              /\ HasRows(d) <=> HasRows(c)
              /\ \A i \in Int : At(d, i) = At(c, i)
              /\ NoneLoading(c) => NoneLoading(d)
<1> DEFINE d == Disorder(c)
<1>1. /\ d \in Caches /\ d.rows = c.rows /\ d.total = c.total /\ d.cached = c.cached
      /\ d.start = c.start /\ d.disordered = (c.disordered \/ ~AllMatchingRowsCached(c))
  <2>1. CASE AllMatchingRowsCached(c)
      BY <2>1, CacheFields DEF Disorder
  <2>2. CASE ~AllMatchingRowsCached(c)
    <3>1. d = [c EXCEPT !.disordered = TRUE]
        BY <2>2 DEF Disorder
    <3> HIDE DEF d
    <3> QED BY <2>2, <3>1, CacheFields DEF Caches
  <2> QED BY <2>1, <2>2
<1> HIDE DEF d
<1>2. (HasRows(d) <=> HasRows(c)) /\ \A i \in Int : At(d, i) = At(c, i)
    BY <1>1 DEF HasRows, At
<1> QED BY <1>1, <1>2 DEF NoneLoading, d

\* The rows loaded around a loaded one have an end.
LEMMA LastCachedFacts ==
    ASSUME NEW c \in Caches, NEW i \in Loaded(c)
    PROVE  LastCached(c, i) \in Loaded(c) /\ LastCached(c, i) \in 0 .. Len(c.rows) - 1
<1>1. /\ HasRows(c) /\ Len(c.rows) \in Nat /\ Loaded(c) \subseteq 0 .. Len(c.rows) - 1
      /\ i \in Nat /\ Loaded(c) \subseteq Nat
  <2>1. HasRows(c) /\ Loaded(c) \subseteq 0 .. Len(c.rows) - 1
      BY DEF Loaded
  <2> QED BY <2>1, CacheFields
<1> DEFINE T == {j \in Loaded(c) : j >= i /\ i .. j \subseteq Loaded(c)}
<1>2. i \in T /\ T \subseteq Nat /\ \A j \in T : j <= Len(c.rows)
  <2>1. i .. i = {i}
      BY <1>1
  <2>2. i \in T
      BY <1>1, <2>1
  <2>3. \A j \in 0 .. Len(c.rows) - 1 : j <= Len(c.rows)
      BY <1>1
  <2> QED BY <1>1, <2>2, <2>3
<1>3. PICK j \in T : \A k \in T : k <= j
  <2> HIDE DEF T
  <2>1. T # {}
      BY <1>2
  <2> QED BY <1>1, <1>2, <2>1, NatMax
<1>4. j \in Loaded(c) /\ j >= i /\ i .. j \subseteq Loaded(c) /\ j \in Nat
    BY <1>1
<1>5. j + 1 \notin Loaded(c)
  <2> SUFFICES ASSUME j + 1 \in Loaded(c) PROVE FALSE
      OBVIOUS
  <2>1. i .. j + 1 = (i .. j) \cup {j + 1}
      BY <1>1, <1>4
  <2>2. j + 1 \in T
      BY <1>1, <1>4, <2>1
  <2>3. j + 1 <= j
      BY <1>3, <2>2
  <2> QED BY <1>4, <2>3
<1> DEFINE good(q) == q >= i /\ i .. q \subseteq Loaded(c)
                      /\ (q + 1 \notin Loaded(c) \/ q + 1 = Length(c))
<1>6. LastCached(c, i) = CHOOSE q \in Loaded(c) : good(q)
    BY DEF LastCached
<1>7. \E q \in Loaded(c) : good(q)
    BY <1>4, <1>5
<1> HIDE DEF good
<1>8. LastCached(c, i) \in Loaded(c)
    BY <1>6, <1>7
<1> QED BY <1>1, <1>8

\* addCacheData puts a row inside of the rows or at their end.
LEMMA PlaceToAddFacts ==
    ASSUME NEW c \in Caches, HasRows(c)
    PROVE  PlaceToAdd(c) \in 0 .. Len(c.rows)
<1>1. Len(c.rows) \in Nat
    BY CacheFields
<1>2. CASE AllMatchingRowsCached(c) \/ c.start \notin Loaded(c)
    BY <1>1, <1>2 DEF PlaceToAdd
<1>3. CASE ~(AllMatchingRowsCached(c) \/ c.start \notin Loaded(c))
  <2>1. LastCached(c, c.start) \in 0 .. Len(c.rows) - 1
      BY <1>3, LastCachedFacts
  <2> QED BY <1>1, <1>3, <2>1 DEF PlaceToAdd
<1> QED BY <1>2, <1>3

\* findByKeys finds the row.
LEMMA PositionFacts ==
    ASSUME NEW c \in Caches, NEW r, IsCached(c, r)
    PROVE  /\ HasRows(c) /\ c.rows \in Seq(RowValues)
           /\ PositionOf(c, r) \in Loaded(c) /\ PositionOf(c, r) \in 0 .. Len(c.rows) - 1
           /\ At(c, PositionOf(c, r)) = r
<1>1. PositionOf(c, r) \in Loaded(c) /\ At(c, PositionOf(c, r)) = r
    BY DEF IsCached, PositionOf
<1>2. HasRows(c) /\ PositionOf(c, r) \in 0 .. Len(c.rows) - 1
    BY <1>1 DEF Loaded
<1> QED BY <1>1, <1>2, CacheFields

\* A cache with rows of its own, as a removal and an addition leave it
LEMMA OtherRows ==
    ASSUME NEW c \in Caches, NEW rows \in Seq(RowValues), NEW n \in Int
    PROVE  /\ [c EXCEPT !.rows = rows] \in Caches /\ [c EXCEPT !.rows = rows].rows = rows
           /\ [c EXCEPT !.rows = rows].total = c.total /\ [c EXCEPT !.rows = rows].cached = c.cached
           /\ [c EXCEPT !.rows = rows].disordered = c.disordered
           /\ [c EXCEPT !.rows = rows].start = c.start
           /\ [c EXCEPT !.rows = rows, !.cached = n] \in Caches
           /\ [c EXCEPT !.rows = rows, !.cached = n].rows = rows
           /\ [c EXCEPT !.rows = rows, !.cached = n].total = c.total
           /\ [c EXCEPT !.rows = rows, !.cached = n].cached = n
           /\ [c EXCEPT !.rows = rows, !.cached = n].disordered = c.disordered
           /\ [c EXCEPT !.rows = rows, !.cached = n].start = c.start
BY DEF Caches

\* The row taken out of a cache, or put into it
LEMMA TakenOut ==
    ASSUME NEW c \in Caches, NEW r, IsCached(c, r), NEW n \in Int
    PROVE  LET rows == Removed(c.rows, PositionOf(c, r))
           IN /\ rows \in Seq(RowValues)
              /\ NoneLoading(c) => /\ NoneLoading([c EXCEPT !.rows = rows, !.cached = n])
                                   /\ NoneLoading([c EXCEPT !.rows = rows])
<1> DEFINE p == PositionOf(c, r)
           rows == Removed(c.rows, p)
           d == [c EXCEPT !.rows = rows, !.cached = n]
           e == [c EXCEPT !.rows = rows]
<1>1. HasRows(c) /\ c.rows \in Seq(RowValues) /\ p \in 0 .. Len(c.rows) - 1 /\ Len(c.rows) \in Nat
    BY PositionFacts
<1> HIDE DEF p
<1>2. /\ rows \in Seq(RowValues) /\ Len(rows) = Len(c.rows) - 1
      /\ \A k \in 1 .. Len(c.rows) - 1 : rows[k] = IF k <= p THEN c.rows[k] ELSE c.rows[k + 1]
    BY <1>1, RemovedFacts
<1> HIDE DEF rows
<1>3. d \in Caches /\ d.rows = rows /\ e \in Caches /\ e.rows = rows
    BY <1>2, OtherRows
<1> HIDE DEF d, e
<1>4. \A k \in 1 .. Len(rows) : \E j \in 1 .. Len(c.rows) : rows[k] = c.rows[j]
  <2> SUFFICES ASSUME NEW k \in 1 .. Len(rows) PROVE \E j \in 1 .. Len(c.rows) : rows[k] = c.rows[j]
      OBVIOUS
  <2>1. k \in 1 .. Len(c.rows) - 1 /\ k \in 1 .. Len(c.rows) /\ k + 1 \in 1 .. Len(c.rows)
      BY <1>1, <1>2
  <2> QED BY <1>2, <2>1
<1>5. NoneLoading(c) => NoneLoading(d) /\ NoneLoading(e)
  <2> SUFFICES ASSUME NoneLoading(c) PROVE NoneLoading(d) /\ NoneLoading(e)
      OBVIOUS
  <2>1. \A j \in 1 .. Len(c.rows) : c.rows[j] # Loading
      BY <1>1, NoneLoadingIn
  <2>2. \A k \in 1 .. Len(rows) : rows[k] # Loading
      BY <1>4, <2>1
  <2> QED BY <1>3, <2>2, NoneLoadingIn
<1> QED BY <1>2, <1>5 DEF d, e, rows, p

\* The same for a row put in
LEMMA PutIn ==
    ASSUME NEW c \in Caches, HasRows(c), NEW p \in 0 .. Len(c.rows), NEW r \in Rows, NEW n \in Int
    PROVE  LET rows == Inserted(c.rows, p, r)
           IN /\ rows \in Seq(RowValues)
              /\ NoneLoading(c) => /\ NoneLoading([c EXCEPT !.rows = rows, !.cached = n])
                                   /\ NoneLoading([c EXCEPT !.rows = rows])
<1> DEFINE rows == Inserted(c.rows, p, r)
           d == [c EXCEPT !.rows = rows, !.cached = n]
           e == [c EXCEPT !.rows = rows]
<1>1. c.rows \in Seq(RowValues) /\ Len(c.rows) \in Nat /\ r \in RowValues
    BY CacheFields DEF RowValues
<1>2. /\ rows \in Seq(RowValues) /\ Len(rows) = Len(c.rows) + 1
      /\ \A k \in 1 .. p : rows[k] = c.rows[k]
      /\ rows[p + 1] = r
      /\ \A k \in p + 2 .. Len(c.rows) + 1 : rows[k] = c.rows[k - 1]
    BY <1>1, InsertedFacts
<1> HIDE DEF rows
<1>3. d \in Caches /\ d.rows = rows /\ e \in Caches /\ e.rows = rows
    BY <1>2, OtherRows
<1> HIDE DEF d, e
<1>4. \A k \in 1 .. Len(rows) : rows[k] = r \/ \E j \in 1 .. Len(c.rows) : rows[k] = c.rows[j]
  <2> SUFFICES ASSUME NEW k \in 1 .. Len(rows), k # p + 1
               PROVE  \E j \in 1 .. Len(c.rows) : rows[k] = c.rows[j]
      BY <1>1, <1>2
  <2>1. CASE k <= p
    <3>1. k \in 1 .. p /\ k \in 1 .. Len(c.rows)
        BY <1>1, <1>2, <2>1
    <3> QED BY <1>2, <3>1
  <2>2. CASE k >= p + 2
    <3>1. k \in p + 2 .. Len(c.rows) + 1 /\ k - 1 \in 1 .. Len(c.rows)
        BY <1>1, <1>2, <2>2
    <3> QED BY <1>2, <3>1
  <2> QED BY <1>1, <1>2, <2>1, <2>2
<1>5. r # Loading
    BY Numbers
<1>6. NoneLoading(c) => NoneLoading(d) /\ NoneLoading(e)
  <2> SUFFICES ASSUME NoneLoading(c) PROVE NoneLoading(d) /\ NoneLoading(e)
      OBVIOUS
  <2>1. \A j \in 1 .. Len(c.rows) : c.rows[j] # Loading
      BY NoneLoadingIn
  <2>2. \A k \in 1 .. Len(rows) : rows[k] # Loading
      BY <1>4, <1>5, <2>1
  <2> QED BY <1>3, <2>2, NoneLoadingIn
<1> QED BY <1>2, <1>6 DEF d, e, rows

\* Adding at the end is putting in there.
LEMMA AppendIsInserted ==
    ASSUME NEW rows \in Seq(RowValues), NEW r \in RowValues
    PROVE  Append(rows, r) = Inserted(rows, Len(rows), r)
<1>1. Len(rows) \in Nat /\ Len(rows) \in 0 .. Len(rows)
    OBVIOUS
<1>2. /\ Inserted(rows, Len(rows), r) \in Seq(RowValues) /\ Len(Inserted(rows, Len(rows), r)) = Len(rows) + 1
      /\ \A k \in 1 .. Len(rows) : Inserted(rows, Len(rows), r)[k] = rows[k]
      /\ Inserted(rows, Len(rows), r)[Len(rows) + 1] = r
    BY <1>1, InsertedFacts
<1>3. /\ Append(rows, r) \in Seq(RowValues) /\ Len(Append(rows, r)) = Len(rows) + 1
      /\ \A k \in 1 .. Len(rows) : Append(rows, r)[k] = rows[k]
      /\ Append(rows, r)[Len(rows) + 1] = r
    BY AppendProperties
<1>4. \A k \in 1 .. Len(rows) + 1 : Append(rows, r)[k] = Inserted(rows, Len(rows), r)[k]
  <2> SUFFICES ASSUME NEW k \in 1 .. Len(rows) + 1
               PROVE  Append(rows, r)[k] = Inserted(rows, Len(rows), r)[k]
      OBVIOUS
  <2>1. CASE k <= Len(rows)
    <3>1. k \in 1 .. Len(rows)
        BY <1>1, <2>1
    <3> QED BY <1>2, <1>3, <2>1, <3>1
  <2>2. CASE k = Len(rows) + 1
    <3>1. ~(k <= Len(rows))
        BY <1>1, <2>2
    <3> QED BY <1>2, <1>3, <2>2, <3>1
  <2>3. k <= Len(rows) \/ k = Len(rows) + 1
      BY <1>1
  <2> QED BY <2>1, <2>2, <2>3
<1> QED BY <1>2, <1>3, <1>4, SeqEqual

\* A removal shows no row as loading that was not.
LEMMA RemoveFacts ==
    ASSUME NEW c \in Caches, NEW r \in Rows, NEW m \in BOOLEAN
    PROVE  /\ RemoveCacheData(c, r, m) \in Caches
           /\ NoneLoading(c) => NoneLoading(RemoveCacheData(c, r, m))
<1>1. CASE ~HasRows(c)
    BY <1>1 DEF RemoveCacheData
<1>2. CASE HasRows(c) /\ IsCached(c, r)
  <2> DEFINE rows == Removed(c.rows, PositionOf(c, r))
             n == c.cached - 1
             d == [c EXCEPT !.rows = rows, !.cached = n]
  <2>1. n \in Int
      BY CacheFields
  <2>2. RemoveCacheData(c, r, m) = Lengthened(d, -1)
      BY <1>2 DEF RemoveCacheData
  <2> HIDE DEF n
  <2>3. rows \in Seq(RowValues) /\ (NoneLoading(c) => NoneLoading(d))
      BY <1>2, <2>1, TakenOut
  <2> HIDE DEF rows
  <2>4. d \in Caches
      BY <2>1, <2>3, OtherRows
  <2> HIDE DEF d
  <2> QED BY <2>2, <2>3, <2>4, LengthenedFacts
<1>3. CASE HasRows(c) /\ ~IsCached(c, r)
  <2> DEFINE k == IF m /\ ~AllMatchingRowsCached(c) THEN -1 ELSE 0
  <2>1. RemoveCacheData(c, r, m) = Lengthened(c, k) /\ k \in Int
      BY <1>3 DEF RemoveCacheData
  <2> HIDE DEF k
  <2> QED BY <2>1, LengthenedFacts
<1> QED BY <1>1, <1>2, <1>3

\* Neither does an addition.
LEMMA AddFacts ==
    ASSUME NEW c \in Caches, NEW r \in Rows, NEW m \in BOOLEAN
    PROVE  /\ AddCacheData(c, r, m) \in Caches
           /\ NoneLoading(c) => NoneLoading(AddCacheData(c, r, m))
<1>1. CASE ~HasRows(c)
    BY <1>1, DisorderFacts DEF AddCacheData
<1>2. CASE HasRows(c) /\ m
  <2> DEFINE p == PlaceToAdd(c)
             rows == Inserted(c.rows, p, r)
             n == c.cached + 1
             d == [c EXCEPT !.rows = rows, !.cached = n]
  <2>1. n \in Int
      BY CacheFields
  <2>2. AddCacheData(c, r, m) = Disorder(Lengthened(d, 1))
      BY <1>2 DEF AddCacheData
  <2>3. p \in 0 .. Len(c.rows)
      BY <1>2, PlaceToAddFacts
  <2> HIDE DEF n, p
  <2>4. rows \in Seq(RowValues) /\ (NoneLoading(c) => NoneLoading(d))
      BY <1>2, <2>1, <2>3, PutIn
  <2> HIDE DEF rows
  <2>5. d \in Caches
      BY <2>1, <2>4, OtherRows
  <2> HIDE DEF d
  <2>6. Lengthened(d, 1) \in Caches /\ (NoneLoading(c) => NoneLoading(Lengthened(d, 1)))
      BY <2>4, <2>5, LengthenedFacts
  <2> QED BY <2>2, <2>6, DisorderFacts
<1>3. CASE HasRows(c) /\ ~m
  <2>1. AddCacheData(c, r, m) = Disorder(Lengthened(c, 0))
      BY <1>3 DEF AddCacheData
  <2>2. Lengthened(c, 0) \in Caches /\ (NoneLoading(c) => NoneLoading(Lengthened(c, 0)))
      BY LengthenedFacts
  <2> QED BY <2>1, <2>2, DisorderFacts
<1> QED BY <1>1, <1>2, <1>3

\* Nor an update.
LEMMA UpdateFacts ==
    ASSUME NEW c \in Caches, NEW r \in Rows, NEW m \in BOOLEAN
    PROVE  /\ UpdateCacheData(c, r, m) \in Caches
           /\ NoneLoading(c) => NoneLoading(UpdateCacheData(c, r, m))
<1>0. Lengthened(c, 0) \in Caches /\ (NoneLoading(c) => NoneLoading(Lengthened(c, 0)))
    BY LengthenedFacts
<1>1. CASE ~HasRows(c)
    BY <1>1 DEF UpdateCacheData
<1>2. CASE HasRows(c) /\ (IsCached(c, r) <=> m)
  <2>1. CASE m
    <3>1. UpdateCacheData(c, r, m) = Disorder(Lengthened(c, 0))
        BY <1>2, <2>1 DEF UpdateCacheData
    <3> QED BY <1>0, <3>1, DisorderFacts
  <2>2. CASE ~m
    <3>1. UpdateCacheData(c, r, m) = Disorder(Lengthened(c, 0))
        BY <1>2, <2>2 DEF UpdateCacheData
    <3> QED BY <1>0, <3>1, DisorderFacts
  <2> QED BY <2>1, <2>2
<1>3. CASE HasRows(c) /\ IsCached(c, r) /\ ~m
  <2> DEFINE rows == Removed(c.rows, PositionOf(c, r))
             d == [c EXCEPT !.rows = rows]
  <2>1. UpdateCacheData(c, r, m) = Disorder(Lengthened(d, -1))
      BY <1>3 DEF UpdateCacheData
  <2>2. rows \in Seq(RowValues) /\ (NoneLoading(c) => NoneLoading(d))
    <3>1. 0 \in Int
        OBVIOUS
    <3> QED BY <1>3, <3>1, TakenOut
  <2> HIDE DEF rows
  <2>3. d \in Caches
    <3>1. 0 \in Int
        OBVIOUS
    <3> QED BY <2>2, <3>1, OtherRows
  <2> HIDE DEF d
  <2>4. Lengthened(d, -1) \in Caches /\ (NoneLoading(c) => NoneLoading(Lengthened(d, -1)))
      BY <2>2, <2>3, LengthenedFacts
  <2> QED BY <2>1, <2>4, DisorderFacts
<1>4. CASE HasRows(c) /\ ~IsCached(c, r) /\ m
  <2> DEFINE rows == Append(c.rows, r)
             d == [c EXCEPT !.rows = rows]
  <2>1. UpdateCacheData(c, r, m) = Disorder(Lengthened(d, 1))
      BY <1>4 DEF UpdateCacheData
  <2>2. c.rows \in Seq(RowValues) /\ r \in RowValues /\ 0 \in Int
        /\ Len(c.rows) \in 0 .. Len(c.rows)
      BY <1>4, CacheFields DEF RowValues
  <2>3. rows = Inserted(c.rows, Len(c.rows), r)
      BY <2>2, AppendIsInserted
  <2>4. rows \in Seq(RowValues) /\ (NoneLoading(c) => NoneLoading(d))
    <3> DEFINE q == Inserted(c.rows, Len(c.rows), r)
    <3>1. /\ q \in Seq(RowValues)
          /\ NoneLoading(c) => NoneLoading([c EXCEPT !.rows = q])
        BY <1>4, <2>2, PutIn
    <3> HIDE DEF q
    <3> QED BY <2>3, <3>1 DEF q
  <2> HIDE DEF rows
  <2>5. d \in Caches
      BY <2>2, <2>4, OtherRows
  <2> HIDE DEF d
  <2>6. Lengthened(d, 1) \in Caches /\ (NoneLoading(c) => NoneLoading(Lengthened(d, 1)))
      BY <2>4, <2>5, LengthenedFacts
  <2> QED BY <2>1, <2>6, DisorderFacts
<1> QED BY <1>1, <1>2, <1>3, <1>4

--------------------------------------------------------------------------------
(* The invariant of the requests *)

\* The requests sent and not processed are on the wire or held, each with a number of its
\* own, and every mark is in the range of one of them.
RepliesInv ==
    /\ last <= sent /\ sent <= MaxEvents
    /\ Indexes(wire, held, last, sent)
    /\ NoneLost(wire, held, last, sent, ghost.marks)
    /\ Covered(wire, held, cache, ghost.marks)
    /\ \A x \in held : x.index # last + 1

Inv == Typed /\ RepliesInv

\* No row is asked for at first.
LEMMA InitInv == Init => Inv
<1> SUFFICES ASSUME Init PROVE Inv
    OBVIOUS
<1>1. cache = [rows |-> <<>>, total |-> Unknown, cached |-> 0, disordered |-> FALSE, start |-> 0]
      /\ criteria \in Criteria /\ pending = Unknown /\ sent = 0 /\ last = 0
      /\ held = {} /\ wire = {} /\ server \in Servers /\ ghost = [disturbed |-> 0, marks |-> {}]
    BY DEF Init
<1>2. cache \in Caches
  <2>1. <<>> \in Seq(RowValues)
      OBVIOUS
  <2> QED BY <1>1, <2>1 DEF Caches
<1>3. Typed
  <2>1. ghost \in Ghosts
      BY <1>1 DEF Ghosts
  <2>2. server \in [Rows -> Criteria \cup {NoCriteria}]
      BY <1>1, CriteriaAssumption
  <2> QED BY <1>1, <1>2, <2>1, <2>2 DEF Typed
<1>4. \A i \in Nat : At(cache, i) # Loading
  <2>1. cache.rows = <<>> /\ Len(cache.rows) = 0
      BY <1>1
  <2>2. \A i \in Nat : i \notin 0 .. Len(cache.rows) - 1
      BY <2>1
  <2> QED BY <2>2, Numbers DEF At
<1>5. Indexes(wire, held, last, sent)
    BY <1>1 DEF Indexes
<1>6. NoneLost(wire, held, last, sent, ghost.marks)
  <2>1. last + 1 .. sent = {}
      BY <1>1
  <2> QED BY <2>1 DEF NoneLost
<1>7. Covered(wire, held, cache, ghost.marks)
    BY <1>4 DEF Covered
<1>8. last <= sent /\ sent <= MaxEvents /\ \A x \in held : x.index # last + 1
    BY <1>1, Numbers
<1> QED BY <1>3, <1>5, <1>6, <1>7, <1>8 DEF Inv, RepliesInv

\* A row asked for is in the range that will be fetched.
LEMMA GetRangeRange ==
    ASSUME Typed, NEW start \in 0 .. Cardinality(Rows) - 1, NEW n \in 1 .. PageSize,
           GetRange(start, start + n)
    PROVE  pending' \in Ranges \cup {Unknown}
<1> DEFINE stop == start + n
           end == IF LengthIsKnown(cache) THEN Least(stop, cache.total) ELSE stop
           missing == {i \in start .. end - 1 : At(cache, i) = Empty}
           first == CHOOSE i \in missing : \A j \in missing : i <= j
           final == CHOOSE i \in missing : \A j \in missing : j <= i
<1>1. /\ start \in Nat /\ n \in Nat /\ stop \in Nat /\ stop <= start + PageSize /\ PageSize \in Nat
      /\ start <= Cardinality(Rows) - 1 /\ Cardinality(Rows) \in Nat /\ n <= PageSize
      /\ UnknownLength \in Nat /\ Cardinality(Rows) + PageSize <= UnknownLength
    BY Numbers
<1>2. cache \in Caches /\ pending \in Ranges \cup {Unknown}
    BY DEF Typed
<1>3. pending' = IF missing = {} THEN pending ELSE FetchAhead(cache, start, end, first, final)
    BY DEF GetRange
<1>4. CASE missing = {}
    BY <1>2, <1>3, <1>4
<1>5. CASE missing # {}
  <2>1. end \in Int /\ end <= stop
    <3>1. CASE LengthIsKnown(cache)
      <4>1. cache.total \in Int
          BY <1>2, <3>1, CacheFields
      <4> QED BY <1>1, <3>1, <4>1 DEF Least
    <3>2. CASE ~LengthIsKnown(cache)
        BY <1>1, <3>2
    <3> QED BY <3>1, <3>2
  <2>2. end <= Length(cache) /\ Length(cache) \in Int
    <3>1. CASE LengthIsKnown(cache)
      <4>1. cache.total \in Int
          BY <1>2, <3>1, CacheFields
      <4> QED BY <1>1, <3>1, <4>1 DEF Least, Length
    <3>2. CASE ~LengthIsKnown(cache)
        BY <1>1, <3>2 DEF Length
    <3> QED BY <3>1, <3>2
  <2> HIDE DEF end, stop
  <2>3. missing \subseteq Nat /\ \A i \in missing : i <= end - 1 /\ start <= i
      BY <1>1, <2>1
  <2>4. end \in Nat /\ end - 1 \in Nat /\ \A i \in missing : i <= end - 1
      BY <1>1, <1>5, <2>1, <2>3
  <2>5. first \in missing /\ \A j \in missing : first <= j
    <3> HIDE DEF missing
    <3>1. \E i \in missing : \A j \in missing : i <= j
        BY <1>5, <2>3, NatMin
    <3> QED BY <3>1
  <2>6. final \in missing /\ \A j \in missing : j <= final
    <3> HIDE DEF missing
    <3>1. \E i \in missing : \A j \in missing : j <= i
        BY <1>5, <2>3, <2>4, NatMax
    <3> QED BY <3>1
  <2> HIDE DEF first, final
  <2>7. first \in start .. end - 1 /\ final \in start .. end - 1 /\ first <= final
        /\ At(cache, first) = Empty /\ At(cache, final) = Empty
      BY <2>5, <2>6
  <2>8. final \in first .. end - 1 /\ final <= Length(cache) /\ end <= start + PageSize
      BY <1>1, <2>1, <2>2, <2>7 DEF stop
  <2>9. ~IsRow(At(cache, first)) /\ ~IsRow(At(cache, final))
      BY <2>7 DEF IsRow
  <2> DEFINE range == FetchAhead(cache, start, end, first, final)
  <2>10. range \in Nat \X Nat /\ range[1] <= first /\ final < range[2]
      BY <1>1, <2>2, <2>4, <2>7, <2>8, <2>9, FetchAheadFacts
  <2>11. pending' = range
      BY <1>3, <1>5
  <2> HIDE DEF range
  <2>12. range[1] \in Nat /\ range[2] \in Nat
      BY <2>10
  <2>13. range[1] < range[2]
      BY <1>1, <2>7, <2>10, <2>12
  <2> QED BY <2>10, <2>11, <2>13 DEF Ranges
<1> QED BY <1>4, <1>5

\* Asking for rows only sets the range that waits.
LEMMA GetRangeInv ==
    ASSUME Inv, NEW start \in 0 .. Cardinality(Rows) - 1, NEW n \in 1 .. PageSize,
           GetRange(start, start + n)
    PROVE  Inv'
<1>1. pending' \in Ranges \cup {Unknown}
    BY GetRangeRange DEF Inv
<1>2. cache' = [cache EXCEPT !.rows = IF @ = Unknown THEN <<>> ELSE @, !.start = start]
      /\ UNCHANGED <<criteria, sent, last, held, wire, server, ghost>> /\ start \in Nat
  <2>1. start \in Nat
      BY Numbers
  <2> QED BY <2>1 DEF GetRange
<1>3. Typed
    BY DEF Inv
<1>4. cache \in Caches
    BY <1>3 DEF Typed
<1>5. cache' = [Opened(cache) EXCEPT !.start = start]
    BY <1>2, <1>4 DEF Opened, Caches
<1>6. Opened(cache) \in Caches /\ \A i \in Int : At(Opened(cache), i) = At(cache, i)
    BY <1>4, OpenedFacts
<1>7. cache' \in Caches /\ cache'.rows = Opened(cache).rows
    BY <1>2, <1>5, <1>6 DEF Caches
<1>8. \A i \in Int : At(cache', i) = At(cache, i)
    BY <1>6, <1>7 DEF At, HasRows
<1>9. Typed'
    BY <1>1, <1>2, <1>3, <1>7 DEF Typed
<1>10. RepliesInv'
    BY <1>2, <1>8 DEF Inv, RepliesInv, Covered
<1> QED BY <1>9, <1>10 DEF Inv

\* A dropped cache keeps its length.
LEMMA NoRowsKeeps ==
    ASSUME NEW c \in Caches
    PROVE  /\ NoRows(c) \in Caches /\ NoRows(c).rows = Unknown /\ NoRows(c).total = c.total
           /\ NoRows(c).cached = 0 /\ NoRows(c).disordered = FALSE
<1>1. NoRows(c) = [c EXCEPT !.rows = Unknown, !.cached = 0, !.disordered = FALSE]
    BY DEF NoRows
<1>2. FALSE \in BOOLEAN /\ 0 \in Int /\ Unknown \in Seq(RowValues) \cup {Unknown}
    OBVIOUS
<1>3. NoRows(c) \in Caches
    BY <1>1, <1>2 DEF Caches
<1>4. /\ NoRows(c).rows = Unknown /\ NoRows(c).total = c.total
      /\ NoRows(c).cached = 0 /\ NoRows(c).disordered = FALSE
    BY DEF NoRows, Caches
<1> QED BY <1>3, <1>4

\* What a fetch leaves of the cache
LEMMA FetchCache ==
    ASSUME Typed, pending # Unknown, Fetch
    PROVE  /\ pending[1] \in Nat /\ pending[2] \in Nat /\ pending[1] < pending[2]
           /\ cache' \in Caches /\ ~cache'.disordered /\ cache'.total = cache.total
           /\ \A i \in Nat : At(cache', i) = Loading =>
                 At(cache, i) = Loading \/ (pending[1] <= i /\ i < pending[2])
           /\ \A i \in Nat : IsRow(At(cache', i)) => ~cache.disordered /\ At(cache', i) = At(cache, i)
           /\ HasRows(cache') => /\ ~cache.disordered /\ cache'.cached = cache.cached
                                 /\ \A i \in Nat : IsRow(At(cache, i)) => At(cache', i) = At(cache, i)
           /\ HasRows(cache') \/ (cache'.cached = 0 /\ Loaded(cache') = {})
<1> DEFINE m == SetRangeLoading(cache, pending[1], pending[2])
<1>1. pending[1] \in Nat /\ pending[2] \in Nat /\ pending[1] < pending[2] /\ cache \in Caches
    BY DEF Typed, Ranges
<1>2. cache' = IF m.disordered THEN NoRows(m) ELSE m
    BY DEF Fetch
<1>3. /\ m \in Caches /\ m.rows \in Seq(RowValues) /\ m.total = cache.total
      /\ m.cached = cache.cached /\ m.disordered = cache.disordered
      /\ \A i \in Nat : At(m, i) = IF pending[1] <= i /\ i < pending[2] /\ At(cache, i) = Empty
                                   THEN Loading ELSE At(cache, i)
    BY <1>1, SetRangeLoadingFacts
<1> HIDE DEF m
<1>4. CASE m.disordered
  <2>1. cache' = NoRows(m)
      BY <1>2, <1>4
  <2>2. cache' \in Caches /\ ~cache'.disordered /\ cache'.total = cache.total
        /\ cache'.rows = Unknown /\ cache'.cached = 0
      BY <1>3, <2>1, NoRowsKeeps
  <2>3. ~HasRows(cache') /\ (\A i \in Int : At(cache', i) = Empty) /\ Loaded(cache') = {}
      BY <2>2 DEF HasRows, At, Loaded
  <2> QED BY <1>1, <2>2, <2>3, Numbers DEF IsRow
<1>5. CASE ~m.disordered
  <2>1. cache' = m
      BY <1>2, <1>5
  <2>2. HasRows(m)
      BY <1>3, WithRows
  <2>3. ~IsRow(Loading) /\ ~IsRow(Empty)
      BY DEF IsRow
  <2> QED BY <1>1, <1>3, <1>5, <2>1, <2>2, <2>3
<1>6. m.disordered \in BOOLEAN
    BY <1>3, CacheFields
<1> QED BY <1>4, <1>5

\* A fetch marks the rows of the range it asks for.
LEMMA FetchInv ==
    ASSUME Inv, Fetch
    PROVE  Inv'
<1> DEFINE x == [index |-> sent + 1, start |-> pending[1], end |-> pending[2],
                 criteria |-> criteria, status |-> "asked", data |-> <<>>, total |-> Unknown]
<1>1. Typed /\ RepliesInv
    BY DEF Inv
<1>2. /\ pending # Unknown /\ InBounds /\ pending' = Unknown /\ sent' = sent + 1
      /\ wire' = wire \cup {x} /\ UNCHANGED <<criteria, last, held, server, ghost>>
    BY DEF Fetch
<1>3. /\ pending[1] \in Nat /\ pending[2] \in Nat /\ pending[1] < pending[2]
      /\ cache' \in Caches
      /\ \A i \in Nat : At(cache', i) = Loading =>
            At(cache, i) = Loading \/ (pending[1] <= i /\ i < pending[2])
    BY <1>1, <1>2, FetchCache
<1>4. sent \in Nat /\ last \in Nat /\ ghost \in Ghosts /\ criteria \in Criteria /\ MaxEvents \in Nat
    BY <1>1, Numbers DEF Typed
<1>5. x \in Requests /\ RequestOK(x) /\ x.index = sent + 1 /\ x.start = pending[1] /\ x.end = pending[2]
  <2>1. <<>> \in Seq(Rows)
      OBVIOUS
  <2> QED BY <1>3, <1>4, <2>1 DEF Requests, RequestOK
<1> HIDE DEF x
<1>6. Typed'
    BY <1>1, <1>2, <1>3, <1>4, <1>5 DEF Typed
<1>7. sent + 1 <= MaxEvents
  <2>1. ghost.disturbed \in Nat
      BY <1>4 DEF Ghosts
  <2> QED BY <1>2, <1>4, <2>1 DEF InBounds
<1>8. \A y \in wire \cup held : y.index \in Nat /\ last < y.index /\ y.index <= sent
    BY <1>1 DEF RepliesInv, Indexes, Typed, Requests
<1>9. Indexes(wire \cup {x}, held, last, sent + 1)
  <2>1. \A y \in (wire \cup {x}) \cup held : last < y.index /\ y.index <= sent + 1
      BY <1>1, <1>4, <1>5, <1>8 DEF RepliesInv
  <2>2. \A y \in wire \cup held : y.index # x.index
      BY <1>4, <1>5, <1>8
  <2> QED BY <1>1, <2>1, <2>2 DEF RepliesInv, Indexes
<1>10. NoneLost(wire \cup {x}, held, last, sent + 1, ghost.marks)
  <2> SUFFICES ASSUME ghost.marks \cap {"bad"} = {}, NEW k \in last + 1 .. sent + 1
               PROVE  \E y \in (wire \cup {x}) \cup held : y.index = k
      BY DEF NoneLost
  <2>1. CASE k = sent + 1
      BY <1>5, <2>1
  <2>2. CASE k # sent + 1
    <3>1. k \in last + 1 .. sent
        BY <1>4, <2>2
    <3> QED BY <1>1, <3>1 DEF RepliesInv, NoneLost
  <2> QED BY <2>1, <2>2
<1>11. Covered(wire \cup {x}, held, cache', ghost.marks)
  <2> SUFFICES ASSUME ghost.marks \cap {"late", "bad"} = {}, NEW i \in Nat, At(cache', i) = Loading
               PROVE  \E y \in (wire \cup {x}) \cup held : y.start <= i /\ i < y.end
      BY DEF Covered
  <2>1. CASE At(cache, i) = Loading
      BY <1>1, <2>1 DEF RepliesInv, Covered
  <2>2. CASE pending[1] <= i /\ i < pending[2]
      BY <1>5, <2>2
  <2> QED BY <1>3, <2>1, <2>2
<1>12. \A y \in held : y.index # last + 1
    BY <1>1 DEF RepliesInv
<1>13. last <= sent + 1
    BY <1>1, <1>4 DEF RepliesInv
<1>14. RepliesInv'
    BY <1>2, <1>7, <1>9, <1>10, <1>11, <1>12, <1>13 DEF RepliesInv
<1> QED BY <1>6, <1>14 DEF Inv

\* A dropped cache shows nothing.
LEMMA NoRowsFacts ==
    ASSUME NEW c \in Caches
    PROVE  LET d == [NoRows(c) EXCEPT !.total = Unknown]
           IN /\ d \in Caches /\ d.rows = Unknown /\ d.total = Unknown /\ d.cached = 0
              /\ ~d.disordered /\ ~HasRows(d) /\ Loaded(d) = {}
              /\ \A i \in Int : At(d, i) = Empty
<1> DEFINE d == [NoRows(c) EXCEPT !.total = Unknown]
<1>1. d \in Caches /\ d.rows = Unknown /\ d.total = Unknown /\ d.cached = 0 /\ ~d.disordered
  <2> DEFINE e == NoRows(c)
  <2>1. e \in Caches /\ e.rows = Unknown /\ e.cached = 0 /\ e.disordered = FALSE
      BY NoRowsKeeps
  <2>5. d = [e EXCEPT !.total = Unknown]
      OBVIOUS
  <2> HIDE DEF e, d
  <2>2. d \in Caches
      BY <2>1, <2>5 DEF Caches
  <2>3. d.rows = e.rows /\ d.total = Unknown /\ d.cached = e.cached
        /\ d.disordered = e.disordered
      BY <2>1, <2>5 DEF Caches
  <2> QED BY <2>1, <2>2, <2>3
<1> HIDE DEF d
<1>2. ~HasRows(d) /\ Loaded(d) = {} /\ \A i \in Int : At(d, i) = Empty
    BY <1>1 DEF HasRows, Loaded, At
<1> QED BY <1>1, <1>2 DEF d

\* Other criteria leave no mark.
LEMMA SetCriteriaInv ==
    ASSUME Inv, NEW c \in Criteria, SetCriteria(c)
    PROVE  Inv'
<1>1. Typed /\ RepliesInv /\ cache \in Caches /\ ghost \in Ghosts
    BY DEF Inv, Typed
<1>2. /\ criteria' = c /\ cache' = [NoRows(cache) EXCEPT !.total = Unknown]
      /\ ghost' = Disturbed(ghost) /\ UNCHANGED <<pending, sent, last, held, wire, server>>
    BY DEF SetCriteria
<1>3. cache' \in Caches /\ \A i \in Int : At(cache', i) = Empty
    BY <1>1, <1>2, NoRowsFacts
<1>4. ghost' \in Ghosts /\ ghost'.marks = ghost.marks
  <2>1. {} \in SUBSET Marks
      OBVIOUS
  <2> QED BY <1>1, <1>2, <2>1, MoreMarks
<1>5. Typed'
    BY <1>1, <1>2, <1>3, <1>4 DEF Typed
<1>6. RepliesInv'
    BY <1>1, <1>2, <1>3, <1>4, Numbers DEF RepliesInv, Covered
<1> QED BY <1>5, <1>6 DEF Inv

\* A request and the server's answer to it
Answered(x, status) ==
    LET all == Matching(x.criteria)
        end == Least(x.end, Len(all))
    IN IF status = "ok"
       THEN [x EXCEPT !.status = "ok", !.total = Len(all),
               !.data = IF x.start < end THEN SubSeq(all, x.start + 1, end) ELSE <<>>]
       ELSE [x EXCEPT !.status = status]

\* An answer is for the range asked for, and has its rows.
LEMMA AnsweredFacts ==
    ASSUME NEW x \in Requests, RequestOK(x), x.status = "asked", NEW status \in {"ok", "error", "bad"}
    PROVE  LET y == Answered(x, status)
           IN /\ y \in Requests /\ RequestOK(y) /\ y.status = status
              /\ y.index = x.index /\ y.start = x.start /\ y.end = x.end /\ y.criteria = x.criteria
              /\ status = "ok" =>
                   /\ y.total = Len(Matching(x.criteria))
                   /\ \A k \in 1 .. Len(y.data) : /\ x.start + k \in 1 .. Len(Matching(x.criteria))
                                                  /\ y.data[k] = Matching(x.criteria)[x.start + k]
<1> DEFINE all == Matching(x.criteria)
           end == Least(x.end, Len(all))
           data == IF x.start < end THEN SubSeq(all, x.start + 1, end) ELSE <<>>
           y == Answered(x, status)
<1>1. x.start \in Nat /\ x.end \in Nat /\ x.start < x.end /\ x.data = <<>> /\ x.criteria \in Criteria
      /\ x.index \in Nat
    BY DEF Requests, RequestOK
<1>2. all \in Seq(Rows) /\ Len(all) \in Nat
    BY MatchingFacts
<1>3. CASE status # "ok"
  <2>1. y = [x EXCEPT !.status = status]
      BY <1>3 DEF Answered
  <2> HIDE DEF y
  <2>2. /\ y \in Requests /\ y.status = status /\ y.data = <<>>
        /\ y.index = x.index /\ y.start = x.start /\ y.end = x.end /\ y.criteria = x.criteria
      BY <1>1, <2>1 DEF Requests
  <2>3. RequestOK(y)
      BY <1>1, <1>3, <2>2 DEF RequestOK
  <2> QED BY <1>3, <2>2, <2>3 DEF y
<1>4. CASE status = "ok"
  <2>1. y = [x EXCEPT !.status = "ok", !.total = Len(all), !.data = data]
      BY <1>4 DEF Answered
  <2> HIDE DEF all
  <2>2. end \in Int /\ end <= Len(all) /\ end <= x.end
      BY <1>1, <1>2 DEF Least
  <2> HIDE DEF end
  <2>3. /\ data \in Seq(Rows)
        /\ Len(data) = IF x.start < end THEN end - x.start ELSE 0
        /\ \A k \in 1 .. Len(data) : x.start + k \in 1 .. Len(all) /\ data[k] = all[x.start + k]
    <3>1. CASE x.start < end
      <4> DEFINE q == SubSeq(all, x.start + 1, end)
      <4>1. \A i \in x.start + 1 .. end : all[i] \in Rows
          BY <1>1, <1>2, <2>2
      <4>2. x.start + 1 \in Int
          BY <1>1
      <4>3. /\ q \in Seq(Rows)
            /\ Len(q) = IF x.start + 1 <= end THEN end - (x.start + 1) + 1 ELSE 0
            /\ \A i \in 1 .. end - (x.start + 1) + 1 : q[i] = all[(x.start + 1) + i - 1]
          BY <2>2, <4>1, <4>2, SubSeqProperties
      <4>4. data = q
          BY <3>1
      <4> HIDE DEF q, data
      <4>5. Len(q) = end - x.start
          BY <1>1, <2>2, <3>1, <4>3
      <4>6. \A k \in 1 .. Len(q) : x.start + k \in 1 .. Len(all) /\ q[k] = all[x.start + k]
        <5> SUFFICES ASSUME NEW k \in 1 .. Len(q)
                     PROVE  x.start + k \in 1 .. Len(all) /\ q[k] = all[x.start + k]
            OBVIOUS
        <5>1. k \in 1 .. end - (x.start + 1) + 1 /\ (x.start + 1) + k - 1 = x.start + k
            BY <1>1, <2>2, <4>5
        <5>2. x.start + k \in 1 .. Len(all)
            BY <1>1, <1>2, <2>2, <5>1
        <5> QED BY <4>3, <5>1, <5>2
      <4> QED BY <3>1, <4>3, <4>4, <4>5, <4>6
    <3>2. CASE ~(x.start < end)
      <4>1. data = <<>>
          BY <3>2
      <4>2. Len(<<>>) = 0 /\ <<>> \in Seq(Rows)
          OBVIOUS
      <4> HIDE DEF data
      <4> QED BY <3>2, <4>1, <4>2
    <3> QED BY <3>1, <3>2
  <2> HIDE DEF data, y
  <2>4. /\ y \in Requests /\ y.status = "ok" /\ y.data = data /\ y.total = Len(all)
        /\ y.index = x.index /\ y.start = x.start /\ y.end = x.end /\ y.criteria = x.criteria
    <3>1. y \in Requests
        BY <1>2, <2>1, <2>3 DEF Requests
    <3> QED BY <2>1, <3>1 DEF Requests
  <2>5. RequestOK(y)
    <3>1. end = Least(y.end, y.total)
        BY <2>4 DEF end
    <3> QED BY <1>1, <1>2, <2>3, <2>4, <3>1 DEF RequestOK
  <2> QED BY <1>4, <2>3, <2>4, <2>5 DEF y, all
<1> QED BY <1>3, <1>4

\* The server answers a request under way.
LEMMA AnswerInv ==
    ASSUME Inv, NEW x \in wire, NEW status \in {"ok", "error", "bad"}, Answer(x, status)
    PROVE  Inv'
<1> DEFINE y == Answered(x, status)
<1>1. Typed /\ RepliesInv
    BY DEF Inv
<1>2. x \in Requests /\ RequestOK(x) /\ x.status = "asked" /\ ghost \in Ghosts
    BY <1>1 DEF Typed, Answer
<1>3. y \in Requests /\ RequestOK(y) /\ y.index = x.index /\ y.start = x.start /\ y.end = x.end
    BY <1>2, AnsweredFacts
<1>4. /\ wire' = (wire \ {x}) \cup {y}
      /\ ghost' = IF status = "ok" THEN ghost ELSE Disturbed(ghost)
      /\ UNCHANGED <<cache, criteria, pending, sent, last, held, server>>
    BY DEF Answer, Answered
<1> HIDE DEF y
<1>5. ghost' \in Ghosts /\ ghost'.marks = ghost.marks
  <2>1. {} \in SUBSET Marks
      OBVIOUS
  <2>2. Disturbed(ghost) \in Ghosts /\ Disturbed(ghost).marks = ghost.marks
      BY <1>2, <2>1, MoreMarks
  <2> QED BY <1>2, <1>4, <2>2
<1>6. Typed'
    BY <1>1, <1>3, <1>4, <1>5 DEF Typed
<1>7. Indexes(wire', held', last', sent')
  <2>1. \A z \in wire' \cup held' : last < z.index /\ z.index <= sent
      BY <1>1, <1>3, <1>4 DEF RepliesInv, Indexes
  <2>2. \A z \in wire \ {x} : z.index # y.index
      BY <1>1, <1>3 DEF RepliesInv, Indexes
  <2>3. \A z, u \in wire' : z.index = u.index => z = u
      BY <1>1, <1>4, <2>2 DEF RepliesInv, Indexes
  <2>4. \A z \in wire', u \in held : z.index # u.index
      BY <1>1, <1>3, <1>4 DEF RepliesInv, Indexes
  <2> QED BY <1>1, <1>4, <2>1, <2>3, <2>4 DEF RepliesInv, Indexes
<1>8. NoneLost(wire', held', last', sent', ghost'.marks)
  <2> SUFFICES ASSUME ghost.marks \cap {"bad"} = {}, NEW k \in last + 1 .. sent
               PROVE  \E z \in wire' \cup held : z.index = k
      BY <1>4, <1>5 DEF NoneLost
  <2>1. PICK z \in wire \cup held : z.index = k
      BY <1>1 DEF RepliesInv, NoneLost
  <2>2. CASE z = x
      BY <1>3, <1>4, <2>1, <2>2
  <2>3. CASE z # x
      BY <1>4, <2>1, <2>3
  <2> QED BY <2>2, <2>3
<1>9. Covered(wire', held', cache', ghost'.marks)
  <2> SUFFICES ASSUME ghost.marks \cap {"late", "bad"} = {}, NEW i \in Nat, At(cache, i) = Loading
               PROVE  \E z \in wire' \cup held : z.start <= i /\ i < z.end
      BY <1>4, <1>5 DEF Covered
  <2>1. PICK z \in wire \cup held : z.start <= i /\ i < z.end
      BY <1>1 DEF RepliesInv, Covered
  <2>2. CASE z = x
      BY <1>3, <1>4, <2>1, <2>2
  <2>3. CASE z # x
      BY <1>4, <2>1, <2>3
  <2> QED BY <2>2, <2>3
<1>10. RepliesInv'
    BY <1>1, <1>4, <1>7, <1>8, <1>9 DEF RepliesInv
<1> QED BY <1>6, <1>10 DEF Inv

\* What is in hand when a reply arrives
LEMMA ArrivedInHand ==
    ASSUME Inv, NEW x \in wire, x.status # "asked"
    PROVE  Arrived(x) \in InHand(wire \ {x}, sent) /\ (wire \ {x}) \in SUBSET Requests
<1> DEFINE s == Arrived(x)
           w == wire \ {x}
<1>1. Typed /\ RepliesInv
    BY DEF Inv
<1>2. /\ cache \in Caches /\ last \in Nat /\ sent \in Nat /\ ghost \in Ghosts
      /\ wire \subseteq Requests /\ held \subseteq Requests
      /\ \A y \in held \cup wire : RequestOK(y)
      /\ \A y \in held : y.status # "asked"
    BY <1>1 DEF Typed
<1>3. s = [cache |-> cache, last |-> last, held |-> held \cup {x}, ghost |-> ghost]
    BY DEF Arrived
<1> HIDE DEF s
<1>4. held \cup {x} \in SUBSET {y \in Requests : RequestOK(y) /\ y.status # "asked"}
    BY <1>2
<1>5. /\ s \in States /\ s.cache = cache /\ s.last = last /\ s.held = held \cup {x}
      /\ s.ghost = ghost
    BY <1>2, <1>3, <1>4 DEF States
<1>6. \A y \in w \cup (held \cup {x}) : y \in wire \cup held
    OBVIOUS
<1>7. w \cup (held \cup {x}) = wire \cup held
    OBVIOUS
<1>8. Indexes(w, held \cup {x}, last, sent)
  <2>1. \A y \in w \cup (held \cup {x}) : last < y.index /\ y.index <= sent
      BY <1>1, <1>6 DEF RepliesInv, Indexes
  <2>2. \A y \in w : y.index # x.index
      BY <1>1 DEF RepliesInv, Indexes
  <2>3. \A y \in held : y.index # x.index
      BY <1>1 DEF RepliesInv, Indexes
  <2> QED BY <1>1, <2>1, <2>2, <2>3 DEF RepliesInv, Indexes
<1>9. NoneLost(w, held \cup {x}, last, sent, ghost.marks)
      /\ Covered(w, held \cup {x}, cache, ghost.marks)
  <2> HIDE DEF w
  <2> QED BY <1>1, <1>7 DEF RepliesInv, NoneLost, Covered
<1> QED BY <1>1, <1>2, <1>5, <1>8, <1>9 DEF InHand, RepliesInv, s

\* A reply, and those held that follow it
LEMMA ReplyInv ==
    ASSUME Inv, NEW x \in wire, Reply(x)
    PROVE  Inv'
<1> DEFINE s == Settled(Arrived(x))
           w == wire \ {x}
<1>1. Typed /\ RepliesInv /\ sent \in Nat
    BY DEF Inv, Typed
<1>2. /\ x.status # "asked" /\ wire' = w /\ cache' = s.cache /\ last' = s.last /\ held' = s.held
      /\ ghost' = s.ghost /\ UNCHANGED <<criteria, pending, sent, server>>
    BY DEF Reply
<1>3. Arrived(x) \in InHand(w, sent) /\ w \in SUBSET Requests
    BY <1>2, ArrivedInHand
<1>4. s \in InHand(w, sent) /\ InTurn(s) = {}
    BY <1>1, <1>3, SettledInHand
<1> HIDE DEF s
<1>5. /\ s \in States /\ s.last <= sent /\ Indexes(w, s.held, s.last, sent)
      /\ NoneLost(w, s.held, s.last, sent, s.ghost.marks)
      /\ Covered(w, s.held, s.cache, s.ghost.marks)
    BY <1>4 DEF InHand
<1>6. /\ s.cache \in Caches /\ s.last \in Nat /\ s.ghost \in Ghosts
      /\ s.held \in SUBSET {y \in Requests : RequestOK(y) /\ y.status # "asked"}
    BY <1>5 DEF States
<1>7. Typed'
    BY <1>1, <1>2, <1>6 DEF Typed
<1>8. \A y \in held' : y.index # last' + 1
    BY <1>2, <1>4 DEF InTurn
<1>9. RepliesInv'
    BY <1>1, <1>2, <1>5, <1>8 DEF RepliesInv
<1> QED BY <1>7, <1>9 DEF Inv

\* Nothing is outstanding when all is quiet.
LEMMA QuietIsQuiet ==
    ASSUME Inv, IsQuiet
    PROVE  Outstanding = {}
<1> SUFFICES ASSUME NEW x \in wire \cup held PROVE FALSE
    BY DEF Outstanding
<1>1. last < x.index /\ x.index <= sent /\ x.index \in Nat /\ sent \in Nat /\ last = sent
    BY DEF Inv, Typed, RepliesInv, Indexes, Requests, IsQuiet
<1> QED BY <1>1

\* What a change means for the cache
LEMMA MarksOfFacts ==
    ASSUME NEW r, NEW old, NEW new
    PROVE  /\ MarksOf(r, old, new) \in SUBSET Marks
           /\ "late" \in MarksOf(r, old, new) <=> last < sent
           /\ "early" \in MarksOf(r, old, new) <=> ~LengthIsKnown(cache)
           /\ "unseen" \in MarksOf(r, old, new) <=> old = criteria /\ ~IsCached(cache, r)
           /\ "dropped" \in MarksOf(r, old, new) <=>
                 old = criteria /\ new \notin {criteria, NoCriteria}
           /\ "joined" \in MarksOf(r, old, new) <=>
                 new = criteria /\ old \notin {criteria, NoCriteria}
           /\ "appended" \in MarksOf(r, old, new) <=>
                 new = criteria /\ old # criteria /\ AllMatchingRowsCached(cache)
<1>1. MarksOf(r, old, new) \in SUBSET Marks
    BY DEF MarksOf, Marks
<1>2. "late" \in MarksOf(r, old, new) <=> last < sent
    BY DEF MarksOf
<1>3. "early" \in MarksOf(r, old, new) <=> ~LengthIsKnown(cache)
    BY DEF MarksOf
<1>4. "unseen" \in MarksOf(r, old, new) <=> old = criteria /\ ~IsCached(cache, r)
    BY DEF MarksOf
<1>5. "dropped" \in MarksOf(r, old, new) <=> old = criteria /\ new \notin {criteria, NoCriteria}
    BY DEF MarksOf
<1>6. "joined" \in MarksOf(r, old, new) <=> new = criteria /\ old \notin {criteria, NoCriteria}
    BY DEF MarksOf
<1>7. "appended" \in MarksOf(r, old, new) <=>
         new = criteria /\ old # criteria /\ AllMatchingRowsCached(cache)
    BY DEF MarksOf
<1> QED BY <1>1, <1>2, <1>3, <1>4, <1>5, <1>6, <1>7

\* A change reported while nothing is under way leaves no mark that was not there.
LEMMA ChangeInv ==
    ASSUME Inv, NEW r \in Rows, NEW new \in Criteria \cup {NoCriteria}, Change(r, new)
    PROVE  Inv'
<1>1. Typed /\ RepliesInv
    BY DEF Inv
<1>2. /\ cache \in Caches /\ criteria \in Criteria /\ ghost \in Ghosts /\ last \in Nat /\ sent \in Nat
      /\ server \in [Rows -> Criteria \cup {NoCriteria}]
    BY <1>1 DEF Typed
<1> DEFINE old == server[r]
<1>3. /\ server' = [server EXCEPT ![r] = new]
      /\ cache' = IF new = NoCriteria THEN RemoveCacheData(cache, r, old = criteria)
                  ELSE IF old = NoCriteria THEN AddCacheData(cache, r, new = criteria)
                  ELSE UpdateCacheData(cache, r, new = criteria)
      /\ ghost' = Disturbed(Happened(ghost, MarksOf(r, old, new)))
      /\ UNCHANGED <<criteria, pending, sent, last, held, wire>>
    BY DEF Change
<1>4. cache' \in Caches /\ (NoneLoading(cache) => NoneLoading(cache'))
  <2>1. (old = criteria) \in BOOLEAN /\ (new = criteria) \in BOOLEAN
      OBVIOUS
  <2>2. /\ RemoveCacheData(cache, r, old = criteria) \in Caches
        /\ NoneLoading(cache) => NoneLoading(RemoveCacheData(cache, r, old = criteria))
      BY <1>2, <2>1, RemoveFacts
  <2>3. /\ AddCacheData(cache, r, new = criteria) \in Caches
        /\ NoneLoading(cache) => NoneLoading(AddCacheData(cache, r, new = criteria))
      BY <1>2, <2>1, AddFacts
  <2>4. /\ UpdateCacheData(cache, r, new = criteria) \in Caches
        /\ NoneLoading(cache) => NoneLoading(UpdateCacheData(cache, r, new = criteria))
      BY <1>2, <2>1, UpdateFacts
  <2>5. CASE new = NoCriteria
      BY <1>3, <2>2, <2>5
  <2>6. CASE new # NoCriteria /\ old = NoCriteria
      BY <1>3, <2>3, <2>6
  <2>7. CASE new # NoCriteria /\ old # NoCriteria
      BY <1>3, <2>4, <2>7
  <2> QED BY <2>5, <2>6, <2>7
<1> DEFINE m == MarksOf(r, old, new)
<1>5. m \in SUBSET Marks /\ ("late" \in m <=> last < sent)
    BY MarksOfFacts
<1> HIDE DEF old, m
<1>6. ghost' \in Ghosts /\ ghost'.marks = ghost.marks \cup m
  <2>1. Happened(ghost, m) \in Ghosts /\ Happened(ghost, m).marks = ghost.marks \cup m
      BY <1>2, <1>5, MoreMarks
  <2>2. Disturbed(Happened(ghost, m)) \in Ghosts
        /\ Disturbed(Happened(ghost, m)).marks = Happened(ghost, m).marks
      BY <1>5, <2>1, MoreMarks
  <2>3. ghost' = Disturbed(Happened(ghost, m))
      BY <1>3 DEF m
  <2> QED BY <2>1, <2>2, <2>3
<1>7. Typed'
    BY <1>1, <1>2, <1>3, <1>4, <1>6 DEF Typed
<1>8. Covered(wire, held, cache', ghost'.marks)
  <2> SUFFICES ASSUME ghost'.marks \cap {"late", "bad"} = {} PROVE NoneLoading(cache')
      BY DEF Covered, NoneLoading
  <2>1. ghost.marks \cap {"late", "bad"} = {} /\ ~(last < sent)
      BY <1>5, <1>6
  <2>2. last = sent
      BY <1>1, <1>2, <2>1 DEF RepliesInv
  <2>3. wire \cup held = {}
      BY <2>2, QuietIsQuiet DEF IsQuiet, Outstanding
  <2>4. \A i \in Nat : At(cache, i) # Loading
      BY <1>1, <2>1, <2>3 DEF RepliesInv, Covered
  <2>5. NoneLoading(cache)
    <3> SUFFICES ASSUME NEW i \in Int, At(cache, i) = Loading PROVE FALSE
        BY DEF NoneLoading
    <3>1. Loading # Empty
        BY Numbers
    <3>2. i \in 0 .. Len(cache.rows) - 1 /\ HasRows(cache)
        BY <1>2, <3>1, AtFacts
    <3>3. i \in Nat
        BY <3>2
    <3> QED BY <2>4, <3>3
  <2> QED BY <1>4, <2>5
<1>9. NoneLost(wire, held, last, sent, ghost'.marks)
  <2>1. ghost'.marks \cap {"bad"} = {} => ghost.marks \cap {"bad"} = {}
      BY <1>6
  <2> QED BY <1>1, <2>1 DEF RepliesInv, NoneLost
<1>10. RepliesInv'
    BY <1>1, <1>3, <1>8, <1>9 DEF RepliesInv
<1> QED BY <1>7, <1>10 DEF Inv

\* Every step of the ResultSet keeps the invariant.
LEMMA NextInv == Inv /\ [Next]_vars => Inv'
<1> SUFFICES ASSUME Inv, [Next]_vars PROVE Inv'
    OBVIOUS
<1>1. ASSUME NEW start \in 0 .. Cardinality(Rows) - 1, NEW n \in 1 .. PageSize,
             GetRange(start, start + n)
      PROVE  Inv'
    BY <1>1, GetRangeInv
<1>2. CASE Fetch
    BY <1>2, FetchInv
<1>3. ASSUME NEW c \in Criteria, SetCriteria(c) PROVE Inv'
    BY <1>3, SetCriteriaInv
<1>4. ASSUME NEW x \in wire, NEW status \in {"ok", "error", "bad"}, Answer(x, status) PROVE Inv'
    BY <1>4, AnswerInv
<1>5. ASSUME NEW x \in wire, Reply(x) PROVE Inv'
    BY <1>5, ReplyInv
<1>6. ASSUME NEW r \in Rows, NEW new \in Criteria \cup {NoCriteria}, Change(r, new) PROVE Inv'
    BY <1>6, ChangeInv
<1>7. CASE UNCHANGED vars
    BY <1>7 DEF vars, Inv, Typed, RepliesInv
<1> QED BY <1>1, <1>2, <1>3, <1>4, <1>5, <1>6, <1>7 DEF Next

\* The requests, replies and marks of the ResultSet stay in sequence, whatever the order in
\* which the server answers and the replies arrive.
THEOREM InvHolds == Spec => []Inv
<1> QED BY InitInv, NextInv, PTL DEF Spec

\* fetchRemoteDataReply holds a reply back only while an earlier one is under way: none is
\* left lying.
THEOREM NothingStuck == Spec => []NoReplyStuck
<1>1. Inv => NoReplyStuck
  <2> SUFFICES ASSUME Inv, Without({"bad"}), NEW x \in held
               PROVE  x.index > last + 1 /\ \E y \in wire : y.index = last + 1
      BY DEF NoReplyStuck
  <2>1. /\ last \in Nat /\ sent \in Nat /\ x.index \in Nat
        /\ last < x.index /\ x.index <= sent /\ x.index # last + 1
      BY DEF Inv, Typed, RepliesInv, Indexes, Requests
  <2>2. last + 1 \in last + 1 .. sent
      BY <2>1
  <2>3. PICK y \in wire \cup held : y.index = last + 1
      BY <2>2 DEF Inv, RepliesInv, NoneLost, Without
  <2>4. y \notin held
      BY <2>3 DEF Inv, RepliesInv
  <2> QED BY <2>1, <2>3, <2>4
<1> QED BY <1>1, InvHolds, PTL

\* A row shown as loading is in the range of a request that was not answered yet.
THEOREM LoadingIsAskedFor == Spec => []LoadingIsComing
<1>1. Inv => LoadingIsComing
  <2> SUFFICES ASSUME Inv, Without({"late", "bad"}), NEW i \in 0 .. UnknownLength,
                      At(cache, i) = Loading
               PROVE  \E x \in Outstanding : x.start <= i /\ i < x.end
      BY DEF LoadingIsComing
  <2>1. i \in Nat
      BY Numbers
  <2> QED BY <2>1 DEF Inv, RepliesInv, Covered, Without, Outstanding
<1> QED BY <1>1, InvHolds, PTL

--------------------------------------------------------------------------------
(* The rows *)

\* The row at a position of a set of rows
Nth(S, i) == CHOOSE r \in S : Position(S, r) = i

\* The rows that match some criteria while the server holds `rows`
Matched(rows, c) == {r \in Rows : rows[r] = c}

\* Each position has its row, and each row its position.
LEMMA NthFacts ==
    ASSUME NEW S \in SUBSET Rows
    PROVE  /\ IsFiniteSet(S) /\ Cardinality(S) \in Nat /\ S \subseteq Nat
           /\ \A i \in 0 .. Cardinality(S) - 1 : Nth(S, i) \in S /\ Position(S, Nth(S, i)) = i
           /\ \A r \in S : /\ Position(S, r) \in 0 .. Cardinality(S) - 1
                           /\ Nth(S, Position(S, r)) = r
<1>1. S \subseteq Nat /\ IsFiniteSet(S)
    BY Numbers, FS_Subset
<1>2. Cardinality(S) \in Nat
    BY <1>1, FS_CardinalityType
<1>3. \A i \in 0 .. Cardinality(S) - 1 : Nth(S, i) \in S /\ Position(S, Nth(S, i)) = i
  <2> SUFFICES ASSUME NEW i \in 0 .. Cardinality(S) - 1
               PROVE  Nth(S, i) \in S /\ Position(S, Nth(S, i)) = i
      OBVIOUS
  <2>1. \E r \in S : Position(S, r) = i
      BY <1>1, PositionsTaken
  <2> QED BY <2>1 DEF Nth
<1>4. /\ \A r \in S : Position(S, r) \in 0 .. Cardinality(S) - 1
      /\ \A q, r \in S : q < r => Position(S, q) < Position(S, r)
    BY <1>1, Positions
<1>5. ASSUME NEW r \in S PROVE Nth(S, Position(S, r)) = r
  <2> DEFINE i == Position(S, r)
             q == Nth(S, i)
  <2>1. i \in 0 .. Cardinality(S) - 1
      BY <1>4
  <2>2. q \in S /\ Position(S, q) = i
      BY <1>3, <2>1
  <2> HIDE DEF q
  <2>3. q \in Nat /\ r \in Nat
      BY <1>1, <2>2
  <2>4. ~(q < r) /\ ~(r < q)
      BY <1>2, <1>4, <2>1, <2>2
  <2>5. q = r
      BY <2>3, <2>4
  <2> QED BY <2>5 DEF q
<1> QED BY <1>1, <1>2, <1>3, <1>4, <1>5

\* Without the row at position p those after it move up.
Moved(p, i) == IF i < p THEN i ELSE i + 1

\* The places of the other rows when one is taken away
LEMMA NthWithout ==
    ASSUME NEW S \in SUBSET Rows, NEW r \in S
    PROVE  /\ Cardinality(S \ {r}) = Cardinality(S) - 1
           /\ \A i \in 0 .. Cardinality(S) - 2 :
                Nth(S \ {r}, i) = Nth(S, Moved(Position(S, r), i))
<1> DEFINE T == S \ {r}
           p == Position(S, r)
<1>1. /\ IsFiniteSet(S) /\ Cardinality(S) \in Nat /\ S \subseteq Nat
      /\ \A q \in S : Position(S, q) \in 0 .. Cardinality(S) - 1 /\ Nth(S, Position(S, q)) = q
    BY NthFacts
<1>2. Cardinality(T) = Cardinality(S) - 1
    BY <1>1, FS_RemoveElement
<1>3. \A i \in 0 .. Cardinality(T) - 1 : Nth(T, i) \in T /\ Position(T, Nth(T, i)) = i
  <2>1. T \in SUBSET Rows
      OBVIOUS
  <2> HIDE DEF T
  <2> QED BY <2>1, NthFacts
<1>4. \A q \in S : q < r => Position(S, q) < p
    BY <1>1, Positions
<1>5. \A q \in S : r < q => p < Position(S, q)
    BY <1>1, Positions
<1>6. \A q \in T : q < r => Position(T, q) = Position(S, q)
  <2> SUFFICES ASSUME NEW q \in T, q < r PROVE Position(T, q) = Position(S, q)
      OBVIOUS
  <2>1. q \in Nat /\ r \in Nat /\ ~(r < q)
      BY <1>1
  <2>2. Below(T, q) = Below(S, q)
      BY <2>1 DEF Below
  <2> QED BY <2>2 DEF Position
<1>7. \A q \in T : r < q => Position(T, q) = Position(S, q) - 1
  <2> SUFFICES ASSUME NEW q \in T, r < q PROVE Position(T, q) = Position(S, q) - 1
      OBVIOUS
  <2>1. Below(T, q) = Below(S, q) \ {r} /\ r \in Below(S, q)
      BY DEF Below
  <2>2. Below(S, q) \in SUBSET S
      BY DEF Below
  <2>3. IsFiniteSet(Below(S, q))
      BY <1>1, <2>2, FS_Subset
  <2>4. Cardinality(Below(S, q) \ {r}) = Cardinality(Below(S, q)) - 1
      BY <2>1, <2>3, FS_RemoveElement
  <2> QED BY <2>1, <2>4 DEF Position
<1>8. ASSUME NEW i \in 0 .. Cardinality(S) - 2 PROVE Nth(T, i) = Nth(S, Moved(p, i))
  <2> DEFINE q == Nth(T, i)
  <2>1. i \in 0 .. Cardinality(T) - 1 /\ i \in Int
      BY <1>1, <1>2
  <2>2. q \in T /\ Position(T, q) = i
      BY <1>3, <2>1
  <2> HIDE DEF q
  <2>3. q \in S /\ q \in Nat /\ r \in Nat /\ q # r
      BY <1>1, <2>2 DEF T
  <2>4. p \in Nat /\ Position(S, q) \in Nat /\ Nth(S, Position(S, q)) = q
      BY <1>1, <2>3
  <2> HIDE DEF T, p
  <2>5. CASE q < r
    <3>1. Position(S, q) = i /\ i < p
        BY <1>4, <1>6, <2>2, <2>3, <2>5
    <3>2. Moved(p, i) = i
        BY <3>1 DEF Moved
    <3> QED BY <2>4, <3>1, <3>2 DEF q
  <2>6. CASE r < q
    <3>1. i = Position(S, q) - 1 /\ p < Position(S, q)
        BY <1>5, <1>7, <2>2, <2>3, <2>6
    <3>2. Moved(p, i) = Position(S, q)
        BY <2>1, <2>4, <3>1 DEF Moved
    <3> QED BY <2>4, <3>2 DEF q
  <2> QED BY <2>3, <2>5, <2>6
<1> QED BY <1>2, <1>8

\* What is left of a set of positions when one is taken away is one less.
LEMMA MovedCount ==
    ASSUME NEW A \in SUBSET Nat, NEW B \in SUBSET Nat, IsFiniteSet(B), NEW p \in B,
           \A i \in Nat : i \in A <=> Moved(p, i) \in B
    PROVE  IsFiniteSet(A) /\ Cardinality(B) = Cardinality(A) + 1 /\ Cardinality(A) \in Nat
<1> DEFINE f == [j \in B \ {p} |-> IF j < p THEN j ELSE j - 1]
<1>1. IsFiniteSet(B \ {p}) /\ Cardinality(B \ {p}) = Cardinality(B) - 1 /\ Cardinality(B) \in Nat
    BY FS_RemoveElement, FS_CardinalityType
<1>2. \A j \in B \ {p} : f[j] \in Nat /\ Moved(p, f[j]) = j
    BY DEF Moved
<1>3. f \in [B \ {p} -> A]
    BY <1>2
<1>4. \A i \in A : Moved(p, i) \in B \ {p} /\ f[Moved(p, i)] = i
    BY DEF Moved
<1> HIDE DEF f
<1>5. f \in Bijection(B \ {p}, A)
  <2>1. \A j, k \in B \ {p} : f[j] = f[k] => j = k
      BY <1>2
  <2>2. \A i \in A : \E j \in B \ {p} : f[j] = i
      BY <1>4
  <2> QED BY <1>3, <2>1, <2>2 DEF Bijection, Injection, Surjection, IsInjective
<1>6. IsFiniteSet(A) /\ Cardinality(A) = Cardinality(B \ {p})
    BY <1>1, <1>5, FS_Bijection DEF ExistsBijection
<1> QED BY <1>1, <1>6, FS_CardinalityType

\* The cache c shows rows of S, each at its place unless the order is marked as wrong, and
\* counts no row that is not loaded.
Right(c, S) ==
    /\ \A i \in Loaded(c) : i < Cardinality(S) /\ At(c, i) \in S
    /\ \A i, j \in Loaded(c) : At(c, i) = At(c, j) => i = j
    /\ ~c.disordered => \A i \in Loaded(c) : At(c, i) = Nth(S, i)
    /\ c.total # Unknown => c.total = Cardinality(S)
    /\ Loaded(c) # {} => c.total # Unknown
    /\ c.cached <= Cardinality(Loaded(c))

\* It counts them all.
Exact(c) == c.cached = Cardinality(Loaded(c))

\* No more rows are loaded than there are.
LEMMA LoadedCount ==
    ASSUME NEW c \in Caches, NEW S \in SUBSET Rows, \A i \in Loaded(c) : i < Cardinality(S)
    PROVE  /\ Cardinality(Loaded(c)) \in Nat /\ Cardinality(Loaded(c)) <= Cardinality(S)
           /\ Cardinality(S) \in Nat /\ Loaded(c) \in SUBSET Nat /\ IsFiniteSet(Loaded(c))
<1>1. Cardinality(S) \in Nat
    BY NthFacts
<1>2. Loaded(c) \subseteq Nat /\ IsFiniteSet(Loaded(c))
    BY AtFacts
<1>3. Loaded(c) \in SUBSET (0 .. Cardinality(S) - 1)
    BY <1>1, <1>2
<1>4. IsFiniteSet(0 .. Cardinality(S) - 1) /\ Cardinality(0 .. Cardinality(S) - 1) = Cardinality(S)
  <2>1. 0 \in Int /\ Cardinality(S) - 1 \in Int
      BY <1>1
  <2> QED BY <1>1, <2>1, FS_Interval
<1>5. Cardinality(Loaded(c)) <= Cardinality(S)
    BY <1>3, <1>4, FS_Subset
<1> QED BY <1>1, <1>2, <1>5, FS_CardinalityType

\* Two caches that show the same rows are right together.
LEMMA SameRows ==
    ASSUME NEW c \in Caches, NEW d \in Caches, NEW S \in SUBSET Rows, Right(c, S),
           \A i \in Nat : IsRow(At(c, i)) \/ IsRow(At(d, i)) => At(d, i) = At(c, i),
           c.disordered => d.disordered,
           d.total = c.total, d.cached = c.cached
    PROVE  Right(d, S) /\ Loaded(d) = Loaded(c) /\ (Exact(c) => Exact(d))
<1>1. Loaded(c) \subseteq Nat /\ Loaded(d) \subseteq Nat
    BY AtFacts
<1>2. \A i \in Nat : i \in Loaded(c) <=> IsRow(At(c, i))
    BY AtFacts
<1>3. \A i \in Nat : i \in Loaded(d) <=> IsRow(At(d, i))
    BY AtFacts
<1>4. \A i \in Nat : i \in Loaded(d) <=> i \in Loaded(c)
    BY <1>2, <1>3
<1>5. Loaded(d) = Loaded(c)
    BY <1>1, <1>4
<1>6. \A i \in Loaded(c) : At(d, i) = At(c, i)
    BY <1>1, <1>2
<1>7. Exact(c) => Exact(d)
    BY <1>5 DEF Exact
<1>8. Right(d, S)
    BY <1>5, <1>6 DEF Right
<1> QED BY <1>5, <1>7, <1>8

\* The length set to what it is changes no row.
LEMMA KeptRight ==
    ASSUME NEW c \in Caches, NEW S \in SUBSET Rows, Right(c, S), LengthIsKnown(c)
    PROVE  LET d == Lengthened(c, 0)
           IN /\ d \in Caches /\ Right(d, S) /\ (Exact(c) => Exact(d))
              /\ d.disordered = c.disordered /\ LengthIsKnown(d)
              /\ Len(d.rows) = d.total /\ d.total = c.total /\ d.cached = c.cached
              /\ Loaded(d) = Loaded(c)
<1> DEFINE d == Lengthened(c, 0)
<1>1. HasRows(c) /\ c.total # Unknown /\ c.total \in Int
    BY CacheFields DEF LengthIsKnown
<1>2. c.total = Cardinality(S) /\ \A i \in Loaded(c) : i < Cardinality(S)
    BY <1>1 DEF Right
<1>3. /\ Cardinality(Loaded(c)) \in Nat /\ Cardinality(Loaded(c)) <= c.total /\ c.total \in Nat
      /\ c.cached <= Cardinality(Loaded(c)) /\ c.cached \in Int
    BY <1>2, LoadedCount, CacheFields DEF Right
<1>4. d = SetFullLength(c, c.total)
  <2>1. c.total + 0 = c.total
      BY <1>3
  <2> QED BY <1>1, <2>1 DEF Lengthened
<1> HIDE DEF d
<1>5. /\ d \in Caches /\ d.total = c.total /\ d.cached = Least(c.cached, c.total)
      /\ d.disordered = c.disordered /\ d.start = c.start /\ HasRows(d)
      /\ Len(d.rows) = c.total
      /\ \A i \in Nat : At(d, i) = IF i < c.total THEN At(c, i) ELSE Empty
  <2>1. c.total \in Int /\ c.total >= 0
      BY <1>3
  <2> QED BY <1>1, <1>4, <2>1, SetFullLengthFacts
<1>6. d.cached = c.cached
    BY <1>3, <1>5 DEF Least
<1>7. \A i \in Nat : IsRow(At(c, i)) => i < c.total
    BY <1>2, AtFacts
<1>8. ~IsRow(Empty)
    BY DEF IsRow
<1>9. \A i \in Nat : IsRow(At(c, i)) \/ IsRow(At(d, i)) => At(d, i) = At(c, i)
    BY <1>5, <1>7, <1>8
<1>10. Right(d, S) /\ Loaded(d) = Loaded(c) /\ (Exact(c) => Exact(d))
    BY <1>5, <1>6, <1>9, SameRows
<1> QED BY <1>1, <1>5, <1>6, <1>10 DEF d, LengthIsKnown

\* A removal and its reverse: the smaller cache shows what the larger one does but for the
\* row at p, the rows after it moved up.
OneLess(small, big, p) ==
    \A i \in Nat : IsRow(At(small, i)) \/ IsRow(At(big, Moved(p, i))) =>
                     At(small, i) = At(big, Moved(p, i))

\* The larger one has one row more.
LEMMA OneLessCount ==
    ASSUME NEW c \in Caches, NEW d \in Caches, NEW p \in Loaded(d), OneLess(c, d, p)
    PROVE  /\ Cardinality(Loaded(d)) = Cardinality(Loaded(c)) + 1
           /\ Cardinality(Loaded(c)) \in Nat
           /\ \A i \in Nat : i \in Loaded(c) <=> Moved(p, i) \in Loaded(d)
<1>1. Loaded(c) \in SUBSET Nat /\ Loaded(d) \in SUBSET Nat /\ IsFiniteSet(Loaded(d)) /\ p \in Nat
    BY AtFacts
<1>2. \A i \in Nat : Moved(p, i) \in Nat
    BY <1>1 DEF Moved
<1>3. \A i \in Nat : i \in Loaded(c) <=> IsRow(At(c, i))
    BY AtFacts
<1>4. \A i \in Nat : i \in Loaded(d) <=> IsRow(At(d, i))
    BY AtFacts
<1>5. \A i \in Nat : i \in Loaded(c) <=> Moved(p, i) \in Loaded(d)
    BY <1>2, <1>3, <1>4 DEF OneLess
<1> QED BY <1>1, <1>5, MovedCount

\* A removal of a cached row leaves the rest right, and moved up.
LEMMA RemovedRight ==
    ASSUME NEW c \in Caches, NEW S \in SUBSET Rows, Right(c, S), LengthIsKnown(c),
           NEW r \in S, IsCached(c, r)
    PROVE  LET d == RemoveCacheData(c, r, TRUE)
           IN /\ d \in Caches /\ Right(d, S \ {r}) /\ (Exact(c) => Exact(d))
              /\ d.disordered = c.disordered /\ LengthIsKnown(d) /\ Len(d.rows) = d.total
<1> DEFINE p == PositionOf(c, r)
           rows == Removed(c.rows, p)
           m == c.cached - 1
           b == [c EXCEPT !.rows = rows, !.cached = m]
           d == RemoveCacheData(c, r, TRUE)
           n == c.total - 1
           T == S \ {r}
<1>1. HasRows(c) /\ c.total # Unknown /\ c.total \in Int /\ c.cached \in Int
    BY CacheFields DEF LengthIsKnown
<1>2. c.total = Cardinality(S) /\ \A i \in Loaded(c) : i < Cardinality(S)
    BY <1>1 DEF Right
<1>3. /\ Cardinality(Loaded(c)) \in Nat /\ Cardinality(Loaded(c)) <= c.total /\ c.total \in Nat
      /\ c.cached <= Cardinality(Loaded(c)) /\ Loaded(c) \subseteq Nat
    BY <1>2, LoadedCount DEF Right
<1>4. /\ c.rows \in Seq(RowValues) /\ p \in Loaded(c) /\ p \in 0 .. Len(c.rows) - 1
      /\ At(c, p) = r /\ p < c.total /\ p \in Nat /\ Len(c.rows) \in Nat
    BY <1>2, <1>3, PositionFacts, CacheFields
<1>5. d = Lengthened(b, -1)
    BY <1>1 DEF RemoveCacheData
<1> HIDE DEF d, p
<1>6. /\ rows \in Seq(RowValues) /\ Len(rows) = Len(c.rows) - 1
      /\ \A k \in 1 .. Len(c.rows) - 1 : rows[k] = IF k <= p THEN c.rows[k] ELSE c.rows[k + 1]
    BY <1>4, RemovedFacts
<1> HIDE DEF rows
<1>7. /\ b \in Caches /\ b.rows = rows /\ b.total = c.total /\ b.cached = c.cached - 1
      /\ b.disordered = c.disordered /\ HasRows(b)
  <2>1. m \in Int /\ m = c.cached - 1 /\ rows \in Seq(RowValues)
      BY <1>1, <1>6
  <2> HIDE DEF m
  <2>2. /\ b \in Caches /\ b.rows = rows /\ b.total = c.total /\ b.cached = m
        /\ b.disordered = c.disordered
      BY <2>1 DEF Caches
  <2> HIDE DEF b
  <2>3. b.rows \in Seq(RowValues)
      BY <1>6, <2>2
  <2> QED BY <2>1, <2>2, <2>3, WithRows
<1> HIDE DEF b
<1>8. \A i \in Nat : At(b, i) = At(c, Moved(p, i))
  <2> SUFFICES ASSUME NEW i \in Nat PROVE At(b, i) = At(c, Moved(p, i))
      OBVIOUS
  <2>1. At(b, i) = IF i \in 0 .. Len(rows) - 1 THEN rows[i + 1] ELSE Empty
      BY <1>6, <1>7, WithRows
  <2>2. At(c, Moved(p, i)) = IF Moved(p, i) \in 0 .. Len(c.rows) - 1
                             THEN c.rows[Moved(p, i) + 1] ELSE Empty
      BY <1>1 DEF At
  <2>3. CASE i < Len(c.rows) - 1
    <3>1. i + 1 \in 1 .. Len(c.rows) - 1 /\ i \in 0 .. Len(rows) - 1
        BY <1>4, <1>6, <2>3
    <3>2. rows[i + 1] = IF i + 1 <= p THEN c.rows[i + 1] ELSE c.rows[i + 1 + 1]
        BY <1>6, <3>1
    <3>3. CASE i < p
        BY <1>4, <2>1, <2>2, <2>3, <3>1, <3>2, <3>3 DEF Moved
    <3>4. CASE ~(i < p)
        BY <1>4, <2>1, <2>2, <2>3, <3>1, <3>2, <3>4 DEF Moved
    <3> QED BY <3>3, <3>4
  <2>4. CASE ~(i < Len(c.rows) - 1)
    <3>1. Moved(p, i) = i + 1
        BY <1>4, <2>4 DEF Moved
    <3>2. i \notin 0 .. Len(rows) - 1 /\ Moved(p, i) \notin 0 .. Len(c.rows) - 1
        BY <1>4, <1>6, <2>4, <3>1
    <3> QED BY <2>1, <2>2, <3>2
  <2> QED BY <2>3, <2>4
<1>9. d = SetFullLength(b, n) /\ n \in Int /\ n >= 0
  <2>1. c.total + -1 = n /\ n >= 0
      BY <1>3, <1>4
  <2> QED BY <1>1, <1>5, <1>7, <2>1 DEF Lengthened
<1>10. /\ d \in Caches /\ d.total = n /\ d.cached = Least(b.cached, n)
       /\ d.disordered = b.disordered /\ HasRows(d) /\ Len(d.rows) = n
       /\ \A i \in Nat : At(d, i) = IF i < n THEN At(b, i) ELSE Empty
    BY <1>7, <1>9, SetFullLengthFacts
<1> HIDE DEF n
<1>11. d.cached = c.cached - 1
    BY <1>1, <1>3, <1>7, <1>10 DEF Least, n
<1>12. OneLess(d, c, p)
  <2> SUFFICES ASSUME NEW i \in Nat, IsRow(At(d, i)) \/ IsRow(At(c, Moved(p, i)))
               PROVE  At(d, i) = At(c, Moved(p, i))
      BY DEF OneLess
  <2>1. ~IsRow(Empty)
      BY DEF IsRow
  <2>2. CASE i < n
      BY <1>8, <1>10, <2>2
  <2>3. CASE ~(i < n)
    <3>1. Moved(p, i) = i + 1 /\ ~(i + 1 < c.total)
        BY <1>3, <1>4, <2>3 DEF Moved, n
    <3>2. Moved(p, i) \in Int /\ Moved(p, i) \notin Loaded(c)
        BY <1>2, <3>1
    <3>3. ~IsRow(At(c, Moved(p, i))) /\ At(d, i) = Empty
        BY <1>10, <2>3, <3>2, AtFacts
    <3> QED BY <2>1, <3>3
  <2> QED BY <2>2, <2>3
<1>13. /\ Cardinality(Loaded(c)) = Cardinality(Loaded(d)) + 1 /\ Cardinality(Loaded(d)) \in Nat
       /\ \A i \in Nat : i \in Loaded(d) <=> Moved(p, i) \in Loaded(c)
    BY <1>4, <1>10, <1>12, OneLessCount
<1>14. Loaded(d) \subseteq Nat
    BY <1>10, AtFacts
<1>15. \A i \in Loaded(d) : At(d, i) = At(c, Moved(p, i)) /\ Moved(p, i) \in Loaded(c)
  <2>1. \A i \in Nat : i \in Loaded(d) <=> IsRow(At(d, i))
      BY <1>10, AtFacts
  <2> QED BY <1>12, <1>13, <1>14, <2>1 DEF OneLess
<1>16. /\ Cardinality(T) = Cardinality(S) - 1
       /\ \A i \in 0 .. Cardinality(S) - 2 : Nth(T, i) = Nth(S, Moved(Position(S, r), i))
    BY NthWithout
<1>17. Cardinality(T) = n
    BY <1>2, <1>16 DEF n
<1>18. \A i \in Loaded(d) : i < n /\ At(d, i) \in T
  <2> SUFFICES ASSUME NEW i \in Loaded(d) PROVE i < n /\ At(d, i) \in T
      OBVIOUS
  <2>1. i \in Nat /\ At(d, i) = At(c, Moved(p, i)) /\ Moved(p, i) \in Loaded(c)
      BY <1>14, <1>15
  <2>2. At(c, Moved(p, i)) \in S /\ Moved(p, i) < c.total
      BY <1>2, <2>1 DEF Right
  <2>3. i < n /\ Moved(p, i) # p
      BY <1>3, <1>4, <2>1, <2>2 DEF Moved, n
  <2>4. At(c, Moved(p, i)) # r
      BY <1>4, <2>1, <2>3 DEF Right
  <2> QED BY <2>1, <2>2, <2>3, <2>4
<1>19. \A i, j \in Loaded(d) : At(d, i) = At(d, j) => i = j
  <2> SUFFICES ASSUME NEW i \in Loaded(d), NEW j \in Loaded(d), At(d, i) = At(d, j) PROVE i = j
      OBVIOUS
  <2>1. Moved(p, i) = Moved(p, j)
      BY <1>15 DEF Right
  <2> QED BY <1>4, <1>14, <2>1 DEF Moved
<1>20. ~d.disordered => \A i \in Loaded(d) : At(d, i) = Nth(T, i)
  <2> SUFFICES ASSUME ~d.disordered, NEW i \in Loaded(d) PROVE At(d, i) = Nth(T, i)
      OBVIOUS
  <2>1. \A j \in Loaded(c) : At(c, j) = Nth(S, j)
      BY <1>7, <1>10 DEF Right
  <2>2. r = Nth(S, p) /\ p \in 0 .. Cardinality(S) - 1
      BY <1>2, <1>3, <1>4, <2>1
  <2>3. Position(S, r) = p
      BY <2>2, NthFacts
  <2>4. i \in Nat /\ i < n
      BY <1>14, <1>18
  <2>5. i \in 0 .. Cardinality(S) - 2
      BY <1>2, <1>3, <2>4 DEF n
  <2>6. Nth(T, i) = Nth(S, Moved(p, i))
      BY <1>16, <2>3, <2>5
  <2> QED BY <1>15, <2>1, <2>6
<1>21. d.cached <= Cardinality(Loaded(d)) /\ (Exact(c) => Exact(d))
    BY <1>1, <1>3, <1>11, <1>13 DEF Exact
<1>22. d.total # Unknown /\ LengthIsKnown(d)
    BY <1>9, <1>10, Numbers DEF LengthIsKnown
<1>23. Right(d, T)
    BY <1>10, <1>17, <1>18, <1>19, <1>20, <1>21, <1>22 DEF Right
<1> QED BY <1>7, <1>10, <1>21, <1>22, <1>23 DEF d

\* The cache with a row put in at position p, n rows being counted
Added(c, p, r, n) ==
    Disorder(Lengthened([c EXCEPT !.rows = Inserted(c.rows, p, r), !.cached = n], 1))

\* A row put in leaves the others right, and moved down; its own place may be wrong, which
\* the mark of a wrong order says: the cache was not complete and is not after it.
LEMMA InsertedRight ==
    ASSUME NEW c \in Caches, NEW S \in SUBSET Rows, Right(c, S), LengthIsKnown(c),
           Len(c.rows) <= c.total, c.cached # c.total,
           NEW r \in Rows, r \notin S, NEW p \in 0 .. Len(c.rows),
           NEW n \in Int, n = c.cached \/ n = c.cached + 1
    PROVE  LET d == Added(c, p, r, n)
           IN /\ d \in Caches /\ Right(d, S \cup {r})
              /\ (Exact(c) /\ n = c.cached + 1 => Exact(d))
              /\ LengthIsKnown(d) /\ Len(d.rows) = d.total
<1> DEFINE rows == Inserted(c.rows, p, r)
           b == [c EXCEPT !.rows = rows, !.cached = n]
           e == Lengthened(b, 1)
           d == Disorder(e)
           t == c.total + 1
           T == S \cup {r}
<1>1. HasRows(c) /\ c.total # Unknown /\ c.total \in Int /\ c.cached \in Int
    BY CacheFields DEF LengthIsKnown
<1>2. c.total = Cardinality(S) /\ \A i \in Loaded(c) : i < Cardinality(S)
    BY <1>1 DEF Right
<1>3. /\ Cardinality(Loaded(c)) \in Nat /\ Cardinality(Loaded(c)) <= c.total /\ c.total \in Nat
      /\ c.cached <= Cardinality(Loaded(c)) /\ Loaded(c) \subseteq Nat
    BY <1>2, LoadedCount DEF Right
<1>4. c.rows \in Seq(RowValues) /\ Len(c.rows) \in Nat /\ p \in Nat /\ r \in RowValues
    BY <1>1, CacheFields DEF RowValues
<1>5. /\ rows \in Seq(RowValues) /\ Len(rows) = Len(c.rows) + 1
      /\ \A k \in 1 .. p : rows[k] = c.rows[k]
      /\ rows[p + 1] = r
      /\ \A k \in p + 2 .. Len(c.rows) + 1 : rows[k] = c.rows[k - 1]
  <2> DEFINE q == c.rows
  <2>1. q \in Seq(RowValues) /\ p \in 0 .. Len(q) /\ r \in RowValues
      BY <1>4
  <2> HIDE DEF q
  <2> DEFINE i == Inserted(q, p, r)
  <2>2. /\ i \in Seq(RowValues) /\ Len(i) = Len(q) + 1
        /\ \A k \in 1 .. p : i[k] = q[k]
        /\ i[p + 1] = r
        /\ \A k \in p + 2 .. Len(q) + 1 : i[k] = q[k - 1]
      BY <2>1, InsertedFacts
  <2>3. i = rows
      BY DEF q
  <2> HIDE DEF i, rows
  <2> QED BY <2>2, <2>3 DEF q
<1> HIDE DEF rows
<1>6. /\ b \in Caches /\ b.rows = rows /\ b.total = c.total /\ b.cached = n
      /\ b.disordered = c.disordered /\ HasRows(b)
  <2>1. rows \in Seq(RowValues)
      BY <1>5
  <2>2. /\ b \in Caches /\ b.rows = rows /\ b.total = c.total /\ b.cached = n
        /\ b.disordered = c.disordered
      BY <2>1 DEF Caches
  <2> HIDE DEF b
  <2>3. b.rows \in Seq(RowValues)
      BY <1>5, <2>2
  <2> QED BY <2>2, <2>3, WithRows
<1> HIDE DEF b
<1>7. \A i \in Nat : At(b, i) = IF i \in 0 .. Len(rows) - 1 THEN rows[i + 1] ELSE Empty
    BY <1>6 DEF At
<1>8. \A i \in Nat : At(c, i) = IF i \in 0 .. Len(c.rows) - 1 THEN c.rows[i + 1] ELSE Empty
    BY <1>1 DEF At
<1>9. At(b, p) = r
    BY <1>4, <1>5, <1>7
<1>10. \A i \in Nat : At(b, Moved(p, i)) = At(c, i)
  <2> SUFFICES ASSUME NEW i \in Nat PROVE At(b, Moved(p, i)) = At(c, i)
      OBVIOUS
  <2>1. CASE i < p
    <3>1. Moved(p, i) = i /\ i + 1 \in 1 .. p /\ i \in 0 .. Len(rows) - 1 /\ i \in 0 .. Len(c.rows) - 1
        BY <1>4, <1>5, <2>1 DEF Moved
    <3> QED BY <1>5, <1>7, <1>8, <3>1
  <2>2. CASE ~(i < p) /\ i < Len(c.rows)
    <3>1. /\ Moved(p, i) = i + 1 /\ i + 2 \in p + 2 .. Len(c.rows) + 1 /\ i + 1 \in Nat
          /\ i + 1 \in 0 .. Len(rows) - 1 /\ i \in 0 .. Len(c.rows) - 1
          /\ (i + 1) + 1 = i + 2 /\ (i + 2) - 1 = i + 1
        BY <1>4, <1>5, <2>2 DEF Moved
    <3>2. At(b, i + 1) = rows[i + 2]
        BY <1>7, <3>1
    <3>3. rows[i + 2] = c.rows[i + 1]
        BY <1>5, <3>1
    <3> QED BY <1>8, <3>1, <3>2, <3>3
  <2>3. CASE ~(i < p) /\ ~(i < Len(c.rows))
    <3>1. /\ Moved(p, i) = i + 1 /\ i + 1 \in Nat
          /\ i + 1 \notin 0 .. Len(rows) - 1 /\ i \notin 0 .. Len(c.rows) - 1
        BY <1>4, <1>5, <2>3 DEF Moved
    <3> QED BY <1>7, <1>8, <3>1
  <2> QED BY <2>1, <2>2, <2>3
<1>11. \A i \in Nat : i >= t => At(b, i) = Empty
    BY <1>3, <1>4, <1>5, <1>7
<1>12. e = SetFullLength(b, t) /\ t \in Int /\ t >= 0 /\ t \in Nat
    BY <1>1, <1>3, <1>6 DEF Lengthened
<1> HIDE DEF e, t
<1>13. /\ e \in Caches /\ e.total = t /\ e.cached = Least(n, t)
       /\ HasRows(e) /\ Len(e.rows) = t
       /\ \A i \in Nat : At(e, i) = IF i < t THEN At(b, i) ELSE Empty
    BY <1>6, <1>12, SetFullLengthFacts
<1>14. e.cached = n /\ n # t
    BY <1>1, <1>3, <1>13 DEF Least, t
<1>15. \A i \in Nat : At(e, i) = At(b, i)
    BY <1>11, <1>12, <1>13
<1>16. ~AllMatchingRowsCached(e)
    BY <1>13, <1>14 DEF AllMatchingRowsCached
<1>17. /\ d \in Caches /\ d.rows = e.rows /\ d.total = t /\ d.cached = n /\ d.disordered
       /\ HasRows(d) /\ Len(d.rows) = t
       /\ \A i \in Int : At(d, i) = At(e, i)
    BY <1>13, <1>14, <1>16, DisorderFacts
<1> HIDE DEF d
<1>18. At(d, p) = r /\ \A i \in Nat : At(d, Moved(p, i)) = At(c, i)
  <2>1. \A i \in Nat : At(d, i) = At(b, i)
      BY <1>15, <1>17
  <2>2. \A i \in Nat : Moved(p, i) \in Nat
      BY <1>4 DEF Moved
  <2> QED BY <1>4, <1>9, <1>10, <2>1, <2>2
<1>19. p \in Loaded(d) /\ Loaded(d) \subseteq Nat
  <2>1. IsRow(r)
      BY Numbers DEF IsRow
  <2> QED BY <1>4, <1>17, <1>18, <2>1, AtFacts
<1>20. OneLess(c, d, p)
    BY <1>18 DEF OneLess
<1>21. /\ Cardinality(Loaded(d)) = Cardinality(Loaded(c)) + 1
       /\ \A i \in Nat : i \in Loaded(c) <=> Moved(p, i) \in Loaded(d)
    BY <1>17, <1>19, <1>20, OneLessCount
<1>22. \A j \in Loaded(d) : j = p \/ \E i \in Loaded(c) : j = Moved(p, i) /\ At(d, j) = At(c, i)
  <2> SUFFICES ASSUME NEW j \in Loaded(d), j # p
               PROVE  \E i \in Loaded(c) : j = Moved(p, i) /\ At(d, j) = At(c, i)
      OBVIOUS
  <2> DEFINE i == IF j < p THEN j ELSE j - 1
  <2>1. i \in Nat /\ Moved(p, i) = j
      BY <1>4, <1>19 DEF Moved
  <2> HIDE DEF i
  <2>2. i \in Loaded(c) /\ At(d, j) = At(c, i)
      BY <1>18, <1>21, <2>1
  <2> QED BY <2>1, <2>2
<1>23. Cardinality(T) = t
  <2>1. IsFiniteSet(S)
      BY NthFacts
  <2>2. Cardinality(S \cup {r}) = Cardinality(S) + 1
      BY <2>1, FS_AddElement
  <2> QED BY <1>2, <2>2 DEF t
<1>24. \A j \in Loaded(d) : j < t /\ At(d, j) \in T
  <2> SUFFICES ASSUME NEW j \in Loaded(d) PROVE j < t /\ At(d, j) \in T
      OBVIOUS
  <2>1. CASE j = p
      BY <1>3, <1>4, <1>18, <2>1 DEF t
  <2>2. CASE j # p
    <3>1. PICK i \in Loaded(c) : j = Moved(p, i) /\ At(d, j) = At(c, i)
        BY <1>22, <2>2
    <3>2. i < c.total /\ At(c, i) \in S /\ i \in Nat
        BY <1>2, <1>3 DEF Right
    <3> QED BY <1>3, <1>4, <3>1, <3>2 DEF Moved, t
  <2> QED BY <2>1, <2>2
<1>25. \A i, j \in Loaded(d) : At(d, i) = At(d, j) => i = j
  <2> SUFFICES ASSUME NEW i \in Loaded(d), NEW j \in Loaded(d), At(d, i) = At(d, j) PROVE i = j
      OBVIOUS
  <2>1. \A k \in Loaded(c) : At(c, k) # r
      BY DEF Right
  <2>2. CASE i = p \/ j = p
      BY <1>18, <1>22, <2>1, <2>2
  <2>3. CASE i # p /\ j # p
    <3>1. PICK k \in Loaded(c) : i = Moved(p, k) /\ At(d, i) = At(c, k)
        BY <1>22, <2>3
    <3>2. PICK l \in Loaded(c) : j = Moved(p, l) /\ At(d, j) = At(c, l)
        BY <1>22, <2>3
    <3>3. k = l
        BY <3>1, <3>2 DEF Right
    <3> QED BY <3>1, <3>2, <3>3
  <2> QED BY <2>2, <2>3
<1>26. d.cached <= Cardinality(Loaded(d)) /\ (Exact(c) /\ n = c.cached + 1 => Exact(d))
    BY <1>1, <1>3, <1>17, <1>21 DEF Exact
<1>27. d.total # Unknown /\ LengthIsKnown(d)
    BY <1>12, <1>17, Numbers DEF LengthIsKnown
<1>28. Right(d, T)
    BY <1>17, <1>23, <1>24, <1>25, <1>26, <1>27 DEF Right
<1>29. Added(c, p, r, n) = d
    BY DEF Added, d, e, b, rows
<1> QED BY <1>17, <1>26, <1>27, <1>28, <1>29

\* The rows and the length that an answer brings are the server's.
AnswerRight(x, rows) ==
    x.status = "ok" =>
        /\ x.total = Cardinality(Matched(rows, x.criteria))
        /\ \A k \in 1 .. Len(x.data) : x.data[k] = Nth(Matched(rows, x.criteria), x.start + k - 1)

\* A right answer, taken into a cache in order, leaves it right and in order.
LEMMA HandleRight ==
    ASSUME NEW c \in Caches, NEW rows, NEW x \in Requests, RequestOK(x), x.status = "ok",
           AnswerRight(x, rows), Right(c, Matched(rows, x.criteria)), ~c.disordered
    PROVE  LET d == HandleNewData(c, x)
           IN /\ d \in Caches /\ Right(d, Matched(rows, x.criteria)) /\ ~d.disordered
              /\ (Exact(c) => Exact(d)) /\ Len(d.rows) = d.total
<1> DEFINE d == HandleNewData(c, x)
           S == Matched(rows, x.criteria)
           t == TotalOf(x)
           after == After(x)
           s == SetFullLength(Opened(c), t)
           new == NewIn(s, x.start, after)
<1>1. S \in SUBSET Rows
    BY DEF Matched
<1>2. x.status \in {"ok", "error"}
    OBVIOUS
<1>3. /\ x.start \in Nat /\ x.data \in Seq(Rows) /\ Len(x.data) \in Nat /\ t \in Nat /\ after \in Nat
      /\ \A i \in Nat : x.start <= i /\ i < after => i < t
    BY <1>2, RequestFacts
<1>4. t = x.total /\ t = Cardinality(S)
    BY DEF TotalOf, AnswerRight
<1>5. after = x.start + Len(x.data)
    BY DEF After
<1>6. \A i \in Nat : x.start <= i /\ i < after => x.data[i - x.start + 1] = Nth(S, i)
  <2> SUFFICES ASSUME NEW i \in Nat, x.start <= i, i < after
               PROVE  x.data[i - x.start + 1] = Nth(S, i)
      OBVIOUS
  <2> DEFINE k == i - x.start + 1
  <2>1. k \in 1 .. Len(x.data) /\ x.start + k - 1 = i
      BY <1>3, <1>5
  <2> HIDE DEF k
  <2>2. x.data[k] = Nth(S, x.start + k - 1)
      BY <2>1 DEF AnswerRight
  <2> QED BY <2>1, <2>2 DEF k
<1> HIDE DEF S
<1>7. \A i \in 0 .. Cardinality(S) - 1 : Nth(S, i) \in S /\ Position(S, Nth(S, i)) = i
    BY <1>1, NthFacts
<1>8. Right(c, S)
    BY DEF S
<1>9. \A i \in Loaded(c) : i < t /\ At(c, i) = Nth(S, i)
    BY <1>4, <1>8 DEF Right
<1>10. /\ Cardinality(Loaded(c)) \in Nat /\ Cardinality(Loaded(c)) <= t
       /\ Loaded(c) \in SUBSET Nat /\ IsFiniteSet(Loaded(c))
    BY <1>1, <1>4, <1>9, LoadedCount
<1>11. c.cached <= Cardinality(Loaded(c)) /\ c.cached \in Int
    BY <1>8, CacheFields DEF Right
<1>12. /\ d \in Caches /\ d.rows \in Seq(RowValues) /\ d.total = t
       /\ d.disordered = c.disordered
       /\ Len(d.rows) = t
       /\ d.cached = Least(c.cached, t) + Cardinality(new)
    BY <1>2, HandleNewDataFacts
<1>13. \A i \in Nat :
         /\ i >= t => At(d, i) = Empty
         /\ x.start <= i /\ i < after => At(d, i) = x.data[i - x.start + 1]
         /\ i < t /\ ~(x.start <= i /\ i < after) =>
              At(d, i) = At(c, i) \/ (At(c, i) = Loading /\ At(d, i) = Empty)
    BY <1>2, HandleNewDataFacts
<1> HIDE DEF d, t, after
<1>14. \A i \in Nat : At(s, i) = IF i < t THEN At(c, i) ELSE Empty
  <2>1. Opened(c) \in Caches /\ HasRows(Opened(c)) /\ \A i \in Int : At(Opened(c), i) = At(c, i)
      BY OpenedFacts
  <2>2. t \in Int /\ t >= 0
      BY <1>3
  <2>3. \A i \in Nat : At(s, i) = IF i < t THEN At(Opened(c), i) ELSE Empty
      BY <2>1, <2>2, SetFullLengthFacts
  <2> HIDE DEF s
  <2> QED BY <2>1, <2>3
<1> HIDE DEF s
<1>15. \A i \in Nat : i \in Loaded(c) <=> IsRow(At(c, i))
    BY AtFacts
<1>16. Loaded(d) \subseteq Nat /\ \A i \in Nat : i \in Loaded(d) <=> IsRow(At(d, i))
    BY <1>12, AtFacts
<1>17. new = {i \in Nat : x.start <= i /\ i < after /\ i \notin Loaded(c)}
  <2>1. \A i \in Nat : x.start <= i /\ i < after => At(s, i) = At(c, i)
      BY <1>3, <1>14
  <2>2. new = {i \in x.start .. after - 1 : ~IsRow(At(s, i))}
      BY DEF NewIn
  <2>3. \A i : i \in x.start .. after - 1 <=> i \in Nat /\ x.start <= i /\ i < after
      BY <1>3
  <2> HIDE DEF new
  <2> QED BY <1>15, <2>1, <2>2, <2>3
<1> HIDE DEF new
<1>18. \A i \in Nat : x.start <= i /\ i < after =>
           i \in Loaded(d) /\ At(d, i) = Nth(S, i) /\ i < t
  <2> SUFFICES ASSUME NEW i \in Nat, x.start <= i, i < after
               PROVE  i \in Loaded(d) /\ At(d, i) = Nth(S, i) /\ i < t
      OBVIOUS
  <2>1. At(d, i) = Nth(S, i) /\ i < t
      BY <1>3, <1>6, <1>13
  <2>2. i \in 0 .. Cardinality(S) - 1
      BY <1>3, <1>4, <2>1
  <2>3. Nth(S, i) \in Rows
      BY <1>1, <1>7, <2>2
  <2>4. IsRow(Nth(S, i))
      BY <2>3, Numbers DEF IsRow
  <2> QED BY <1>16, <2>1, <2>4
<1>19. \A i \in Nat : ~(x.start <= i /\ i < after) =>
           (i \in Loaded(d) <=> i \in Loaded(c)) /\ (i \in Loaded(c) => At(d, i) = At(c, i))
  <2> SUFFICES ASSUME NEW i \in Nat, ~(x.start <= i /\ i < after)
               PROVE  (i \in Loaded(d) <=> i \in Loaded(c)) /\ (i \in Loaded(c) => At(d, i) = At(c, i))
      OBVIOUS
  <2>1. ~IsRow(Empty) /\ ~IsRow(Loading)
      BY DEF IsRow
  <2>2. CASE i < t
    <3>1. At(d, i) = At(c, i) \/ (At(c, i) = Loading /\ At(d, i) = Empty)
        BY <1>13, <2>2
    <3> QED BY <1>15, <1>16, <2>1, <3>1
  <2>3. CASE ~(i < t)
    <3>1. At(d, i) = Empty /\ i \notin Loaded(c)
        BY <1>3, <1>9, <1>13, <2>3
    <3> QED BY <1>16, <2>1, <3>1
  <2> QED BY <2>2, <2>3
<1>20. Loaded(d) = Loaded(c) \cup new
  <2>1. \A i \in Nat : i \in Loaded(d) <=> i \in Loaded(c) \cup new
      BY <1>17, <1>18, <1>19
  <2>2. Loaded(c) \cup new \subseteq Nat
      BY <1>10, <1>17
  <2> QED BY <1>16, <2>1, <2>2
<1>21. Cardinality(Loaded(d)) = Cardinality(Loaded(c)) + Cardinality(new) /\ Cardinality(new) \in Nat
  <2>1. IsFiniteSet(new)
    <3>1. new \in SUBSET Loaded(d)
        BY <1>20
    <3>2. IsFiniteSet(Loaded(d))
        BY <1>12, AtFacts
    <3> QED BY <3>1, <3>2, FS_Subset
  <2>2. Loaded(c) \cap new = {}
      BY <1>17
  <2>3. Cardinality(Loaded(c) \cup new) = Cardinality(Loaded(c)) + Cardinality(new)
                                           - Cardinality(Loaded(c) \cap new)
      BY <1>10, <2>1, FS_Union
  <2>4. Cardinality(new) \in Nat /\ Cardinality({}) = 0
      BY <2>1, FS_CardinalityType, FS_EmptySet
  <2>5. Cardinality(Loaded(d)) = Cardinality(Loaded(c) \cup new)
        /\ Cardinality(Loaded(c) \cap new) = 0 /\ Cardinality(Loaded(c)) \in Nat
      BY <1>10, <1>20, <2>2, <2>4
  <2> QED BY <2>3, <2>4, <2>5
<1>22. d.cached = c.cached + Cardinality(new)
    BY <1>3, <1>10, <1>11, <1>12 DEF Least
<1>23. d.cached <= Cardinality(Loaded(d)) /\ (Exact(c) => Exact(d))
    BY <1>10, <1>11, <1>21, <1>22 DEF Exact
<1>24. \A i \in Loaded(d) : i < t /\ At(d, i) = Nth(S, i) /\ i \in Nat
    BY <1>9, <1>16, <1>18, <1>19
<1>25. \A i \in Loaded(d) : i \in 0 .. Cardinality(S) - 1
    BY <1>3, <1>4, <1>24
<1>26. \A i \in Loaded(d) : At(d, i) \in S /\ Position(S, At(d, i)) = i
    BY <1>7, <1>24, <1>25
<1>27. \A i, j \in Loaded(d) : At(d, i) = At(d, j) => i = j
    BY <1>26
<1>28. d.total # Unknown
    BY <1>3, <1>12, Numbers
<1>29. Right(d, S)
    BY <1>4, <1>12, <1>23, <1>24, <1>26, <1>27, <1>28 DEF Right
<1> QED BY <1>12, <1>23, <1>29 DEF d, S

\* What keeps the cache from following the server
Upsets == {"mixed", "failed", "late", "early", "unseen", "dropped", "appended"}

\* While nothing of it happened the cache is right and so are the answers in h. It is in
\* order while requests are outstanding, and when none are it is no longer than the total.
RowsRight(c, rows, of, l, n, h, marks) ==
    marks \cap Upsets = {} =>
        /\ Right(c, Matched(rows, of))
        /\ \A x \in h : AnswerRight(x, rows)
        /\ l < n => ~c.disordered
        /\ l = n /\ LengthIsKnown(c) => Len(c.rows) <= c.total
        /\ "joined" \notin marks => Exact(c)

\* The invariant of the rows
RowsInv == RowsRight(cache, server, criteria, last, sent, wire \cup held, ghost.marks)

\* What is in hand, right and in order, while replies are processed
RightInHand(w, n) ==
    {s \in InHand(w, n) : s.ghost.marks \cap Upsets = {} =>
        /\ Right(s.cache, Matched(server, criteria))
        /\ \A x \in w \cup s.held : AnswerRight(x, server)
        /\ ~s.cache.disordered
        /\ s.last = n /\ LengthIsKnown(s.cache) => Len(s.cache.rows) <= s.cache.total
        /\ "joined" \notin s.ghost.marks => Exact(s.cache)}

\* Each reply taken in leaves the cache right and in order.
LEMMA ProcessedRight ==
    ASSUME NEW w \in SUBSET Requests, NEW n \in Nat, NEW s \in RightInHand(w, n)
    PROVE  Processed(s) \in RightInHand(w, n)
<1> DEFINE p == Processed(s)
           S == Matched(server, criteria)
<1>1. s \in InHand(w, n)
    BY DEF RightInHand
<1>2. /\ s \in States /\ s.last <= n /\ s.last \in Nat /\ s.held \subseteq Requests
      /\ s.cache \in Caches /\ Indexes(w, s.held, s.last, n)
    BY <1>1 DEF InHand, States
<1>3. p \in InHand(w, n)
    BY <1>1, ProcessedInHand
<1>4. CASE InTurn(s) = {}
    BY <1>2, <1>4, OneReply
<1>5. CASE InTurn(s) # {}
  <2>1. PICK x \in InTurn(s) :
                 /\ x \in Requests /\ RequestOK(x) /\ x \in s.held /\ x.index = s.last + 1
                 /\ p \in States
                 /\ p.held = s.held \ {x}
                 /\ \/ /\ x.status = "bad"
                       /\ p.cache = s.cache /\ p.last = s.last
                       /\ p.ghost.marks = s.ghost.marks \cup {"bad"}
                    \/ /\ x.status \in {"ok", "error"}
                       /\ p.cache = HandleNewData(s.cache, x)
                       /\ p.last = x.index
                       /\ p.ghost.marks = s.ghost.marks \cup MarksBy(x)
      BY <1>2, <1>5, OneReply
  <2> HIDE DEF p
  <2>2. x.index <= n
      BY <1>2, <2>1 DEF Indexes
  <2> SUFFICES ASSUME p.ghost.marks \cap Upsets = {}
               PROVE  /\ Right(p.cache, S)
                      /\ \A y \in w \cup p.held : AnswerRight(y, server)
                      /\ ~p.cache.disordered
                      /\ p.last = n /\ LengthIsKnown(p.cache) => Len(p.cache.rows) <= p.cache.total
                      /\ "joined" \notin p.ghost.marks => Exact(p.cache)
      BY <1>3 DEF RightInHand, p
  <2>3. s.ghost.marks \subseteq p.ghost.marks
      BY <2>1
  <2>4. /\ Right(s.cache, S)
        /\ \A y \in w \cup s.held : AnswerRight(y, server)
        /\ ~s.cache.disordered
        /\ "joined" \notin s.ghost.marks => Exact(s.cache)
      BY <2>3 DEF RightInHand
  <2>5. \A y \in w \cup p.held : AnswerRight(y, server)
      BY <2>1, <2>4
  <2>6. CASE x.status = "bad"
    <3>1. p.cache = s.cache /\ p.last = s.last
        BY <2>1, <2>6
    <3>2. p.last # n
        BY <1>2, <2>1, <2>2, <3>1
    <3> QED BY <2>3, <2>4, <2>5, <3>1, <3>2
  <2>7. CASE x.status # "bad"
    <3>1. /\ x.status \in {"ok", "error"} /\ p.cache = HandleNewData(s.cache, x)
          /\ p.ghost.marks = s.ghost.marks \cup MarksBy(x)
        BY <2>1, <2>7
    <3>2. "mixed" \notin MarksBy(x) /\ "failed" \notin MarksBy(x)
        BY <3>1 DEF Upsets
    <3>3. x.criteria = criteria
        BY <3>2 DEF MarksBy
    <3>4. x.status = "ok"
        BY <3>1, <3>2 DEF MarksBy
    <3>5. AnswerRight(x, server) /\ Right(s.cache, Matched(server, x.criteria))
        BY <2>1, <2>4, <3>3
    <3>6. /\ p.cache \in Caches /\ Right(p.cache, Matched(server, x.criteria))
          /\ ~p.cache.disordered
          /\ (Exact(s.cache) => Exact(p.cache)) /\ Len(p.cache.rows) = p.cache.total
        BY <1>2, <2>1, <2>4, <3>1, <3>4, <3>5, HandleRight
    <3>7. LengthIsKnown(p.cache) => Len(p.cache.rows) <= p.cache.total
        BY <3>6, CacheFields
    <3> QED BY <2>3, <2>4, <2>5, <3>3, <3>6, <3>7
  <2> QED BY <2>6, <2>7
<1> QED BY <1>4, <1>5

\* A reply, and those held that follow it, leave the rows right.
LEMMA ReplyRows ==
    ASSUME Inv, RowsInv, NEW x \in wire, Reply(x)
    PROVE  RowsInv'
<1> DEFINE s == Settled(Arrived(x))
           w == wire \ {x}
           a == Arrived(x)
<1>1. /\ cache \in Caches /\ last \in Nat /\ sent \in Nat /\ last <= sent
      /\ wire \subseteq Requests
    BY DEF Inv, Typed, RepliesInv
<1>2. /\ x.status # "asked" /\ wire' = w /\ cache' = s.cache /\ last' = s.last /\ held' = s.held
      /\ ghost' = s.ghost /\ UNCHANGED <<criteria, pending, sent, server>>
    BY DEF Reply
<1>3. a \in InHand(w, sent) /\ w \in SUBSET Requests
    BY <1>2, ArrivedInHand
<1>4. last < sent
  <2>1. x.index \in Nat /\ last < x.index /\ x.index <= sent
      BY <1>1 DEF Inv, RepliesInv, Indexes, Requests
  <2> QED BY <1>1, <2>1
<1>5. a.cache = cache /\ a.last = last /\ a.held = held \cup {x} /\ a.ghost = ghost
    BY DEF Arrived
<1>6. a \in RightInHand(w, sent)
  <2> SUFFICES ASSUME ghost.marks \cap Upsets = {}
               PROVE  /\ Right(cache, Matched(server, criteria))
                      /\ \A y \in w \cup (held \cup {x}) : AnswerRight(y, server)
                      /\ ~cache.disordered
                      /\ last # sent
                      /\ "joined" \notin ghost.marks => Exact(cache)
    <3> HIDE DEF a
    <3> QED BY <1>3, <1>5 DEF RightInHand
  <2>1. w \cup (held \cup {x}) = wire \cup held
      OBVIOUS
  <2> HIDE DEF w
  <2> QED BY <2>1, <1>1, <1>4 DEF RowsInv, RowsRight
<1>7. s \in RightInHand(w, sent)
  <2>1. \A z \in RightInHand(w, sent) : Processed(z) \in RightInHand(w, sent)
      BY <1>1, <1>3, ProcessedRight
  <2> HIDE DEF a, w
  <2>2. Settled(a) \in RightInHand(w, sent)
      BY <1>1, <1>6, <2>1, SettledKeeps
  <2> QED BY <2>2 DEF a
<1> HIDE DEF s
<1> SUFFICES ASSUME s.ghost.marks \cap Upsets = {}
             PROVE  /\ Right(s.cache, Matched(server, criteria))
                    /\ \A y \in w \cup s.held : AnswerRight(y, server)
                    /\ ~s.cache.disordered
                    /\ s.last = sent /\ LengthIsKnown(s.cache) => Len(s.cache.rows) <= s.cache.total
                    /\ "joined" \notin s.ghost.marks => Exact(s.cache)
    BY <1>2 DEF RowsInv, RowsRight
<1> QED BY <1>7 DEF RightInHand

\* A cache that shows no row is right, and in order.
LEMMA EmptyRight ==
    ASSUME NEW c \in Caches, NEW S \in SUBSET Rows, Loaded(c) = {}, c.cached = 0,
           c.total # Unknown => c.total = Cardinality(S)
    PROVE  Right(c, S) /\ Exact(c)
<1>1. Cardinality({}) = 0
    BY FS_EmptySet
<1> QED BY <1>1 DEF Right, Exact

\* Nothing is shown at first.
LEMMA InitRows == Init => RowsInv
<1> SUFFICES ASSUME Init PROVE RowsInv
    OBVIOUS
<1>1. Inv
    BY InitInv
<1>2. /\ cache = [rows |-> <<>>, total |-> Unknown, cached |-> 0, disordered |-> FALSE, start |-> 0]
      /\ last = 0 /\ sent = 0 /\ held = {} /\ wire = {}
    BY DEF Init
<1>3. cache \in Caches
    BY <1>1 DEF Inv, Typed
<1>4. cache.total = Unknown /\ cache.cached = 0 /\ ~LengthIsKnown(cache) /\ Len(cache.rows) = 0
    BY <1>2 DEF LengthIsKnown
<1>5. Loaded(cache) = {}
    BY <1>4 DEF Loaded
<1>6. Matched(server, criteria) \in SUBSET Rows
    BY DEF Matched
<1> HIDE DEF Init
<1>7. Right(cache, Matched(server, criteria)) /\ Exact(cache)
    BY <1>3, <1>4, <1>5, <1>6, EmptyRight
<1>8. ~(last < sent) /\ wire \cup held = {}
    BY <1>2
<1> QED BY <1>4, <1>7, <1>8 DEF RowsInv, RowsRight

\* Asking for rows shows none and hides none.
LEMMA GetRangeRows ==
    ASSUME Inv, RowsInv, NEW start \in 0 .. Cardinality(Rows) - 1, NEW n \in 1 .. PageSize,
           GetRange(start, start + n)
    PROVE  RowsInv'
<1> DEFINE S == Matched(server, criteria)
           o == Opened(cache)
<1>1. cache' = [cache EXCEPT !.rows = IF @ = Unknown THEN <<>> ELSE @, !.start = start]
      /\ UNCHANGED <<criteria, sent, last, held, wire, server, ghost>> /\ start \in Nat
  <2>1. start \in Nat
      BY Numbers
  <2> QED BY <2>1 DEF GetRange
<1>2. cache \in Caches
    BY DEF Inv, Typed
<1>3. cache' = [o EXCEPT !.start = start]
    BY <1>1, <1>2 DEF Opened, Caches
<1>4. /\ o \in Caches /\ HasRows(o) /\ \A i \in Int : At(o, i) = At(cache, i)
      /\ o.total = cache.total /\ o.cached = cache.cached /\ o.disordered = cache.disordered
      /\ HasRows(cache) => o = cache
      /\ ~HasRows(cache) => o.rows = <<>>
  <2>1. ~HasRows(cache) => o.rows = <<>>
      BY <1>2 DEF Opened, HasRows, Caches
  <2> QED BY <1>2, <2>1, OpenedFacts
<1> HIDE DEF o
<1>5. /\ cache' \in Caches /\ cache'.rows = o.rows /\ cache'.total = o.total
      /\ cache'.cached = o.cached /\ cache'.disordered = o.disordered
    BY <1>1, <1>3, <1>4 DEF Caches
<1>6. \A i \in Int : At(cache', i) = At(cache, i)
    BY <1>4, <1>5 DEF At, HasRows
<1> SUFFICES ASSUME ghost.marks \cap Upsets = {}
             PROVE  /\ Right(cache', S)
                    /\ \A x \in wire \cup held : AnswerRight(x, server)
                    /\ last < sent => ~cache'.disordered
                    /\ last = sent /\ LengthIsKnown(cache') => Len(cache'.rows) <= cache'.total
                    /\ "joined" \notin ghost.marks => Exact(cache')
    BY <1>1 DEF RowsInv, RowsRight
<1>7. /\ Right(cache, S)
      /\ \A x \in wire \cup held : AnswerRight(x, server)
      /\ last < sent => ~cache.disordered
      /\ last = sent /\ LengthIsKnown(cache) => Len(cache.rows) <= cache.total
      /\ "joined" \notin ghost.marks => Exact(cache)
    BY DEF RowsInv, RowsRight
<1>8. S \in SUBSET Rows
    BY DEF Matched
<1> HIDE DEF S
<1>9. Right(cache', S) /\ (Exact(cache) => Exact(cache'))
  <2> DEFINE d == cache'
  <2>1. /\ d \in Caches /\ d.total = cache.total /\ d.cached = cache.cached
        /\ d.disordered = cache.disordered /\ \A i \in Int : At(d, i) = At(cache, i)
      BY <1>4, <1>5, <1>6
  <2> HIDE DEF d
  <2>2. Right(d, S) /\ (Exact(cache) => Exact(d))
      BY <1>2, <1>7, <1>8, <2>1, SameRows
  <2> QED BY <2>2 DEF d
<1>10. last = sent /\ LengthIsKnown(cache') => Len(cache'.rows) <= cache'.total
  <2> SUFFICES ASSUME last = sent, LengthIsKnown(cache') PROVE Len(cache'.rows) <= cache'.total
      OBVIOUS
  <2>1. cache.total # Unknown
      BY <1>4, <1>5 DEF LengthIsKnown
  <2>2. CASE HasRows(cache)
    <3>1. LengthIsKnown(cache) /\ cache'.rows = cache.rows /\ cache'.total = cache.total
        BY <1>4, <1>5, <2>1, <2>2 DEF LengthIsKnown
    <3> QED BY <1>7, <3>1
  <2>3. CASE ~HasRows(cache)
    <3>1. cache'.rows = <<>> /\ cache'.total = Cardinality(S) /\ Cardinality(S) \in Nat
        BY <1>4, <1>5, <1>7, <1>8, <2>1, <2>3, NthFacts DEF Right
    <3> QED BY <3>1
  <2> QED BY <2>2, <2>3
<1> QED BY <1>4, <1>5, <1>7, <1>9, <1>10

\* A fetch drops the rows if they are out of order, and keeps them all if not.
LEMMA FetchRows ==
    ASSUME Inv, RowsInv, Fetch
    PROVE  RowsInv'
<1> DEFINE S == Matched(server, criteria)
           x == [index |-> sent + 1, start |-> pending[1], end |-> pending[2],
                 criteria |-> criteria, status |-> "asked", data |-> <<>>, total |-> Unknown]
           d == cache'
<1>1. /\ pending # Unknown /\ sent' = sent + 1
      /\ wire' = wire \cup {x} /\ UNCHANGED <<criteria, last, held, server, ghost>>
    BY DEF Fetch
<1>2. cache \in Caches /\ Typed /\ sent \in Nat /\ last \in Nat /\ last <= sent
    BY DEF Inv, Typed, RepliesInv
<1>3. /\ d \in Caches /\ ~d.disordered /\ d.total = cache.total
      /\ \A i \in Nat : IsRow(At(d, i)) => ~cache.disordered /\ At(d, i) = At(cache, i)
      /\ HasRows(d) => /\ ~cache.disordered /\ d.cached = cache.cached
                       /\ \A i \in Nat : IsRow(At(cache, i)) => At(d, i) = At(cache, i)
      /\ HasRows(d) \/ (d.cached = 0 /\ Loaded(d) = {})
    BY <1>1, <1>2, FetchCache
<1>4. AnswerRight(x, server)
    BY DEF AnswerRight
<1> HIDE DEF x
<1> SUFFICES ASSUME ghost.marks \cap Upsets = {}
             PROVE  /\ Right(d, S)
                    /\ \A y \in wire' \cup held : AnswerRight(y, server)
                    /\ ~d.disordered
                    /\ ~(last = sent')
                    /\ "joined" \notin ghost.marks => Exact(d)
    BY <1>1 DEF RowsInv, RowsRight
<1>5. /\ Right(cache, S)
      /\ \A y \in wire \cup held : AnswerRight(y, server)
      /\ "joined" \notin ghost.marks => Exact(cache)
    BY DEF RowsInv, RowsRight
<1>6. S \in SUBSET Rows
    BY DEF Matched
<1> HIDE DEF S, d
<1>7. Right(d, S) /\ (Exact(cache) => Exact(d))
  <2>1. CASE HasRows(d)
    <3>1. \A i \in Nat : IsRow(At(cache, i)) \/ IsRow(At(d, i)) => At(d, i) = At(cache, i)
        BY <1>3, <2>1
    <3> QED BY <1>2, <1>3, <1>5, <1>6, <2>1, <3>1, SameRows
  <2>2. CASE ~HasRows(d)
    <3>1. d.total # Unknown => d.total = Cardinality(S)
        BY <1>3, <1>5 DEF Right
    <3> QED BY <1>3, <1>6, <2>2, <3>1, EmptyRight
  <2> QED BY <2>1, <2>2
<1>8. \A y \in wire' \cup held : AnswerRight(y, server)
    BY <1>1, <1>4, <1>5
<1>9. ~(last = sent')
    BY <1>1, <1>2
<1> QED BY <1>3, <1>5, <1>7, <1>8, <1>9

\* The server answers with its rows, in its order.
LEMMA MatchingNth ==
    ASSUME NEW c
    PROVE  /\ Matched(server, c) \in SUBSET Rows
           /\ Len(Matching(c)) = Cardinality(Matched(server, c))
           /\ Len(Matching(c)) \in Nat
           /\ \A n \in 1 .. Len(Matching(c)) : Matching(c)[n] = Nth(Matched(server, c), n - 1)
<1> DEFINE S == Matched(server, c)
<1>1. S \in SUBSET Rows /\ S = Matches(c)
    BY DEF Matched, Matches
<1> HIDE DEF S
<1>2. /\ Len(Matching(c)) = Cardinality(S) /\ Cardinality(S) \in Nat
      /\ \A n \in 1 .. Len(Matching(c)) : Matching(c)[n] \in S /\ Position(S, Matching(c)[n]) = n - 1
    BY <1>1, MatchingFacts
<1>3. \A r \in S : Nth(S, Position(S, r)) = r
    BY <1>1, NthFacts
<1>4. \A n \in 1 .. Len(Matching(c)) : Matching(c)[n] = Nth(S, n - 1)
    BY <1>2, <1>3
<1> QED BY <1>1, <1>2, <1>4 DEF S

\* Other criteria start with nothing.
LEMMA SetCriteriaRows ==
    ASSUME Inv, RowsInv, NEW c \in Criteria, SetCriteria(c)
    PROVE  RowsInv'
<1> DEFINE S == Matched(server, criteria')
           d == [NoRows(cache) EXCEPT !.total = Unknown]
<1>1. /\ cache' = d /\ ghost' = Disturbed(ghost)
      /\ UNCHANGED <<pending, sent, last, held, wire, server>>
    BY DEF SetCriteria
<1>2. cache \in Caches /\ ghost \in Ghosts
    BY DEF Inv, Typed
<1>3. /\ d \in Caches /\ d.total = Unknown /\ d.cached = 0 /\ ~d.disordered /\ ~HasRows(d)
      /\ Loaded(d) = {}
    BY <1>2, NoRowsFacts
<1> HIDE DEF d
<1>4. ghost'.marks = ghost.marks
  <2>1. {} \in SUBSET Marks
      OBVIOUS
  <2> QED BY <1>1, <1>2, <2>1, MoreMarks
<1>5. S \in SUBSET Rows
    BY DEF Matched
<1> HIDE DEF S
<1>6. Right(d, S) /\ Exact(d)
    BY <1>3, <1>5, EmptyRight
<1>7. ghost.marks \cap Upsets = {} => \A x \in wire \cup held : AnswerRight(x, server)
    BY DEF RowsInv, RowsRight
<1>8. ~LengthIsKnown(d)
    BY <1>3 DEF LengthIsKnown
<1> QED BY <1>1, <1>3, <1>4, <1>6, <1>7, <1>8 DEF RowsInv, RowsRight, S

\* The answer of the server is right.
LEMMA AnswerRows ==
    ASSUME Inv, RowsInv, NEW x \in wire, NEW status \in {"ok", "error", "bad"}, Answer(x, status)
    PROVE  RowsInv'
<1> DEFINE y == Answered(x, status)
<1>1. x \in Requests /\ RequestOK(x) /\ x.status = "asked" /\ ghost \in Ghosts
    BY DEF Inv, Typed, Answer
<1>2. /\ y \in Requests /\ y.status = status /\ y.start = x.start /\ y.criteria = x.criteria
      /\ status = "ok" =>
           /\ y.total = Len(Matching(x.criteria))
           /\ \A k \in 1 .. Len(y.data) : /\ x.start + k \in 1 .. Len(Matching(x.criteria))
                                          /\ y.data[k] = Matching(x.criteria)[x.start + k]
    BY <1>1, AnsweredFacts
<1>3. /\ wire' = (wire \ {x}) \cup {y}
      /\ ghost' = IF status = "ok" THEN ghost ELSE Disturbed(ghost)
      /\ UNCHANGED <<cache, criteria, pending, sent, last, held, server>>
    BY DEF Answer, Answered
<1> HIDE DEF y
<1>4. ghost'.marks = ghost.marks
  <2>1. {} \in SUBSET Marks
      OBVIOUS
  <2> QED BY <1>1, <1>3, <2>1, MoreMarks
<1>5. AnswerRight(y, server)
  <2> DEFINE S == Matched(server, x.criteria)
             all == Matching(x.criteria)
  <2> SUFFICES ASSUME status = "ok"
               PROVE  /\ y.total = Cardinality(S)
                      /\ \A k \in 1 .. Len(y.data) : y.data[k] = Nth(S, y.start + k - 1)
      BY <1>2 DEF AnswerRight
  <2>1. /\ Len(all) = Cardinality(S)
        /\ \A n \in 1 .. Len(all) : all[n] = Nth(S, n - 1)
      BY MatchingNth
  <2> HIDE DEF S, all
  <2>2. y.total = Len(all)
        /\ \A k \in 1 .. Len(y.data) : x.start + k \in 1 .. Len(all) /\ y.data[k] = all[x.start + k]
      BY <1>2 DEF all
  <2>3. ASSUME NEW k \in 1 .. Len(y.data) PROVE y.data[k] = Nth(S, y.start + k - 1)
    <3> DEFINE n == x.start + k
    <3>1. n \in 1 .. Len(all) /\ y.data[k] = all[n]
        BY <2>2
    <3> HIDE DEF n
    <3>2. y.data[k] = Nth(S, n - 1)
        BY <2>1, <3>1
    <3>3. y.start + k - 1 = n - 1
      <4>1. x.start \in Nat /\ k \in Nat
          BY <1>1 DEF Requests
      <4> QED BY <1>2, <4>1 DEF n
    <3> QED BY <3>2, <3>3
  <2> QED BY <2>1, <2>2, <2>3
<1>6. ghost.marks \cap Upsets = {} => \A z \in wire' \cup held : AnswerRight(z, server)
    BY <1>3, <1>5 DEF RowsInv, RowsRight
<1> QED BY <1>3, <1>4, <1>6 DEF RowsInv, RowsRight

\* A mark of a wrong order more leaves the rows right.
LEMMA DisorderRight ==
    ASSUME NEW c \in Caches, NEW S \in SUBSET Rows, Right(c, S), LengthIsKnown(c),
           Len(c.rows) = c.total
    PROVE  LET d == Disorder(c)
           IN /\ d \in Caches /\ Right(d, S) /\ (Exact(c) => Exact(d)) /\ LengthIsKnown(d)
              /\ Len(d.rows) = d.total
<1> DEFINE d == Disorder(c)
<1>1. /\ d \in Caches /\ d.rows = c.rows /\ d.total = c.total /\ d.cached = c.cached
      /\ (c.disordered => d.disordered)
      /\ \A i \in Int : At(d, i) = At(c, i)
    BY DisorderFacts
<1> HIDE DEF d
<1>2. Right(d, S) /\ (Exact(c) => Exact(d))
    BY <1>1, SameRows
<1>3. LengthIsKnown(d)
    BY <1>1 DEF LengthIsKnown, HasRows
<1> QED BY <1>1, <1>2, <1>3 DEF d

\* The cache c for criteria `of` after row r, which matched rows[r], matches `new`
Changed(c, rows, of, r, new) ==
    IF new = NoCriteria THEN RemoveCacheData(c, r, rows[r] = of)
    ELSE IF rows[r] = NoCriteria THEN AddCacheData(c, r, new = of)
    ELSE UpdateCacheData(c, r, new = of)

\* A change reported while nothing is under way and the length is known, of a row that is
\* loaded if it matched, which stays in the criteria or is gone, and is not added to a
\* complete cache, leaves the rows right.
LEMMA ChangedRight ==
    ASSUME NEW c \in Caches, NEW rows \in [Rows -> Criteria \cup {NoCriteria}],
           NEW of \in Criteria, Right(c, Matched(rows, of)), LengthIsKnown(c),
           Len(c.rows) <= c.total, NEW r \in Rows, NEW new \in Criteria \cup {NoCriteria},
           rows[r] # NoCriteria \/ new # NoCriteria,
           rows[r] = of => IsCached(c, r) /\ new \in {of, NoCriteria},
           new = of /\ rows[r] # of => ~AllMatchingRowsCached(c)
    PROVE  LET S == Matched([rows EXCEPT ![r] = new], of)
               d == Changed(c, rows, of, r, new)
           IN /\ d \in Caches /\ Right(d, S)
              /\ LengthIsKnown(d) /\ Len(d.rows) = d.total
              /\ (Exact(c) /\ ~(new = of /\ rows[r] \notin {of, NoCriteria}) => Exact(d))
<1> DEFINE old == rows[r]
           S == Matched(rows, of)
           T == Matched([rows EXCEPT ![r] = new], of)
           d == IF new = NoCriteria THEN RemoveCacheData(c, r, old = of)
                ELSE IF old = NoCriteria THEN AddCacheData(c, r, new = of)
                ELSE UpdateCacheData(c, r, new = of)
           joined == new = of /\ old \notin {of, NoCriteria}
<1>1. S \in SUBSET Rows /\ of # NoCriteria /\ HasRows(c)
    BY CriteriaAssumption DEF Matched, LengthIsKnown
<1>2. (r \in S <=> old = of) /\ \A i \in Loaded(c) : At(c, i) \in S
    BY DEF Matched, Right
<1>3. T = IF new = of THEN S \cup {r} ELSE S \ {r}
    BY DEF Matched
<1>4. c.total \in Int /\ c.cached \in Int /\ c.rows \in Seq(RowValues) /\ Len(c.rows) \in Nat
    BY <1>1, CacheFields DEF LengthIsKnown
<1>5. ~(old = of) => ~IsCached(c, r)
    BY <1>2 DEF IsCached
<1> d = Changed(c, rows, of, r, new)
    BY DEF Changed
<1> SUFFICES /\ d \in Caches /\ Right(d, T) /\ LengthIsKnown(d) /\ Len(d.rows) = d.total
             /\ (Exact(c) /\ ~joined => Exact(d))
    BY Zenon
<1> DEFINE k == Lengthened(c, 0)
<1>6. /\ k \in Caches /\ Right(k, S) /\ (Exact(c) => Exact(k)) /\ LengthIsKnown(k)
      /\ Len(k.rows) = k.total
    BY <1>1, KeptRight
<1>7. /\ Disorder(k) \in Caches /\ Right(Disorder(k), S) /\ (Exact(c) => Exact(Disorder(k)))
      /\ LengthIsKnown(Disorder(k)) /\ Len(Disorder(k).rows) = Disorder(k).total
  <2> HIDE DEF k
  <2> QED BY <1>1, <1>6, DisorderRight
<1>8. CASE old = of /\ new = NoCriteria
  <2>1. d = RemoveCacheData(c, r, TRUE) /\ T = S \ {r} /\ r \in S
      BY <1>1, <1>2, <1>3, <1>8
  <2> HIDE DEF d, S, T
  <2> QED BY <1>1, <1>8, <2>1, RemovedRight DEF S
<1>9. CASE old = of /\ new = of
  <2>1. d = Disorder(k) /\ T = S
      BY <1>1, <1>2, <1>3, <1>9 DEF UpdateCacheData
  <2> HIDE DEF d, S, T, k
  <2> QED BY <1>7, <2>1
<1>10. CASE old # of /\ new # of
  <2>1. T = S
      BY <1>2, <1>3, <1>10
  <2>2. CASE new = NoCriteria
    <3>1. d = k
        BY <1>1, <1>5, <1>10, <2>2 DEF RemoveCacheData
    <3> HIDE DEF d, S, T, k
    <3> QED BY <1>6, <2>1, <3>1
  <2>3. CASE new # NoCriteria
    <3>1. d = Disorder(k)
        BY <1>1, <1>5, <1>10, <2>3 DEF AddCacheData, UpdateCacheData
    <3> HIDE DEF d, S, T, k
    <3> QED BY <1>7, <2>1, <3>1
  <2> QED BY <2>2, <2>3
<1>11. CASE old # of /\ new = of
  <2>1. T = S \cup {r} /\ r \notin S /\ ~IsCached(c, r) /\ c.cached # c.total
      BY <1>1, <1>2, <1>3, <1>5, <1>11 DEF AllMatchingRowsCached
  <2>2. CASE old = NoCriteria
    <3> DEFINE p == PlaceToAdd(c)
               n == c.cached + 1
    <3>1. d = Disorder(Lengthened([c EXCEPT !.rows = Inserted(c.rows, p, r), !.cached = n], 1))
        BY <1>1, <1>11, <2>2 DEF AddCacheData
    <3>2. p \in 0 .. Len(c.rows) /\ n \in Int /\ n = c.cached + 1
        BY <1>1, <1>4, PlaceToAddFacts
    <3> DEFINE e == Added(c, p, r, n)
    <3>3. d = e
        BY <3>1 DEF Added
    <3>4. Right(c, S)
        OBVIOUS
    <3> HIDE DEF d, S, T, p, n
    <3>5. /\ e \in Caches /\ Right(e, S \cup {r}) /\ LengthIsKnown(e) /\ Len(e.rows) = e.total
          /\ (Exact(c) /\ n = c.cached + 1 => Exact(e))
        BY <1>1, <2>1, <3>2, <3>4, InsertedRight
    <3> HIDE DEF e
    <3> QED BY <2>1, <3>2, <3>3, <3>5
  <2>3. CASE old # NoCriteria
    <3> DEFINE p == Len(c.rows)
               n == c.cached
               a == [c EXCEPT !.rows = Inserted(c.rows, p, r), !.cached = n]
    <3>1. d = Disorder(Lengthened([c EXCEPT !.rows = Append(c.rows, r)], 1))
        BY <1>1, <1>11, <2>1, <2>3 DEF UpdateCacheData
    <3>2. p \in 0 .. Len(c.rows) /\ n \in Int /\ n = c.cached /\ r \in RowValues
        BY <1>4 DEF RowValues
    <3>3. Append(c.rows, r) = Inserted(c.rows, p, r)
        BY <1>4, <3>2, AppendIsInserted
    <3>4. [c EXCEPT !.rows = Append(c.rows, r)] = a
        BY <3>3 DEF Caches
    <3>5. d = Disorder(Lengthened(a, 1))
        BY <3>1, <3>4
    <3>6. joined
        BY <1>11, <2>3
    <3>7. Right(c, S)
        OBVIOUS
    <3> HIDE DEF d, S, T, p, n, joined
    <3> DEFINE e == Added(c, p, r, n)
    <3>8. /\ e \in Caches /\ Right(e, S \cup {r}) /\ LengthIsKnown(e) /\ Len(e.rows) = e.total
        BY <1>1, <2>1, <3>2, <3>7, InsertedRight
    <3> HIDE DEF e, a
    <3>9. d = e
        BY <3>5 DEF e, a, Added
    <3> QED BY <2>1, <3>6, <3>8, <3>9
  <2> QED BY <2>2, <2>3
<1> QED BY <1>8, <1>9, <1>10, <1>11

\* A change reported while nothing is under way is followed.
LEMMA ChangeRows ==
    ASSUME Inv, RowsInv, NEW r \in Rows, NEW new \in Criteria \cup {NoCriteria}, Change(r, new)
    PROVE  RowsInv'
<1> DEFINE old == server[r]
           m == MarksOf(r, old, new)
           d == Changed(cache, server, criteria, r, new)
           S == Matched(server, criteria)
           T == Matched([server EXCEPT ![r] = new], criteria)
<1>1. /\ cache \in Caches /\ criteria \in Criteria /\ ghost \in Ghosts
      /\ server \in [Rows -> Criteria \cup {NoCriteria}]
      /\ last \in Nat /\ sent \in Nat /\ last <= sent
    BY DEF Inv, Typed, RepliesInv
<1>2. /\ server' = [server EXCEPT ![r] = new] /\ cache' = d
      /\ ghost' = Disturbed(Happened(ghost, m))
      /\ old # NoCriteria \/ new # NoCriteria
      /\ UNCHANGED <<criteria, pending, sent, last, held, wire>>
    BY DEF Change, Changed
<1>3. /\ m \in SUBSET Marks
      /\ "late" \in m <=> last < sent
      /\ "early" \in m <=> ~LengthIsKnown(cache)
      /\ "unseen" \in m <=> old = criteria /\ ~IsCached(cache, r)
      /\ "dropped" \in m <=> old = criteria /\ new \notin {criteria, NoCriteria}
      /\ "joined" \in m <=> new = criteria /\ old \notin {criteria, NoCriteria}
      /\ "appended" \in m <=> new = criteria /\ old # criteria /\ AllMatchingRowsCached(cache)
    BY MarksOfFacts
<1> HIDE DEF m
<1>4. ghost'.marks = ghost.marks \cup m
  <2>1. Happened(ghost, m) \in Ghosts /\ Happened(ghost, m).marks = ghost.marks \cup m
      BY <1>1, <1>3, MoreMarks
  <2>2. Disturbed(Happened(ghost, m)).marks = Happened(ghost, m).marks
      BY <1>3, <2>1, MoreMarks
  <2> QED BY <1>2, <2>1, <2>2
<1> SUFFICES ASSUME (ghost.marks \cup m) \cap Upsets = {}
             PROVE  /\ Right(d, T)
                    /\ \A x \in wire \cup held : AnswerRight(x, server')
                    /\ ~(last < sent)
                    /\ LengthIsKnown(d) => Len(d.rows) <= d.total
                    /\ "joined" \notin ghost.marks \cup m => Exact(d)
  <2> HIDE DEF d
  <2> QED BY <1>2, <1>4 DEF RowsInv, RowsRight
<1>5. ghost.marks \cap Upsets = {}
      /\ \A u \in {"late", "early", "unseen", "dropped", "appended"} : u \notin m
    BY DEF Upsets
<1>6. ~(last < sent) /\ last = sent
    BY <1>1, <1>3, <1>5
<1>7. wire \cup held = {}
    BY <1>6, QuietIsQuiet DEF IsQuiet, Outstanding
<1>8. LengthIsKnown(cache)
    BY <1>3, <1>5
<1>9. /\ Right(cache, S) /\ Len(cache.rows) <= cache.total
      /\ "joined" \notin ghost.marks => Exact(cache)
    BY <1>5, <1>6, <1>8 DEF RowsInv, RowsRight
<1>10. /\ old = criteria => IsCached(cache, r) /\ new \in {criteria, NoCriteria}
       /\ new = criteria /\ old # criteria => ~AllMatchingRowsCached(cache)
    BY <1>3, <1>5
<1>11. /\ d \in Caches /\ Right(d, T) /\ LengthIsKnown(d) /\ Len(d.rows) = d.total
       /\ (Exact(cache) /\ ~(new = criteria /\ old \notin {criteria, NoCriteria}) => Exact(d))
    BY <1>1, <1>2, <1>8, <1>9, <1>10, ChangedRight
<1> HIDE DEF d, T, S, old
<1>12. "joined" \notin ghost.marks \cup m => Exact(d)
    BY <1>3, <1>9, <1>11
<1>13. LengthIsKnown(d) => Len(d.rows) <= d.total
    BY <1>11, CacheFields
<1> QED BY <1>6, <1>7, <1>11, <1>12, <1>13

\* Every step of the ResultSet leaves the rows right.
LEMMA NextRows == Inv /\ RowsInv /\ [Next]_vars => RowsInv'
<1> SUFFICES ASSUME Inv, RowsInv, [Next]_vars PROVE RowsInv'
    OBVIOUS
<1>1. ASSUME NEW start \in 0 .. Cardinality(Rows) - 1, NEW n \in 1 .. PageSize,
             GetRange(start, start + n)
      PROVE  RowsInv'
    BY <1>1, GetRangeRows
<1>2. CASE Fetch
    BY <1>2, FetchRows
<1>3. ASSUME NEW c \in Criteria, SetCriteria(c) PROVE RowsInv'
    BY <1>3, SetCriteriaRows
<1>4. ASSUME NEW x \in wire, NEW status \in {"ok", "error", "bad"}, Answer(x, status)
      PROVE  RowsInv'
    BY <1>4, AnswerRows
<1>5. ASSUME NEW x \in wire, Reply(x) PROVE RowsInv'
    BY <1>5, ReplyRows
<1>6. ASSUME NEW r \in Rows, NEW new \in Criteria \cup {NoCriteria}, Change(r, new)
      PROVE  RowsInv'
    BY <1>6, ChangeRows
<1>7. CASE UNCHANGED vars
    BY <1>7 DEF vars, RowsInv
<1> QED BY <1>1, <1>2, <1>3, <1>4, <1>5, <1>6, <1>7 DEF Next

\* The cache of the ResultSet is right through all that is reported and replied, until one
\* of the upsets happens.
THEOREM RowsHold == Spec => []RowsInv
<1> QED BY InitInv, NextInv, InitRows, NextRows, PTL DEF Spec

\* Types of the ResultSet's state, and the range that waits for the fetch delay is one.
THEOREM TypeCorrect == Spec => []TypeOK
<1>1. Inv => TypeOK
  <2> SUFFICES ASSUME Inv PROVE TypeOK
      OBVIOUS
  <2>1. Typed /\ last <= sent /\ sent <= MaxEvents
      BY DEF Inv, RepliesInv
  <2>2. cache \in Caches
      BY <2>1 DEF Typed
  <2>3. cache.rows = Unknown \/ \A i \in DOMAIN cache.rows : cache.rows[i] \in Rows \cup {Empty, Loading}
      BY <2>2, CacheFields DEF HasRows, RowValues
  <2>4. /\ cache.total \in Int \cup {Unknown} /\ cache.cached \in Int
        /\ cache.disordered \in BOOLEAN /\ cache.start \in Nat
      BY <2>2, CacheFields
  <2>5. pending = Unknown \/ (0 <= pending[1] /\ pending[1] < pending[2])
      BY <2>1 DEF Typed, Ranges
  <2>6. sent \in 0 .. MaxEvents /\ last \in 0 .. sent
      BY <2>1, Numbers DEF Typed
  <2>7. ghost.marks \subseteq Marks
      BY <2>1 DEF Typed, Ghosts
  <2>8. criteria \in Criteria /\ (\A x \in held : x.status # "asked")
        /\ \A r \in Rows : server[r] \in Criteria \cup {NoCriteria}
      BY <2>1 DEF Typed
  <2> QED BY <2>3, <2>4, <2>5, <2>6, <2>7, <2>8 DEF TypeOK
<1> QED BY <1>1, InvHolds, PTL

\* cachedRows, on which allMatchingRowsCached rests, is the number of rows loaded.
THEOREM CountHolds == Spec => []CountIsExact
<1>1. RowsInv /\ TypeOK => CountIsExact
  <2> SUFFICES ASSUME RowsInv, TypeOK, Calm, Without({"joined"}), HasRows(cache)
               PROVE  cache.cached = Cardinality(Loaded(cache))
      BY DEF CountIsExact
  <2>1. ghost.marks \cap Upsets = {} /\ "joined" \notin ghost.marks
      BY DEF Calm, Without, Upsets
  <2> QED BY <2>1 DEF RowsInv, RowsRight, Exact
<1> QED BY <1>1, RowsHold, TypeCorrect, PTL

\* The ResultSet follows the server: its length is the server's once nothing is under way,
\* each row it shows is at the server's place unless the cache is marked as out of order,
\* and none is shown twice or of other criteria.
THEOREM ServerFollowed == Spec => []FollowsServer
<1>1. Inv /\ RowsInv => FollowsServer
  <2> SUFFICES ASSUME Inv, RowsInv, Calm PROVE FollowsServer
      BY DEF FollowsServer, TotalIsServers, RowsInPlace, RowsBelong
  <2> DEFINE S == Matched(server, criteria)
             all == Matching(criteria)
  <2>1. Right(cache, S)
    <3>1. ghost.marks \cap Upsets = {}
        BY DEF Calm, Without, Upsets
    <3> QED BY <3>1 DEF RowsInv, RowsRight
  <2>2. /\ Len(all) = Cardinality(S) /\ Len(all) \in Nat
        /\ \A n \in 1 .. Len(all) : all[n] = Nth(S, n - 1)
      BY MatchingNth
  <2>3. cache \in Caches /\ Loaded(cache) \subseteq Nat
      BY AtFacts DEF Inv, Typed
  <2>4. \A i \in Loaded(cache) : server[At(cache, i)] = criteria
      BY <2>1 DEF Right, Matched
  <2> HIDE DEF S, all
  <2>5. TotalIsServers
      BY <2>1, <2>2 DEF TotalIsServers, Right, LengthIsKnown, all
  <2>6. RowsInPlace
    <3> SUFFICES ASSUME ~cache.disordered, NEW i \in Loaded(cache)
                 PROVE  i < Len(all) /\ At(cache, i) = all[i + 1]
        BY DEF RowsInPlace, all
    <3>1. i < Len(all) /\ At(cache, i) = Nth(S, i) /\ i \in Nat
        BY <2>1, <2>2, <2>3 DEF Right
    <3> DEFINE n == i + 1
    <3>2. n \in 1 .. Len(all) /\ n - 1 = i
        BY <2>2, <3>1
    <3> HIDE DEF n
    <3>3. all[n] = Nth(S, i)
        BY <2>2, <3>2
    <3> QED BY <3>1, <3>3 DEF n
  <2>7. RowsBelong
      BY <2>1, <2>4 DEF RowsBelong, Right
  <2> QED BY <2>5, <2>6, <2>7 DEF FollowsServer
<1> QED BY <1>1, InvHolds, RowsHold, PTL

================================================================================
