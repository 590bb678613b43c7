--------------------------------- MODULE ResultSet ---------------------------------
(*******************************************************************************)
(* The paged ResultSet of the web runtime: the cache of the rows that match the   *)
(* criteria of a grid, filled by ranges that are fetched when they are asked for, *)
(* whose replies may come in any order, and updated in place when the data source *)
(* reports a change.                                                            *)
(*                                                                             *)
(* The server keeps its rows in one order, and each matches one of the criteria at *)
(* most; no criteria is empty or narrows another one, so the rows of all of them   *)
(* are never known at once. A fetch is answered at one time and its reply arrives  *)
(* later; a change at the server and the report of it, with the whole row, are one *)
(* step. Positions count from 0, as in the code: position i is rows[i + 1].        *)
(*******************************************************************************)
EXTENDS Integers, FiniteSets, SequencesExt

CONSTANTS Rows,          \* the rows, numbers in the server's order
          Criteria,
          NoCriteria,    \* of a row that is not there
          Empty, Loading, \* a row that was not asked for; Array.LOADING
          Unknown,       \* no length, no range, no cache
          PageSize,      \* resultSize
          UnknownLength, \* ResultSet.UNKNOWN_LENGTH
          Servers,       \* what the server may hold at first: the criteria of each row
          MaxEvents      \* bound: requests for rows and disturbances of them, which are
                         \* changes at the server, other criteria, invalidations and
                         \* answers that are no rows

ASSUME RowsAssumption == Rows \subseteq Nat /\ Rows \cap {Empty, Loading} = {} /\ Empty # Loading
ASSUME CriteriaAssumption ==
    NoCriteria \notin Criteria /\ Servers \subseteq [Rows -> Criteria \cup {NoCriteria}]
ASSUME NumbersAssumption ==
    /\ {PageSize, UnknownLength, MaxEvents} \subseteq Nat
    /\ IsFiniteSet(Rows) /\ Cardinality(Rows) + PageSize <= UnknownLength
\* null is no number, no range and no array
ASSUME UnknownAssumption ==
    Unknown \notin Int \cup (Nat \X Nat) \cup Seq(Rows \cup {Empty, Loading})

VARIABLES cache,    \* localData, totalRows, cachedRows, the mark of a wrong order and
                    \* the start of the last range asked for
          criteria,
          pending,  \* the range that waits for the fetch delay
          sent,     \* the number of the last request
          last,     \* the number of the last reply processed
          held,     \* the replies that came too early
          wire,     \* the requests under way, with the server's answer once there is one
          server,   \* the criteria that each row matches
          ghost     \* not of the code: what happened so far

vars == <<cache, criteria, pending, sent, last, held, wire, server, ghost>>

\* What can have happened: a reply for earlier criteria was taken in, an error was, a
\* reply without rows was; a change was reported while rows were on their way, while no
\* length was known, or of a row that is not loaded; an update moved a row out of the
\* criteria or into them; a row was added to a complete cache.
Marks == {"mixed", "failed", "bad", "late", "early", "unseen", "dropped", "joined", "appended"}

Happened(g, marks) == [g EXCEPT !.marks = @ \cup marks]
Disturbed(g) == [g EXCEPT !.disturbed = @ + 1]
InBounds == sent + ghost.disturbed < MaxEvents

--------------------------------------------------------------------------------
\* What the server would answer to a fetch of all rows: those that match, in its order
Matching(c) ==
    LET matching == {r \in Rows : server[r] = c}
    IN [i \in 1 .. Cardinality(matching) |->
          CHOOSE r \in matching : Cardinality({q \in matching : q < r}) = i - 1]

NoRows(c) == [c EXCEPT !.rows = Unknown, !.cached = 0, !.disordered = FALSE]
Least(a, b) == IF a < b THEN a ELSE b
Most(a, b) == IF a < b THEN b ELSE a

IsRow(x) == x \notin {Empty, Loading}
HasRows(c) == c.rows # Unknown
LengthIsKnown(c) == HasRows(c) /\ c.total # Unknown
Length(c) == IF LengthIsKnown(c) THEN c.total ELSE UnknownLength
AllMatchingRowsCached(c) == HasRows(c) /\ c.cached = c.total

\* localData[i] of the code, which is null past the end
At(c, i) == IF HasRows(c) /\ i \in 0 .. Len(c.rows) - 1 THEN c.rows[i + 1] ELSE Empty
Loaded(c) == IF HasRows(c) THEN {i \in 0 .. Len(c.rows) - 1 : IsRow(c.rows[i + 1])} ELSE {}

\* slice(0, n) of more than n rows, which counts a negative n from the end, or length = n
Resized(rows, n) ==
    IF n < 0 THEN SubSeq(rows, 1, Len(rows) + n)
    ELSE [i \in 1 .. n |-> IF i <= Len(rows) THEN rows[i] ELSE Empty]

\* Mutant: the rows past the new length stay
SetFullLengthOnly(c, n) == [c EXCEPT !.total = n, !.cached = Least(@, n)]

\* setFullLength; it ignores what is not a number
SetFullLength(c, n) ==
    [c EXCEPT !.total = n,
              !.rows = IF @ = Unknown THEN @ ELSE Resized(@, n),
              !.cached = Least(@, n)]

\* setFullLength(totalRows + d), where an unknown total, null, counts as 0
Lengthened(c, d) == SetFullLength(c, (IF c.total = Unknown THEN 0 ELSE c.total) + d)

\* Mutant: rows that were loaded before are counted again
FillCacheAgain(c, data, start) ==
    LET end == start + Len(data)
    IN [c EXCEPT
          !.cached = @ + Len(data),
          !.rows = [i \in 1 .. (IF data = <<>> THEN Len(@) ELSE Most(Len(@), end)) |->
                      IF start < i /\ i <= end THEN data[i - start] ELSE At(c, i - 1)]]

\* fillCacheData: the rows `data` from position `start`
FillCacheData(c, data, start) ==
    LET end == start + Len(data)
        new == {i \in start .. end - 1 : ~IsRow(At(c, i))}
    IN [c EXCEPT
          !.cached = @ + Cardinality(new),
          !.rows = [i \in 1 .. (IF data = <<>> THEN Len(@) ELSE Most(Len(@), end)) |->
                      IF start < i /\ i <= end THEN data[i - start] ELSE At(c, i - 1)]]

SetRangeLoading(c, start, end) ==
    LET rows == IF HasRows(c) THEN c.rows ELSE <<>>
    IN [c EXCEPT !.rows = [i \in 1 .. Most(Len(rows), end) |->
                             IF start < i /\ i <= end /\ At(c, i - 1) = Empty
                             THEN Loading ELSE At(c, i - 1)]]

--------------------------------------------------------------------------------
\* init: the criteria are set, which forgets the length, and the cache is empty
Init ==
    /\ cache = [rows |-> <<>>, total |-> Unknown, cached |-> 0, disordered |-> FALSE,
                start |-> 0]
    /\ criteria \in Criteria
    /\ pending = Unknown
    /\ sent = 0 /\ last = 0
    /\ held = {} /\ wire = {}
    /\ server \in Servers
    /\ ghost = [disturbed |-> 0, marks |-> {}]

--------------------------------------------------------------------------------
(* Asking for rows *)

\* _addFetchAhead for the missing rows first .. final of start .. end - 1: the range
\* grows to a page around them and is then pulled to the side of the rows not loaded.
FetchAhead(c, start, end, first, final) ==
    LET missing(i) == ~IsRow(At(c, i))
        margin == (PageSize - (final - first)) \div 2
        low == Most(0, first - Least(first, margin))
        high == Least(Length(c), final + margin)
        \* the first not loaded from a up to b, the last from a down to b
        Up(a, b) == IF \E i \in a .. b : missing(i)
                    THEN CHOOSE i \in a .. b : missing(i) /\ \A j \in a .. i - 1 : ~missing(j)
                    ELSE b + 1
        Down(a, b) == IF \E i \in b .. a : missing(i)
                      THEN CHOOSE i \in b .. a : missing(i) /\ \A j \in i + 1 .. a : ~missing(j)
                      ELSE b - 1
        f == Up(low, first)
        l == Down(high, final)
        range == IF f = 0 \/ (f > low /\ l = high)
                 THEN <<f, Most(f + PageSize, end)>>
                 ELSE IF f = low /\ l < high
                 THEN <<Least((l + 1) - Least(l + 1, PageSize), start), l + 1>>
                 ELSE <<Least(low, start), Most(high, end)>>
        from == IF range[1] < low THEN Up(range[1], low - 1) ELSE range[1]
        to == IF range[2] - 1 > high THEN Down(range[2] - 1, high + 1) + 1 ELSE range[2]
    IN <<from, to>>

\* getRange of a paged set: what is missing waits for the fetch delay, and replaces
\* what was waiting.
GetRange(start, stop) ==
    LET end == IF LengthIsKnown(cache) THEN Least(stop, cache.total) ELSE stop
        missing == {i \in start .. end - 1 : At(cache, i) = Empty}
        first == CHOOSE i \in missing : \A j \in missing : i <= j
        final == CHOOSE i \in missing : \A j \in missing : j <= i
    IN /\ start < stop /\ stop <= start + PageSize
       /\ LengthIsKnown(cache) => start < cache.total \/ start = 0
       /\ cache' = [cache EXCEPT !.rows = IF @ = Unknown THEN <<>> ELSE @, !.start = start]
       /\ pending' = IF missing = {} THEN pending
                     ELSE FetchAhead(cache, start, end, first, final)
       /\ UNCHANGED <<criteria, sent, last, held, wire, server, ghost>>

\* _fetchRemoteData and fetchRemoteData. A cache in the wrong order is dropped, and
\* with it the marks of the rows just asked for.
Fetch ==
    /\ pending # Unknown /\ InBounds
    /\ LET marked == SetRangeLoading(cache, pending[1], pending[2])
       IN cache' = IF marked.disordered THEN NoRows(marked) ELSE marked
    /\ pending' = Unknown
    /\ sent' = sent + 1
    /\ wire' = wire \cup {[index |-> sent + 1, start |-> pending[1], end |-> pending[2],
                          criteria |-> criteria, status |-> "asked",
                          data |-> <<>>, total |-> Unknown]}
    /\ UNCHANGED <<criteria, last, held, server, ghost>>

\* setCriteria, when the criteria are other ones, and invalidateCache
SetCriteria(c) ==
    /\ InBounds
    /\ criteria' = c
    /\ cache' = [NoRows(cache) EXCEPT !.total = Unknown]
    /\ ghost' = Disturbed(ghost)
    /\ UNCHANGED <<pending, sent, last, held, wire, server>>

--------------------------------------------------------------------------------
(* The server *)

\* The rows of the range and the length of all, an error, or what is not a list
Answer(x, status) ==
    LET all == Matching(x.criteria)
        end == Least(x.end, Len(all))
    IN /\ x.status = "asked"
       /\ status # "ok" => InBounds
       /\ wire' = (wire \ {x}) \cup {IF status = "ok"
             THEN [x EXCEPT !.status = "ok", !.total = Len(all),
                     !.data = IF x.start < end THEN SubSeq(all, x.start + 1, end) ELSE <<>>]
             ELSE [x EXCEPT !.status = status]}
       /\ ghost' = IF status = "ok" THEN ghost ELSE Disturbed(ghost)
       /\ UNCHANGED <<cache, criteria, pending, sent, last, held, server>>

--------------------------------------------------------------------------------
(* Replies *)

\* _handleNewData. Without rows and a total, as after an error, the range asked for
\* is taken to start at the end of the data.
HandleNewData(c, x) ==
    LET total == IF x.status = "error" THEN x.start ELSE x.total
        filled == FillCacheData(
                    SetFullLength([c EXCEPT !.rows = IF @ = Unknown THEN <<>> ELSE @], total),
                    x.data, x.start)
        after == x.start + Len(x.data)
        \* the marks that follow, up to the first row that is not one
        IsLeft(i) == i >= after /\ i < total /\ \A j \in after .. i : At(filled, j) = Loading
    IN [filled EXCEPT !.rows = [i \in DOMAIN @ |-> IF IsLeft(i - 1) THEN Empty ELSE @[i]]]

\* The reply whose turn it is
InTurn(s) == {x \in s.held : x.index = s.last + 1}

\* fetchRemoteDataReply for it, if it is there; what is not a list is ignored.
Processed(s) ==
    IF InTurn(s) = {} THEN s
    ELSE LET x == CHOOSE x \in InTurn(s) : TRUE
             marks == (IF x.criteria # criteria THEN {"mixed"} ELSE {})
                        \cup (IF x.status = "error" THEN {"failed"} ELSE {})
         IN IF x.status = "bad"
            THEN [s EXCEPT !.held = @ \ {x}, !.ghost = Happened(@, {"bad"})]
            ELSE [cache |-> HandleNewData(s.cache, x), last |-> x.index,
                  held |-> s.held \ {x}, ghost |-> Happened(s.ghost, marks)]

Arrived(x) == [cache |-> cache, last |-> last, held |-> held \cup {x}, ghost |-> ghost]

\* Mutant: the replies that were held stay there
ReplyAlone(x) ==
    /\ x.status # "asked"
    /\ wire' = wire \ {x}
    /\ LET s == Processed(Arrived(x))
       IN cache' = s.cache /\ last' = s.last /\ held' = s.held /\ ghost' = s.ghost
    /\ UNCHANGED <<criteria, pending, sent, server>>

\* After a reply whose turn it was fetchRemoteDataReply calls itself for the held one that
\* follows, no more often than requests were sent.
Settled(first) ==
    LET after[n \in 0 .. sent] == IF n = 0 THEN first ELSE Processed(after[n - 1])
    IN after[sent]

\* fetchRemoteDataReply: a reply out of sequence is held.
Reply(x) ==
    /\ x.status # "asked"
    /\ wire' = wire \ {x}
    /\ LET s == Settled(Arrived(x))
       IN cache' = s.cache /\ last' = s.last /\ held' = s.held /\ ghost' = s.ghost
    /\ UNCHANGED <<criteria, pending, sent, server>>

--------------------------------------------------------------------------------
(* Changes that the data source reports *)

Removed(rows, i) == RemoveAt(rows, i + 1)
Inserted(rows, i, r) == InsertAt(rows, i + 1, r)

\* findByKeys
IsCached(c, r) == \E i \in Loaded(c) : At(c, i) = r
PositionOf(c, r) == CHOOSE i \in Loaded(c) : At(c, i) = r

\* removeCacheData. Without localData findByKeys throws, and nothing is done.
RemoveCacheData(c, r, matches) ==
    IF ~HasRows(c) THEN c
    ELSE IF IsCached(c, r)
    THEN Lengthened([c EXCEPT !.rows = Removed(@, PositionOf(c, r)), !.cached = @ - 1], -1)
    ELSE Lengthened(c, IF matches /\ ~AllMatchingRowsCached(c) THEN -1 ELSE 0)

\* Mutant: the order is taken to be right
Ordered(c) == c

\* invalidateRowOrder, after an add or an update of a cache that is not complete
Disorder(c) == IF AllMatchingRowsCached(c) THEN c ELSE [c EXCEPT !.disordered = TRUE]

\* The end of the rows loaded around position i
LastCached(c, i) == CHOOSE j \in Loaded(c) : j >= i /\ i .. j \subseteq Loaded(c)
                                             /\ (j + 1 \notin Loaded(c) \/ j + 1 = Length(c))

\* Where addCacheData puts a row: after the rows loaded around the last range asked
\* for, unless they are in the middle and the first row is loaded, or at the end
PlaceToAdd(c) ==
    IF AllMatchingRowsCached(c) \/ c.start \notin Loaded(c) THEN Len(c.rows)
    ELSE IF LastCached(c, c.start) = Length(c) - 1 \/ 0 \notin Loaded(c)
    THEN LastCached(c, c.start) + 1
    ELSE 0

\* addCacheData
AddCacheData(c, r, matches) ==
    IF ~HasRows(c) THEN Disorder(c)
    ELSE IF matches
    THEN Disorder(Lengthened([c EXCEPT !.rows = Inserted(@, PlaceToAdd(c), r),
                                       !.cached = @ + 1], 1))
    ELSE Disorder(Lengthened(c, 0))

\* updateCacheData. A row that is not cached is taken for a new one, and neither it nor
\* a row that is dropped is counted in cachedRows.
UpdateCacheData(c, r, matches) ==
    IF ~HasRows(c) THEN c
    ELSE IF IsCached(c, r)
    THEN IF matches THEN Disorder(Lengthened(c, 0))
         ELSE Disorder(Lengthened([c EXCEPT !.rows = Removed(@, PositionOf(c, r))], -1))
    ELSE IF matches THEN Disorder(Lengthened([c EXCEPT !.rows = Append(@, r)], 1))
    ELSE Disorder(Lengthened(c, 0))

\* What the report of a change of row r, from criteria `old` to `new`, means here
MarksOf(r, old, new) ==
    LET cached == IsCached(cache, r)
    IN {m \in {"late", "early", "unseen", "dropped", "joined", "appended"} :
          CASE m = "late" -> last < sent
            [] m = "early" -> ~LengthIsKnown(cache)
            [] m = "unseen" -> old = criteria /\ ~cached
            [] m = "dropped" -> old = criteria /\ new \notin {criteria, NoCriteria}
            [] m = "joined" -> new = criteria /\ old \notin {criteria, NoCriteria}
            [] m = "appended" -> new = criteria /\ old # criteria
                                 /\ AllMatchingRowsCached(cache)}

\* handleUpdate and updateCache, for a row that now matches `new`
Change(r, new) ==
    /\ InBounds
    /\ server[r] # NoCriteria \/ new # NoCriteria
    /\ server' = [server EXCEPT ![r] = new]
    /\ cache' = IF new = NoCriteria THEN RemoveCacheData(cache, r, server[r] = criteria)
                ELSE IF server[r] = NoCriteria THEN AddCacheData(cache, r, new = criteria)
                ELSE UpdateCacheData(cache, r, new = criteria)
    /\ ghost' = Disturbed(Happened(ghost, MarksOf(r, server[r], new)))
    /\ UNCHANGED <<criteria, pending, sent, last, held, wire>>

--------------------------------------------------------------------------------
Next ==
    \/ \E start \in 0 .. Cardinality(Rows) - 1, n \in 1 .. PageSize : GetRange(start, start + n)
    \/ Fetch
    \/ \E c \in Criteria : SetCriteria(c)
    \/ \E x \in wire, status \in {"ok", "error", "bad"} : Answer(x, status)
    \/ \E x \in wire : Reply(x)
    \/ \E r \in Rows, new \in Criteria \cup {NoCriteria} : Change(r, new)

Spec == Init /\ [][Next]_vars

--------------------------------------------------------------------------------
(* What has to hold *)

Outstanding == wire \cup held
Without(marks) == ghost.marks \cap marks = {}
IsQuiet == last = sent

\* Types, and the range that waits is one
TypeOK ==
    /\ cache.rows = Unknown \/ \A i \in DOMAIN cache.rows : cache.rows[i] \in Rows \cup {Empty, Loading}
    /\ cache.total \in Int \cup {Unknown}
    /\ cache.cached \in Int
    /\ cache.disordered \in BOOLEAN /\ cache.start \in Nat
    /\ criteria \in Criteria
    /\ pending = Unknown \/ (0 <= pending[1] /\ pending[1] < pending[2])
    /\ sent \in 0 .. MaxEvents /\ last \in 0 .. sent
    /\ \A x \in held : x.status # "asked"
    /\ \A r \in Rows : server[r] \in Criteria \cup {NoCriteria}
    /\ ghost.marks \subseteq Marks

\* A reply is held back only for an earlier one that is still under way: nothing that
\* arrived is left lying, unless a reply was not a list, which stops them all
\* (fetchRemoteDataReply).
NoReplyStuck ==
    Without({"bad"}) =>
        \A x \in held : x.index > last + 1 /\ \E y \in wire : y.index = last + 1

\* A row shown as loading is really asked for, by a request that was not answered yet.
\* A change reported while it is under way moves the mark away from the range.
LoadingIsComing ==
    Without({"late", "bad"}) =>
        \A i \in 0 .. UnknownLength : At(cache, i) = Loading =>
            \E x \in Outstanding : x.start <= i /\ i < x.end

\* No reply was for earlier criteria or an error, and each change came when nothing was
\* under way and the length known, of a row that is loaded if it matched, without moving
\* it out of the criteria and without adding one to a complete cache.
Calm == Without({"mixed", "failed", "late", "early", "unseen", "dropped", "appended"})

\* cachedRows, on which the decision rests that the cache is complete, is the number of
\* rows loaded, and the range that waits is one. The number goes wrong when a shorter
\* length cuts rows that were loaded, and with an update that adds or drops one. A row
\* appended to a complete cache is not in its place: it can be loaded once more, and what
\* is left of it when it is gone is removed uncounted.
CountIsExact ==
    /\ TypeOK
    /\ Calm /\ Without({"joined"}) /\ HasRows(cache) =>
         cache.cached = Cardinality(Loaded(cache))

\* Once nothing is under way the length is the server's.
TotalIsServers ==
    Calm /\ IsQuiet /\ LengthIsKnown(cache) => cache.total = Len(Matching(criteria))

\* Each row loaded is at its position in the server's list, unless the cache is marked as
\* out of order.
RowsInPlace ==
    Calm /\ ~cache.disordered =>
        \A i \in Loaded(cache) : /\ i < Len(Matching(criteria))
                               /\ At(cache, i) = Matching(criteria)[i + 1]

\* No row is shown twice and none that does not match.
RowsBelong ==
    Calm => /\ \A i \in Loaded(cache) : server[At(cache, i)] = criteria
            /\ \A i, j \in Loaded(cache) : At(cache, i) = At(cache, j) => i = j

\* Through all changes reported (handleUpdate), and whatever the order in which the
\* replies came, the cache shows the server's rows: their number, their places, and none
\* twice or of other criteria.
FollowsServer == TotalIsServers /\ RowsInPlace /\ RowsBelong

================================================================================
