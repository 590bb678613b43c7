------------------------------ MODULE PageHistoryProofs ------------------------------
(*******************************************************************************)
(* Proofs about PageHistory, for every set of ids and however often the user goes   *)
(* back and forth. The stack of the code and the browser's entries are compared     *)
(* place by place: Aligned says so, and Distinct makes the place of an id the only  *)
(* one, on which the search in the stack relies.                                 *)
(*******************************************************************************)
EXTENDS PageHistory, WellFoundedInduction, TLAPS

\* A bounded set of numbers that is not empty has a greatest one.
LEMMA BoundedMax ==
    ASSUME NEW b \in Nat, NEW S, S \subseteq 1..b, S # {}
    PROVE  \E i \in S : \A j \in S : j <= i
<1> DEFINE R == OpToRel(<, Nat)
           T == {b - i : i \in S}
<1>1. \A m, n \in Nat : n < m => <<n, m>> \in R
    BY DEF OpToRel
<1>2. \A i \in S : i \in 1..b /\ b - i \in Nat
  <2>1. \A i \in 1..b : b - i \in Nat
      OBVIOUS
  <2> QED
      BY <2>1
<1>3. PICK x \in T : \A y \in T : <<y, x>> \notin R
  <2>1. T \subseteq Nat /\ T # {}
      BY <1>2
  <2> HIDE DEF T, R
  <2> QED
      BY <2>1, NatLessThanWellFounded, WFMin DEF R
<1> HIDE DEF R
<1>4. PICK i \in S : x = b - i
    OBVIOUS
<1>5. ASSUME NEW j \in S PROVE j <= i
  <2>1. ~(b - j < b - i)
      BY <1>1, <1>2, <1>3, <1>4
  <2> QED
      BY <1>2, <2>1
<1> QED
    BY <1>5

EntriesOK ==
    /\ entries = [list |-> entries.list, at |-> entries.at]
    /\ entries.list \in Seq(AnyId)
    /\ entries.at \in 1 .. Len(entries.list)

RecordsOK ==
    /\ page = [loaded |-> page.loaded, callback |-> page.callback, seen |-> page.seen,
               told |-> page.told, active |-> page.active]
    /\ page.active \in BOOLEAN /\ page.loaded \in BOOLEAN
    /\ state = [stack |-> state.stack, data |-> state.data]
    /\ app = [shows |-> app.shows, latest |-> app.latest]
    /\ ghost = [calls |-> ghost.calls, visits |-> ghost.visits, moved |-> ghost.moved,
                marks |-> ghost.marks]

\* No id comes twice
Distinct ==
    ghost.marks = {} =>
        \A i, j \in 1 .. Len(entries.list) : entries.list[i] = entries.list[j] => i = j

\* The stack is the list without its first place, and its ids have their data
Aligned ==
    ghost.marks = {} =>
        /\ state.stack \in Seq(AnyId)
        /\ Len(entries.list) = Len(state.stack) + 1
        /\ \A i \in 1 .. Len(state.stack) : /\ state.stack[i] = entries.list[i + 1]
                                            /\ state.stack[i] \in DOMAIN state.data
        /\ \A x \in DOMAIN state.data : \E i \in 1 .. Len(entries.list) : x = entries.list[i]

IInv ==
    /\ EntriesOK /\ RecordsOK
    /\ Distinct /\ Aligned
    /\ SavedIsLatest
    /\ AppFollows
    /\ OwnStatesSilent

--------------------------------------------------------------------------------
\* A sequence cut off and one longer: what a visit makes of the entries, and a new state
\* of the stack.
LEMMA CutAndAppended ==
    ASSUME NEW S, NEW s \in Seq(S), NEW n \in 0 .. Len(s), NEW x \in S, NEW t,
           t = Append(SubSeq(s, 1, n), x)
    PROVE  /\ t \in Seq(S) /\ Len(t) = n + 1
           /\ \A i \in 1 .. n : t[i] = s[i]
           /\ t[n + 1] = x
<1>1. SubSeq(s, 1, n) \in Seq(S) /\ Len(SubSeq(s, 1, n)) = n
    OBVIOUS
<1>2. \A i \in 1 .. n : SubSeq(s, 1, n)[i] = s[i]
    OBVIOUS
<1> QED
    BY <1>1, <1>2

\* The browser's list after a visit: the entries up to the current one, and the new one
LEMMA VisitedFacts ==
    ASSUME EntriesOK, NEW id \in AnyId, NEW e, e = Visited(entries, id)
    PROVE  /\ e = [list |-> e.list, at |-> e.at]
           /\ e.list \in Seq(AnyId) /\ Len(e.list) = entries.at + 1 /\ e.at = entries.at + 1
           /\ \A i \in 1 .. entries.at : e.list[i] = entries.list[i]
           /\ e.list[e.at] = id
<1>1. e = [list |-> Append(SubSeq(entries.list, 1, entries.at), id), at |-> entries.at + 1]
    BY DEF Visited
<1>2. /\ e.list = Append(SubSeq(entries.list, 1, entries.at), id)
      /\ entries.list \in Seq(AnyId) /\ entries.at \in 0 .. Len(entries.list)
    BY <1>1 DEF EntriesOK
<1>3. /\ e.list \in Seq(AnyId) /\ Len(e.list) = entries.at + 1
      /\ \A i \in 1 .. entries.at : e.list[i] = entries.list[i]
      /\ e.list[entries.at + 1] = id
    BY <1>2, CutAndAppended
<1> QED
    BY <1>1, <1>3

\* As long as the stack runs along with the entries, what is popped is what was ahead.
LEMMA PoppedFacts ==
    ASSUME EntriesOK, Distinct, Aligned, ghost.marks = {}
    PROVE  Popped(state.stack, Current) = SubSeq(state.stack, 1, entries.at - 1)
<1> DEFINE s == state.stack
           l == entries.list
<1>1. /\ s \in Seq(AnyId) /\ Len(l) = Len(s) + 1 /\ entries.at \in 1 .. Len(l)
      /\ \A i \in 1 .. Len(s) : s[i] = l[i + 1]
      /\ \A i, j \in 1 .. Len(l) : l[i] = l[j] => i = j
      /\ Current = l[entries.at] /\ DOMAIN s = 1 .. Len(s) /\ l \in Seq(AnyId)
    BY DEF Aligned, Distinct, EntriesOK, Current
<1> HIDE DEF s, l
<1>2. \A i \in DOMAIN s : s[i] = Current <=> i = entries.at - 1
    BY <1>1
<1>3. CASE entries.at = 1
  <2>1. ~\E i \in DOMAIN s : s[i] = Current
      BY <1>1, <1>2, <1>3
  <2>2. SubSeq(s, 1, 0) = <<>>
      BY <1>1
  <2> QED
      BY <1>3, <2>1, <2>2 DEF Popped, s
<1>4. CASE entries.at # 1
  <2>1. entries.at - 1 \in DOMAIN s
      BY <1>1, <1>4
  <2> DEFINE Is(i) == s[i] = Current /\ \A j \in i + 1 .. Len(s) : s[j] # Current
  <2>2. \A i \in DOMAIN s : Is(i) <=> i = entries.at - 1
      BY <1>1, <1>2, <2>1
  <2>3. (CHOOSE i \in DOMAIN s : Is(i)) = entries.at - 1
      BY <2>1, <2>2
  <2>4. \E i \in DOMAIN s : s[i] = Current
      BY <1>2, <2>1
  <2> QED
      BY <2>3, <2>4 DEF Popped, s
<1> QED
    BY <1>3, <1>4
--------------------------------------------------------------------------------
\* The invariant of the history at the start
LEMMA InitIInv == Init => IInv
<1> SUFFICES ASSUME Init PROVE IInv
    OBVIOUS
<1>1. PICK id \in AnyId : entries = [list |-> <<id>>, at |-> 1] /\ page = NewPage(id)
    BY DEF Init
<1>2. EntriesOK /\ Len(entries.list) = 1 /\ entries.list[1] = id /\ entries.at = 1
    BY <1>1 DEF EntriesOK
<1>3. /\ state = [stack |-> <<>>, data |-> NoData] /\ field = state
      /\ ghost.moved = FALSE
    BY DEF Init, NoState
<1>4. RecordsOK
    BY <1>1, <1>3 DEF Init, RecordsOK, NewPage
<1>5. DOMAIN NoData = {}
    BY DEF NoData
<1>6. Aligned
  <2>1. state.stack \in Seq(AnyId) /\ Len(state.stack) = 0
      BY <1>3
  <2> QED
      BY <1>2, <1>3, <1>5, <2>1 DEF Aligned
<1>7. Distinct
    BY <1>2 DEF Distinct
<1>8. SavedIsLatest
    BY <1>3, <1>5 DEF SavedIsLatest
<1>9. AppFollows /\ OwnStatesSilent
  <2>1. page.seen = id /\ page.loaded = FALSE /\ Current = id
      BY <1>1, <1>2 DEF NewPage, Current
  <2> QED
      BY <2>1 DEF AppFollows, OwnStatesSilent
<1> QED
    BY <1>2, <1>4, <1>6, <1>7, <1>8, <1>9 DEF IInv

\* A step that does not change the entries nor the history's state
LEMMA StateKept ==
    ASSUME EntriesOK, Distinct, Aligned, UNCHANGED <<entries, state>>, ghost'.marks = ghost.marks
    PROVE  EntriesOK' /\ Distinct' /\ Aligned' /\ Current' = Current
    BY DEF EntriesOK, Distinct, Aligned, Current

\* registerCallback keeps the invariant.
LEMMA RegisterPreserves ==
    ASSUME IInv, NEW requires \in BOOLEAN, Register(requires)
    PROVE  IInv'
<1>1. EntriesOK /\ Distinct /\ Aligned /\ RecordsOK
    BY DEF IInv
<1>2. UNCHANGED <<entries, state, field, ghost>> /\ page.callback = "none"
    BY DEF Register
<1>3. EntriesOK' /\ Distinct' /\ Aligned' /\ Current' = Current
    BY <1>1, <1>2, StateKept
<1>4. PICK c : page' = [loaded |-> page.loaded, callback |-> c, seen |-> page.seen,
                        told |-> page.told, active |-> page.active]
  <2>1. page' = [page EXCEPT !.callback = IF requires THEN "data" ELSE "plain"]
      BY DEF Register
  <2> QED
      BY <1>1, <2>1 DEF RecordsOK
<1>5. /\ app' = [shows |-> app'.shows, latest |-> app.latest]
      /\ page.loaded => app'.shows = Current
  <2>1. app' = IF page.loaded THEN [app EXCEPT !.shows = Current] ELSE app
      BY DEF Register
  <2> QED
      BY <1>1, <2>1 DEF RecordsOK
<1>6. RecordsOK'
    BY <1>1, <1>2, <1>4, <1>5 DEF RecordsOK
<1>7. SavedIsLatest' /\ OwnStatesSilent' /\ AppFollows'
    BY <1>2, <1>3, <1>4, <1>5 DEF IInv, SavedIsLatest, OwnStatesSilent, AppFollows
<1> QED
    BY <1>3, <1>6, <1>7 DEF IInv

\* What a callback does to the page and the application, unless it throws
LEMMA FiredFacts ==
    ASSUME RecordsOK, NEW id, NEW p, FireCallback(id, p, FALSE), NEW loaded, NEW seen,
           p = [loaded |-> loaded, callback |-> page.callback, seen |-> seen,
                told |-> page.told, active |-> page.active]
    PROVE  /\ page' = [loaded |-> loaded, callback |-> page.callback,
                       seen |-> seen, told |-> page'.told, active |-> TRUE]
           /\ app' = [shows |-> app'.shows, latest |-> app.latest]
           /\ \/ app'.shows = id
              \/ page'.told = id
              \/ page.callback = "none"
              \/ page.callback = "data" /\ ~HaveHistoryState(id)
<1>1. CASE WillFire(id)
  <2>1. page' = [p EXCEPT !.active = TRUE, !.told = id] /\ app' = [app EXCEPT !.shows = id]
      BY <1>1 DEF FireCallback
  <2>2. page' = [loaded |-> loaded, callback |-> page.callback, seen |-> seen,
                 told |-> id, active |-> TRUE]
      BY <2>1
  <2>3. app' = [shows |-> id, latest |-> app.latest]
      BY <2>1 DEF RecordsOK
  <2> QED
      BY <2>2, <2>3
<1>2. CASE ~WillFire(id)
  <2>1. page' = [p EXCEPT !.active = TRUE] /\ app' = app
      BY <1>2 DEF FireCallback
  <2>2. page' = [loaded |-> loaded, callback |-> page.callback, seen |-> seen,
                 told |-> page.told, active |-> TRUE]
      BY <2>1
  <2>3. \/ page.told = id \/ page.callback = "none"
        \/ page.callback = "data" /\ ~HaveHistoryState(id)
      BY <1>2 DEF WillFire
  <2> QED
      BY <2>1, <2>2, <2>3 DEF RecordsOK
<1> QED
    BY <1>1, <1>2

\* A callback that throws leaves the application where it is
LEMMA ThrownFacts ==
    ASSUME RecordsOK, NEW id, NEW p, FireCallback(id, p, TRUE)
    PROVE  /\ page' = [loaded |-> page.loaded, callback |-> page.callback, seen |-> page.seen,
                       told |-> id, active |-> TRUE]
           /\ app' = app
<1>1. page' = [page EXCEPT !.active = TRUE, !.told = id] /\ app' = app
    BY DEF FireCallback
<1> QED
    BY <1>1 DEF RecordsOK

\* The first callback, after the page is loaded, keeps the invariant.
LEMMA PageLoadPreserves ==
    ASSUME IInv, PageLoad
    PROVE  IInv'
<1>1. EntriesOK /\ Distinct /\ Aligned /\ RecordsOK
    BY DEF IInv
<1>2. UNCHANGED <<entries, state, field, ghost>>
    BY DEF PageLoad
<1>3. EntriesOK' /\ Distinct' /\ Aligned' /\ Current' = Current
    BY <1>1, <1>2, StateKept
<1>4. PICK p : p = [page EXCEPT !.loaded = TRUE]
    OBVIOUS
<1>5. p = [loaded |-> TRUE, callback |-> page.callback, seen |-> page.seen,
           told |-> page.told, active |-> page.active]
    BY <1>1, <1>4 DEF RecordsOK
<1>c. state = [stack |-> state.stack, data |-> state.data]
      /\ ghost = [calls |-> ghost.calls, visits |-> ghost.visits, moved |-> ghost.moved,
                  marks |-> ghost.marks]
    BY <1>1 DEF RecordsOK
<1>6. /\ RecordsOK'
      /\ page'.seen = page.seen
      /\ app'.latest = app.latest
      /\ AppFollows'
  <2>1. CASE page.callback = "none"
    <3>1. page' = p /\ app' = app
        BY <1>4, <2>1 DEF PageLoad
    <3> QED
        BY <1>1, <1>2, <1>5, <2>1, <3>1 DEF RecordsOK, AppFollows
  <2>2. CASE page.callback # "none"
    <3>1. FireCallback(Current, p, FALSE)
        BY <1>4, <2>2 DEF PageLoad
    <3> HIDE DEF Current
    <3>3. /\ page' = [loaded |-> TRUE, callback |-> page.callback,
                      seen |-> page.seen, told |-> page'.told, active |-> TRUE]
          /\ app' = [shows |-> app'.shows, latest |-> app.latest]
          /\ \/ app'.shows = Current
             \/ page'.told = Current
             \/ page.callback = "none"
             \/ page.callback = "data" /\ ~HaveHistoryState(Current)
        BY <1>1, <1>5, <3>1, FiredFacts
    <3>a. page' = [loaded |-> page'.loaded, callback |-> page'.callback,
                   seen |-> page'.seen, told |-> page'.told, active |-> page'.active]
          /\ page'.loaded = TRUE /\ page'.active = TRUE
        BY <3>3
    <3>4. RecordsOK'
        BY <1>2, <1>c, <3>3, <3>a DEF RecordsOK
    <3>5. AppFollows'
        BY <1>2, <1>3, <2>2, <3>3 DEF AppFollows, HaveHistoryState
    <3> QED
        BY <3>3, <3>4, <3>5
  <2> QED
      BY <2>1, <2>2
<1>7. SavedIsLatest' /\ OwnStatesSilent'
    BY <1>2, <1>3, <1>6 DEF IInv, SavedIsLatest, OwnStatesSilent
<1> QED
    BY <1>3, <1>6, <1>7 DEF IInv

\* A look at the address whose callback does not throw keeps the invariant.
LEMMA PollPreserves ==
    ASSUME IInv, Poll(FALSE)
    PROVE  IInv'
<1>1. EntriesOK /\ Distinct /\ Aligned /\ RecordsOK
    BY DEF IInv
<1>2. UNCHANGED <<entries, state, field>> /\ ghost' = [ghost EXCEPT !.moved = FALSE]
    BY DEF Poll
<1>a. ghost' = [calls |-> ghost.calls, visits |-> ghost.visits, moved |-> FALSE,
                marks |-> ghost.marks]
    BY <1>1, <1>2 DEF RecordsOK
<1>3. EntriesOK' /\ Distinct' /\ Aligned' /\ Current' = Current
    BY <1>1, <1>2, <1>a, StateKept
<1>4. PICK p : p = [page EXCEPT !.seen = Current]
    OBVIOUS
<1>5. p = [loaded |-> page.loaded, callback |-> page.callback, seen |-> Current,
           told |-> page.told, active |-> page.active]
    BY <1>1, <1>4 DEF RecordsOK
<1>7. FireCallback(Current, p, FALSE)
    BY <1>4 DEF Poll
<1>8. /\ page' = [loaded |-> page.loaded, callback |-> page.callback,
                  seen |-> Current, told |-> page'.told, active |-> TRUE]
      /\ app' = [shows |-> app'.shows, latest |-> app.latest]
      /\ \/ app'.shows = Current
         \/ page'.told = Current
         \/ page.callback = "none"
         \/ page.callback = "data" /\ ~HaveHistoryState(Current)
  <2> HIDE DEF Current
  <2> QED
      BY <1>1, <1>5, <1>7, FiredFacts
<1>b. page' = [loaded |-> page'.loaded, callback |-> page'.callback,
               seen |-> page'.seen, told |-> page'.told, active |-> page'.active]
      /\ page'.loaded = page.loaded /\ page'.active = TRUE
    BY <1>8
<1>c. page.loaded \in BOOLEAN /\ state = [stack |-> state.stack, data |-> state.data]
    BY <1>1 DEF RecordsOK
<1>9. RecordsOK'
    BY <1>2, <1>a, <1>8, <1>b, <1>c DEF RecordsOK
<1>10. AppFollows'
    BY <1>2, <1>3, <1>8 DEF AppFollows, HaveHistoryState
<1>11. SavedIsLatest' /\ OwnStatesSilent'
    BY <1>2, <1>3, <1>8 DEF IInv, SavedIsLatest, OwnStatesSilent
<1> QED
    BY <1>3, <1>9, <1>10, <1>11 DEF IInv

\* The timer will look again
LEMMA PollThrownPreserves ==
    ASSUME IInv, Poll(TRUE)
    PROVE  IInv'
<1>1. EntriesOK /\ Distinct /\ Aligned /\ RecordsOK
    BY DEF IInv
<1>2. /\ UNCHANGED <<entries, state, field>> /\ ghost' = [ghost EXCEPT !.moved = TRUE]
      /\ FireCallback(Current, [page EXCEPT !.seen = Current], TRUE)
    BY DEF Poll
<1>3. ghost' = [calls |-> ghost.calls, visits |-> ghost.visits, moved |-> TRUE,
                marks |-> ghost.marks]
    BY <1>1, <1>2 DEF RecordsOK
<1>4. EntriesOK' /\ Distinct' /\ Aligned'
    BY <1>1, <1>2, <1>3, StateKept
<1>5. /\ page' = [loaded |-> page.loaded, callback |-> page.callback, seen |-> page.seen,
                  told |-> Current, active |-> TRUE]
      /\ app' = app
  <2> HIDE DEF Current
  <2> QED
      BY <1>1, <1>2, ThrownFacts
<1>6. RecordsOK'
    BY <1>1, <1>2, <1>3, <1>5 DEF RecordsOK
<1>7. SavedIsLatest' /\ OwnStatesSilent' /\ AppFollows'
    BY <1>2, <1>3, <1>5 DEF IInv, SavedIsLatest, OwnStatesSilent, AppFollows
<1> QED
    BY <1>4, <1>6, <1>7 DEF IInv
--------------------------------------------------------------------------------
\* Data with another id
LEMMA WithFacts ==
    ASSUME NEW data, NEW id, NEW d
    PROVE  /\ DOMAIN With(data, id, d) = DOMAIN data \cup {id}
           /\ With(data, id, d)[id] = d
           /\ \A i \in DOMAIN data : i # id => With(data, id, d)[i] = data[i]
    BY DEF With

\* New data of an id goes where the application takes it to go
LEMMA LatestFollows ==
    ASSUME NEW data, NEW latest, NEW id, NEW d,
           \A i \in DOMAIN data : i \in DOMAIN latest /\ data[i] = latest[i]
    PROVE  \A i \in DOMAIN With(data, id, d) : /\ i \in DOMAIN With(latest, id, d)
                                               /\ With(data, id, d)[i] = With(latest, id, d)[i]
    BY DEF With

\* addHistoryEntry in the state it is in
LEMMA SameEntryPreserves ==
    ASSUME IInv, NEW id \in Ids, AddHistoryEntry(id), id = Current
    PROVE  IInv'
<1>1. EntriesOK /\ Distinct /\ Aligned /\ RecordsOK /\ SavedIsLatest
    BY DEF IInv
<1> DEFINE d == ghost.calls + 1
<1>2. /\ state' = [state EXCEPT !.data = With(@, id, d)]
      /\ field' = state' /\ entries' = entries /\ page' = page
      /\ app' = [shows |-> id, latest |-> With(app.latest, id, d)]
    BY DEF AddHistoryEntry, Saved
<1>3. PICK c : c = d
    OBVIOUS
<1>4. ghost' = [ghost EXCEPT !.calls = c, !.moved = @, !.marks = @ \cup {}]
    BY <1>3 DEF AddHistoryEntry
<1>5. ghost' = [calls |-> c, visits |-> ghost.visits, moved |-> ghost.moved,
                marks |-> ghost.marks]
  <2>1. ghost.marks \cup {} = ghost.marks
      OBVIOUS
  <2> QED
      BY <1>1, <1>4, <2>1 DEF RecordsOK
<1>6. state' = [stack |-> state.stack, data |-> With(state.data, id, c)]
  <2> HIDE DEF d
  <2> QED
      BY <1>1, <1>2, <1>3 DEF RecordsOK
<1> HIDE DEF d
<1>7. EntriesOK' /\ RecordsOK' /\ Current' = Current /\ Distinct'
  <2>1. EntriesOK' /\ Current' = Current /\ Distinct'
      BY <1>1, <1>2, <1>5 DEF EntriesOK, Current, Distinct
  <2>2. state' = [stack |-> state'.stack, data |-> state'.data]
      BY <1>6
  <2>3. app' = [shows |-> app'.shows, latest |-> app'.latest]
      BY <1>2
  <2>4. ghost' = [calls |-> ghost'.calls, visits |-> ghost'.visits, moved |-> ghost'.moved,
                  marks |-> ghost'.marks]
      BY <1>5
  <2> QED
      BY <1>1, <1>2, <2>1, <2>2, <2>3, <2>4 DEF RecordsOK
<1>8. Aligned'
  <2> SUFFICES ASSUME ghost'.marks = {} PROVE Aligned'
      BY DEF Aligned
  <2>1. ghost.marks = {} /\ state'.stack = state.stack
        /\ DOMAIN state'.data = DOMAIN state.data \cup {id}
      BY <1>5, <1>6, WithFacts
  <2>2. \E i \in 1 .. Len(entries.list) : id = entries.list[i]
      BY <1>1 DEF EntriesOK, Current
  <2> QED
      BY <1>1, <1>2, <2>1, <2>2 DEF Aligned
<1>9. SavedIsLatest'
  <2>1. /\ state'.data = With(state.data, id, c) /\ app'.latest = With(app.latest, id, c)
      BY <1>2, <1>3, <1>6
  <2>2. \A i \in DOMAIN state.data : i \in DOMAIN app.latest /\ state.data[i] = app.latest[i]
      BY <1>1 DEF SavedIsLatest
  <2>3. \A i \in DOMAIN state'.data : i \in DOMAIN app'.latest /\ state'.data[i] = app'.latest[i]
      BY <2>1, <2>2, LatestFollows
  <2> QED
      BY <1>2, <2>3 DEF SavedIsLatest
<1>10. AppFollows' /\ OwnStatesSilent'
  <2>1. app'.shows = Current' /\ page'.seen = page.seen /\ ghost'.moved = ghost.moved
      BY <1>2, <1>5, <1>7
  <2> QED
      BY <1>7, <2>1 DEF IInv, AppFollows, OwnStatesSilent
<1> QED
    BY <1>7, <1>8, <1>9, <1>10 DEF IInv

\* addHistoryEntry of another state
LEMMA NewEntryPreserves ==
    ASSUME IInv, NEW id \in Ids, AddHistoryEntry(id), id # Current
    PROVE  IInv'
<1>1. EntriesOK /\ Distinct /\ Aligned /\ RecordsOK /\ SavedIsLatest /\ id \in AnyId
    BY DEF IInv, AnyId
<1>2. PICK c : c = ghost.calls + 1
    OBVIOUS
<1>3. PICK stack : stack = Popped(state.stack, Current)
    OBVIOUS
<1>4. PICK data : data = DataLeft(state, Len(stack))
    OBVIOUS
<1>5. PICK marks : marks = IF id # Current /\ id \in ToSet(entries.list) THEN {"repeated"} ELSE {}
    OBVIOUS
<1>6. /\ state' = [stack |-> Append(stack, id), data |-> With(data, id, c)]
      /\ field' = state'
      /\ entries' = Visited(entries, id)
      /\ page' = [page EXCEPT !.seen = id]
      /\ app' = [shows |-> id, latest |-> With(app.latest, id, c)]
      /\ ghost' = [ghost EXCEPT !.calls = c, !.moved = FALSE, !.marks = @ \cup marks]
    BY <1>2, <1>3, <1>4, <1>5 DEF AddHistoryEntry, Saved, Noticed
<1>7. /\ page' = [loaded |-> page.loaded, callback |-> page.callback, seen |-> id,
                  told |-> page.told, active |-> page.active]
      /\ ghost' = [calls |-> c, visits |-> ghost.visits, moved |-> FALSE,
                   marks |-> ghost.marks \cup marks]
    BY <1>1, <1>6 DEF RecordsOK
<1>8. RecordsOK'
  <2>1. page' = [loaded |-> page'.loaded, callback |-> page'.callback, seen |-> page'.seen,
                 told |-> page'.told, active |-> page'.active]
        /\ page'.loaded = page.loaded /\ page'.active = page.active
      BY <1>7
  <2>2. ghost' = [calls |-> ghost'.calls, visits |-> ghost'.visits, moved |-> ghost'.moved,
                  marks |-> ghost'.marks]
      BY <1>7
  <2>3. state' = [stack |-> state'.stack, data |-> state'.data]
        /\ app' = [shows |-> app'.shows, latest |-> app'.latest]
      BY <1>6
  <2>4. page.loaded \in BOOLEAN /\ page.active \in BOOLEAN
      BY <1>1 DEF RecordsOK
  <2> QED
      BY <2>1, <2>2, <2>3, <2>4 DEF RecordsOK
<1>9. /\ entries' = [list |-> entries'.list, at |-> entries'.at]
      /\ entries'.list \in Seq(AnyId) /\ Len(entries'.list) = entries.at + 1
      /\ entries'.at = entries.at + 1
      /\ \A i \in 1 .. entries.at : entries'.list[i] = entries.list[i]
      /\ entries'.list[entries'.at] = id
    BY <1>1, <1>6, VisitedFacts
<1>10. EntriesOK' /\ Current' = id
    BY <1>1, <1>9 DEF EntriesOK, Current
<1>11. ASSUME ghost'.marks = {}
       PROVE  /\ ghost.marks = {}
              /\ \A i \in 1 .. Len(entries.list) : entries.list[i] # id
  <2>1. ghost.marks = {} /\ marks = {}
      BY <1>7, <1>11
  <2>2. id \notin ToSet(entries.list)
      BY <1>5, <2>1
  <2>3. DOMAIN entries.list = 1 .. Len(entries.list)
      BY <1>1 DEF EntriesOK
  <2> QED
      BY <2>1, <2>2, <2>3 DEF ToSet
<1>12. Distinct'
  <2> SUFFICES ASSUME ghost'.marks = {}, NEW i \in 1 .. Len(entries'.list),
                      NEW j \in 1 .. Len(entries'.list), entries'.list[i] = entries'.list[j]
               PROVE  i = j
      BY DEF Distinct
  <2>1. \A k, m \in 1 .. Len(entries.list) : entries.list[k] = entries.list[m] => k = m
      BY <1>1, <1>11 DEF Distinct
  <2>2. entries.at \in 1 .. Len(entries.list) /\ Len(entries.list) \in Nat
      BY <1>1 DEF EntriesOK
  <2> QED
      BY <1>9, <1>11, <2>1, <2>2
<1>13. Aligned'
  <2> SUFFICES ASSUME ghost'.marks = {} PROVE Aligned'
      BY DEF Aligned
  <2> DEFINE s == state.stack
             l == entries.list
  <2>1. /\ s \in Seq(AnyId) /\ Len(l) = Len(s) + 1 /\ entries.at \in 1 .. Len(l)
        /\ \A i \in 1 .. Len(s) : s[i] = l[i + 1] /\ s[i] \in DOMAIN state.data
        /\ \A x \in DOMAIN state.data : \E i \in 1 .. Len(l) : x = l[i]
        /\ \A i, j \in 1 .. Len(l) : l[i] = l[j] => i = j
        /\ \A i \in 1 .. Len(l) : l[i] # id
        /\ Len(l) \in Nat /\ Len(s) \in Nat
      BY <1>1, <1>11 DEF EntriesOK, Distinct, Aligned
  <2>2. stack = SubSeq(s, 1, entries.at - 1)
      BY <1>1, <1>3, <1>11, PoppedFacts
  <2>3. DOMAIN data = DOMAIN state.data \ {s[j] : j \in entries.at .. Len(s)}
    <3>1. Len(stack) = entries.at - 1
        BY <2>1, <2>2
    <3>2. DOMAIN data = DOMAIN state.data \ {s[j] : j \in Len(stack) + 1 .. Len(s)}
        BY <1>4 DEF DataLeft
    <3>3. Len(stack) + 1 = entries.at
        BY <2>1, <3>1
    <3> QED
        BY <3>2, <3>3
  <2>4. DOMAIN state'.data = DOMAIN data \cup {id}
      BY <1>6, WithFacts
  <2> HIDE DEF s, l
  <2>5. entries.at - 1 \in 0 .. Len(s)
      BY <2>1
  <2>6. /\ state'.stack \in Seq(AnyId) /\ Len(state'.stack) = entries.at
        /\ \A i \in 1 .. entries.at - 1 : state'.stack[i] = s[i]
        /\ state'.stack[entries.at] = id
    <3>1. state'.stack = Append(SubSeq(s, 1, entries.at - 1), id)
        BY <1>6, <2>2
    <3>2. PICK n : n = entries.at - 1
        OBVIOUS
    <3>3. /\ state'.stack \in Seq(AnyId) /\ Len(state'.stack) = n + 1
          /\ \A i \in 1 .. n : state'.stack[i] = s[i]
          /\ state'.stack[n + 1] = id
        BY <1>1, <2>1, <2>5, <3>1, <3>2, CutAndAppended
    <3>4. n + 1 = entries.at
        BY <2>1, <3>2
    <3> QED
        BY <3>2, <3>3, <3>4
  <2>7. \A i \in 1 .. Len(state'.stack) : /\ state'.stack[i] = entries'.list[i + 1]
                                          /\ state'.stack[i] \in DOMAIN state'.data
    <3> SUFFICES ASSUME NEW i \in 1 .. Len(state'.stack)
                 PROVE  /\ state'.stack[i] = entries'.list[i + 1]
                        /\ state'.stack[i] \in DOMAIN state'.data
        OBVIOUS
    <3>1. CASE i = entries.at
        BY <1>9, <2>4, <2>6, <3>1
    <3>2. CASE i # entries.at
      <4>1. /\ i \in 1 .. entries.at - 1 /\ i \in 1 .. Len(s)
            /\ i + 1 \in 1 .. entries.at /\ i + 1 \in 1 .. Len(l)
          BY <2>1, <2>6, <3>2
      <4>2. state'.stack[i] = s[i] /\ s[i] = l[i + 1] /\ entries'.list[i + 1] = l[i + 1]
          BY <1>9, <2>1, <2>6, <4>1 DEF l
      <4>3. \A j \in entries.at .. Len(s) : s[j] # s[i]
        <5> SUFFICES ASSUME NEW j \in entries.at .. Len(s), s[j] = s[i] PROVE FALSE
            OBVIOUS
        <5>1. j \in 1 .. Len(s) /\ j + 1 \in 1 .. Len(l) /\ j # i
            BY <2>1, <4>1
        <5>2. l[j + 1] = l[i + 1]
            BY <2>1, <4>1, <5>1
        <5>3. j + 1 = i + 1
            BY <2>1, <4>1, <5>1, <5>2
        <5> QED
            BY <4>1, <5>1, <5>3
      <4>4. s[i] \in DOMAIN data
          BY <2>1, <2>3, <4>1, <4>3
      <4> QED
          BY <2>4, <4>2, <4>4
    <3> QED
        BY <3>1, <3>2
  <2>8. \A x \in DOMAIN state'.data : \E i \in 1 .. Len(entries'.list) : x = entries'.list[i]
    <3> SUFFICES ASSUME NEW x \in DOMAIN state'.data
                 PROVE  \E i \in 1 .. Len(entries'.list) : x = entries'.list[i]
        OBVIOUS
    <3>1. CASE x = id
      <4>1. entries.at + 1 \in 1 .. Len(entries'.list) /\ entries'.list[entries.at + 1] = id
          BY <1>9, <2>1
      <4> QED
          BY <3>1, <4>1
    <3>2. CASE x # id
      <4>1. x \in DOMAIN state.data /\ \A j \in entries.at .. Len(s) : s[j] # x
          BY <2>3, <2>4, <3>2
      <4>2. PICK k \in 1 .. Len(l) : x = l[k]
          BY <2>1, <4>1
      <4>3. k <= entries.at
        <5> SUFFICES ASSUME k > entries.at PROVE FALSE
            BY <2>1
        <5>1. k - 1 \in entries.at .. Len(s) /\ k - 1 \in 1 .. Len(s)
            BY <2>1
        <5>2. s[k - 1] = l[k]
            BY <2>1, <5>1
        <5> QED
            BY <4>1, <4>2, <5>1, <5>2
      <4>4. entries'.list[k] = x /\ k \in 1 .. Len(entries'.list)
          BY <1>9, <2>1, <4>2, <4>3 DEF l
      <4> QED
          BY <4>4
    <3> QED
        BY <3>1, <3>2
  <2> QED
      BY <1>9, <2>6, <2>7, <2>8 DEF Aligned
<1>14. SavedIsLatest'
  <2>1. state'.data = With(data, id, c) /\ app'.latest = With(app.latest, id, c)
      BY <1>6
  <2>2. \A i \in DOMAIN data : i \in DOMAIN app.latest /\ data[i] = app.latest[i]
    <3>1. \A i \in DOMAIN data : i \in DOMAIN state.data /\ data[i] = state.data[i]
        BY <1>4 DEF DataLeft
    <3> QED
        BY <1>1, <3>1 DEF SavedIsLatest
  <2>3. \A i \in DOMAIN state'.data : i \in DOMAIN app'.latest /\ state'.data[i] = app'.latest[i]
      BY <2>1, <2>2, LatestFollows
  <2> QED
      BY <1>6, <2>3 DEF SavedIsLatest
<1>15. AppFollows' /\ OwnStatesSilent'
    BY <1>6, <1>7, <1>10 DEF AppFollows, OwnStatesSilent
<1> QED
    BY <1>8, <1>10, <1>12, <1>13, <1>14, <1>15 DEF IInv

--------------------------------------------------------------------------------
\* The user goes elsewhere in the history, or to an address that is typed
LEMMA UserPreserves ==
    ASSUME IInv, (\E i \in DOMAIN entries.list : Go(i)) \/ \E id \in Ids : Type(id)
    PROVE  IInv'
<1>1. EntriesOK /\ Distinct /\ Aligned /\ RecordsOK /\ SavedIsLatest
    BY DEF IInv
<1>2. UNCHANGED <<page, state, field, app>>
    BY DEF Go, Type
<1>3. /\ EntriesOK' /\ Distinct' /\ Aligned' /\ ghost'.moved = TRUE
      /\ ghost' = [calls |-> ghost'.calls, visits |-> ghost'.visits, moved |-> ghost'.moved,
                   marks |-> ghost'.marks]
  <2>1. CASE \E i \in DOMAIN entries.list : Go(i)
    <3>1. PICK i \in DOMAIN entries.list : Go(i)
        BY <2>1
    <3>2. ghost' = [calls |-> ghost.calls, visits |-> ghost.visits, moved |-> TRUE,
                    marks |-> ghost.marks]
      <4>1. ghost' = [ghost EXCEPT !.moved = TRUE]
          BY <3>1 DEF Go
      <4> QED
          BY <1>1, <4>1 DEF RecordsOK
    <3>3. entries' = [list |-> entries.list, at |-> i] /\ i \in 1 .. Len(entries.list)
        BY <1>1, <3>1 DEF Go, EntriesOK
    <3>4. EntriesOK'
        BY <1>1, <3>3 DEF EntriesOK
    <3>5. entries'.list = entries.list /\ ghost'.marks = ghost.marks
        BY <3>2, <3>3
    <3>6. Distinct'
        BY <1>1, <3>5 DEF Distinct
    <3>7. Aligned'
      <4>1. state'.stack = state.stack /\ state'.data = state.data
          BY <1>2
      <4> QED
          BY <1>1, <3>5, <4>1 DEF Aligned
    <3> QED
        BY <3>2, <3>4, <3>6, <3>7
  <2>2. CASE \E id \in Ids : Type(id)
    <3>1. PICK id \in Ids : Type(id)
        BY <2>2
    <3>2. PICK v : v = ghost.visits + 1
        OBVIOUS
    <3>3. ghost' = [ghost EXCEPT !.visits = v, !.moved = TRUE, !.marks = @ \cup {"typed"}]
        BY <3>1, <3>2 DEF Type
    <3>4. ghost' = [calls |-> ghost.calls, visits |-> v, moved |-> TRUE,
                    marks |-> ghost.marks \cup {"typed"}]
        BY <1>1, <3>3 DEF RecordsOK
    <3>5. id \in AnyId /\ entries' = Visited(entries, id)
        BY <3>1 DEF Type, AnyId
    <3>6. /\ entries' = [list |-> entries'.list, at |-> entries'.at]
          /\ entries'.list \in Seq(AnyId) /\ Len(entries'.list) = entries.at + 1
          /\ entries'.at = entries.at + 1
        BY <1>1, <3>5, VisitedFacts
    <3>7. EntriesOK'
        BY <1>1, <3>6 DEF EntriesOK
    <3>8. ghost'.marks # {}
        BY <3>4
    <3> QED
        BY <3>4, <3>7, <3>8 DEF Distinct, Aligned
  <2> QED
      BY <2>1, <2>2
<1>4. RecordsOK'
    BY <1>1, <1>2, <1>3 DEF RecordsOK
<1>5. SavedIsLatest' /\ AppFollows' /\ OwnStatesSilent'
    BY <1>1, <1>2, <1>3 DEF SavedIsLatest, AppFollows, OwnStatesSilent
<1> QED
    BY <1>3, <1>4, <1>5 DEF IInv

\* Coming back to the page keeps the invariant, the field restored or not.
LEMMA RevisitPreserves ==
    ASSUME IInv, NEW restored \in BOOLEAN, Revisit(restored)
    PROVE  IInv'
<1>1. EntriesOK /\ Distinct /\ Aligned /\ RecordsOK /\ SavedIsLatest
    BY DEF IInv
<1>2. PICK marks : marks = IF restored THEN {} ELSE {"lost"}
    OBVIOUS
<1>3. PICK v : v = ghost.visits + 1
    OBVIOUS
<1>4. /\ entries' = entries
      /\ ghost' = [ghost EXCEPT !.visits = v, !.moved = FALSE, !.marks = @ \cup marks]
      /\ app' = [app EXCEPT !.shows = NoId]
      /\ page' = [loaded |-> FALSE, callback |-> "none", seen |-> Current, told |-> NoId,
                  active |-> FALSE]
    BY <1>2, <1>3 DEF Revisit, NewPage
<1>a. /\ state' = field'
      /\ \/ field' = state /\ marks = {}
         \/ field' = NoState /\ marks = {"lost"}
    BY <1>1, <1>2 DEF Revisit, SavedIsLatest
<1>5. ghost' = [calls |-> ghost.calls, visits |-> v, moved |-> FALSE,
                marks |-> ghost.marks \cup marks]
    BY <1>1, <1>4 DEF RecordsOK
<1>6. app' = [shows |-> NoId, latest |-> app.latest]
    BY <1>1, <1>4 DEF RecordsOK
<1>7. state' = [stack |-> state'.stack, data |-> state'.data]
    BY <1>1, <1>a DEF RecordsOK, NoState
<1>8. RecordsOK'
    BY <1>4, <1>5, <1>6, <1>7 DEF RecordsOK
<1>9. EntriesOK' /\ Distinct' /\ Aligned' /\ Current' = Current
  <2>1. ghost'.marks = {} => ghost.marks = {} /\ state' = state
      BY <1>5, <1>a
  <2> QED
      BY <1>1, <1>4, <2>1 DEF EntriesOK, Distinct, Aligned, Current
<1>10. SavedIsLatest'
  <2>1. DOMAIN NoData = {} /\ NoState.data = NoData
      BY DEF NoData, NoState
  <2>2. state' = state \/ state' = NoState
      BY <1>a
  <2>3. app'.latest = app.latest /\ field' = state'
      BY <1>6, <1>a
  <2> QED
      BY <1>1, <2>1, <2>2, <2>3 DEF SavedIsLatest
<1>11. AppFollows' /\ OwnStatesSilent'
    BY <1>4, <1>9 DEF AppFollows, OwnStatesSilent
<1> QED
    BY <1>8, <1>9, <1>10, <1>11 DEF IInv

--------------------------------------------------------------------------------
\* The invariant of the history, for any ids and entries
LEMMA IInvAlways == Spec => []IInv
<1>1. ASSUME IInv, UNCHANGED vars PROVE IInv'
    BY <1>1 DEF IInv, EntriesOK, RecordsOK, Distinct, Aligned, SavedIsLatest, AppFollows,
                OwnStatesSilent, Current, HaveHistoryState, vars
<1>2. ASSUME IInv, Next PROVE IInv'
  <2>1. CASE \E throws \in BOOLEAN : Poll(throws)
    <3>1. Poll(TRUE) \/ Poll(FALSE)
        BY <2>1
    <3> QED
        BY <1>2, <3>1, PollPreserves, PollThrownPreserves
  <2>2. CASE \E id \in Ids : AddHistoryEntry(id)
      BY <1>2, <2>2, SameEntryPreserves, NewEntryPreserves
  <2> QED
      BY <1>2, <2>1, <2>2, RegisterPreserves, PageLoadPreserves, UserPreserves,
         RevisitPreserves DEF Next
<1>3. IInv /\ [Next]_vars => IInv'
    BY <1>1, <1>2
<1> QED
    BY InitIInv, <1>3, PTL DEF Spec

--------------------------------------------------------------------------------
\* What is left of a stack of ids is one, wherever the search for the current id stops.
LEMMA PoppedType ==
    ASSUME NEW stack \in Seq(Ids), NEW id
    PROVE  Popped(stack, id) \in Seq(Ids)
<1> DEFINE At == {i \in 1 .. Len(stack) : stack[i] = id}
           Is(i) == stack[i] = id /\ \A j \in i + 1 .. Len(stack) : stack[j] # id
<1>1. Len(stack) \in Nat /\ DOMAIN stack = 1 .. Len(stack)
    OBVIOUS
<1>2. CASE \E i \in DOMAIN stack : stack[i] = id
  <2>1. At \subseteq 1 .. Len(stack) /\ At # {}
      BY <1>1, <1>2
  <2> HIDE DEF At
  <2>2. PICK i \in At : \A j \in At : j <= i
      BY <1>1, <2>1, BoundedMax
  <2>3. i \in DOMAIN stack /\ Is(i)
    <3>1. i \in 1 .. Len(stack) /\ stack[i] = id
        BY <2>2 DEF At
    <3>2. ASSUME NEW j \in i + 1 .. Len(stack) PROVE stack[j] # id
      <4>1. j \in 1 .. Len(stack) /\ ~(j <= i)
          BY <1>1, <3>1
      <4>2. j \notin At
          BY <2>2, <4>1
      <4> QED
          BY <4>1, <4>2 DEF At
    <3> QED
        BY <1>1, <3>1, <3>2
  <2>4. PICK k : k = CHOOSE n \in DOMAIN stack : Is(n)
      OBVIOUS
  <2>5. k \in DOMAIN stack
    <3> HIDE DEF Is
    <3> QED
        BY <2>3, <2>4
  <2>6. Popped(stack, id) = SubSeq(stack, 1, k)
      BY <1>2, <2>4 DEF Popped
  <2> QED
      BY <1>1, <2>5, <2>6
<1>3. CASE ~\E i \in DOMAIN stack : stack[i] = id
    BY <1>3 DEF Popped
<1> QED
    BY <1>2, <1>3

\* The types at the start
LEMMA TypeHoldsAtFirst == Init => TypeOK
<1> SUFFICES ASSUME Init PROVE TypeOK
    OBVIOUS
<1>1. PICK id \in AnyId : entries = [list |-> <<id>>, at |-> 1] /\ page = NewPage(id)
    BY DEF Init
<1>2. entries.list \in Seq(AnyId) /\ entries.at \in DOMAIN entries.list
    BY <1>1
<1>3. state.stack = <<>> /\ field.stack = <<>>
    BY DEF Init, NoState
<1> QED
    BY <1>1, <1>2, <1>3, BoundsAssumption DEF Init, NewPage, AnyId, Marks, TypeOK

\* addHistoryEntry
LEMMA EntryKeepsTypes ==
    ASSUME IInv, TypeOK, NEW id \in Ids, AddHistoryEntry(id), EntriesOK'
    PROVE  TypeOK'
<1>1. RecordsOK
    BY DEF IInv
<1>2. state'.stack \in Seq(Ids)
  <2>1. CASE id = Current
    <3>1. PICK x : state' = [state EXCEPT !.data = x]
        BY <2>1 DEF AddHistoryEntry
    <3>2. state'.stack = state.stack
        BY <1>1, <3>1 DEF RecordsOK
    <3> QED
        BY <3>2 DEF TypeOK
  <2>2. CASE id # Current
    <3>1. state'.stack = Append(Popped(state.stack, Current), id)
        BY <2>2 DEF AddHistoryEntry
    <3>2. Popped(state.stack, Current) \in Seq(Ids)
        BY PoppedType DEF TypeOK
    <3> QED
        BY <3>1, <3>2
  <2> QED
      BY <2>1, <2>2
<1>3. field' = state'
    BY DEF AddHistoryEntry, Saved
<1>4. /\ page'.loaded = page.loaded /\ page'.active = page.active
      /\ page'.callback = page.callback /\ page'.told = page.told
      /\ page'.seen \in {page.seen, id}
  <2>1. page' = page \/ page' = [page EXCEPT !.seen = id]
      BY DEF AddHistoryEntry, Noticed
  <2> QED
      BY <1>1, <2>1 DEF RecordsOK
<1>5. /\ ghost'.calls \in 0 .. MaxCalls /\ ghost'.visits = ghost.visits
      /\ ghost'.moved \in BOOLEAN /\ ghost'.marks \subseteq Marks
  <2>1. PICK c, v, m : /\ c = ghost.calls + 1 /\ ghost.calls < MaxCalls
                       /\ v \in {ghost.moved, FALSE}
                       /\ m \in {{}, {"repeated"}}
                       /\ ghost' = [ghost EXCEPT !.calls = c, !.moved = v,
                                                 !.marks = ghost.marks \cup m]
      BY DEF AddHistoryEntry
  <2>2. /\ ghost'.calls = c /\ ghost'.visits = ghost.visits /\ ghost'.moved = v
        /\ ghost'.marks = ghost.marks \cup m
      BY <1>1, <2>1 DEF RecordsOK
  <2>3. c \in 0 .. MaxCalls
      BY <2>1, BoundsAssumption DEF TypeOK
  <2>4. ghost.marks \cup m \subseteq Marks
    <3>1. m \subseteq Marks /\ ghost.marks \subseteq Marks
        BY <2>1 DEF TypeOK, Marks
    <3> QED
        BY <3>1
  <2> QED
      BY <2>1, <2>2, <2>3, <2>4 DEF TypeOK
<1>6. app'.shows = id
    BY DEF AddHistoryEntry
<1>7. entries'.list \in Seq(AnyId) /\ entries'.at \in DOMAIN entries'.list
    BY DEF EntriesOK
<1> QED
    BY <1>2, <1>3, <1>4, <1>5, <1>6, <1>7 DEF TypeOK, AnyId

\* Callbacks, and the first look at the state of a page that was loaded
LEMMA CallbacksKeepTypes ==
    ASSUME IInv, TypeOK, EntriesOK',
           \/ \E requires \in BOOLEAN : Register(requires)
           \/ PageLoad
           \/ \E throws \in BOOLEAN : Poll(throws)
    PROVE  TypeOK'
<1>1. RecordsOK /\ EntriesOK
    BY DEF IInv
<1>2. Current \in AnyId
    BY <1>1 DEF Current, EntriesOK
<1>3. UNCHANGED <<entries, state, field>>
    BY DEF Register, PageLoad, Poll
<1>4. ghost' = ghost \/ \E b \in BOOLEAN : ghost' = [ghost EXCEPT !.moved = b]
    BY DEF Register, PageLoad, Poll
<1>5. /\ ghost'.calls = ghost.calls /\ ghost'.visits = ghost.visits
      /\ ghost'.marks = ghost.marks /\ ghost'.moved \in BOOLEAN
    BY <1>1, <1>4 DEF RecordsOK, TypeOK
<1>6. /\ page'.loaded \in BOOLEAN /\ page'.active \in BOOLEAN
      /\ page'.callback \in {"none", "plain", "data"}
      /\ page'.seen \in AnyId /\ page'.told \in AnyId
      /\ app'.shows \in AnyId
  <2> HIDE DEF Current
  <2>1. CASE \E requires \in BOOLEAN : Register(requires)
    <3>1. PICK c \in {"data", "plain"} : page' = [page EXCEPT !.callback = c]
        BY <2>1 DEF Register
    <3>2. app' = [app EXCEPT !.shows = Current] \/ app' = app
        BY <2>1 DEF Register
    <3> QED
        BY <1>1, <1>2, <3>1, <3>2 DEF RecordsOK, TypeOK
  <2>2. ASSUME NEW p, NEW t \in BOOLEAN, FireCallback(Current, p, t),
               p = [loaded |-> p.loaded, callback |-> p.callback, seen |-> p.seen,
                    told |-> p.told, active |-> p.active],
               p.loaded \in BOOLEAN, p.callback = page.callback,
               p.seen \in AnyId, p.told = page.told
        PROVE  /\ page'.loaded \in BOOLEAN /\ page'.active \in BOOLEAN
               /\ page'.callback \in {"none", "plain", "data"}
               /\ page'.seen \in AnyId /\ page'.told \in AnyId
               /\ app'.shows \in AnyId
    <3>1. \/ page' = [page EXCEPT !.active = TRUE, !.told = Current]
          \/ page' = [p EXCEPT !.active = TRUE, !.told = Current]
          \/ page' = [p EXCEPT !.active = TRUE]
        BY <2>2 DEF FireCallback
    <3>2. app' = [app EXCEPT !.shows = Current] \/ app' = app
        BY <2>2 DEF FireCallback
    <3>3. app'.shows \in AnyId
        BY <1>1, <1>2, <3>2 DEF RecordsOK, TypeOK
    <3> QED
        BY <1>1, <1>2, <2>2, <3>1, <3>3 DEF RecordsOK, TypeOK
  <2>3. CASE PageLoad
    <3>1. PICK p : p = [page EXCEPT !.loaded = TRUE]
        OBVIOUS
    <3>2. p = [loaded |-> TRUE, callback |-> page.callback, seen |-> page.seen,
               told |-> page.told, active |-> page.active]
        BY <1>1, <3>1 DEF RecordsOK
    <3>3. (page' = p /\ app' = app) \/ FireCallback(Current, p, FALSE)
        BY <2>3, <3>1 DEF PageLoad
    <3>4. CASE page' = p /\ app' = app
        BY <3>2, <3>4 DEF TypeOK
    <3>5. CASE FireCallback(Current, p, FALSE)
        BY <2>2, <3>2, <3>5 DEF TypeOK
    <3> QED
        BY <3>3, <3>4, <3>5
  <2>4. CASE \E throws \in BOOLEAN : Poll(throws)
    <3>1. PICK p : p = [page EXCEPT !.seen = Current]
        OBVIOUS
    <3>2. p = [loaded |-> page.loaded, callback |-> page.callback, seen |-> Current,
               told |-> page.told, active |-> page.active]
        BY <1>1, <3>1 DEF RecordsOK
    <3>3. \E t \in BOOLEAN : FireCallback(Current, p, t)
        BY <2>4, <3>1 DEF Poll
    <3> QED
        BY <1>2, <2>2, <3>2, <3>3 DEF TypeOK
  <2> QED
      BY <2>1, <2>3, <2>4
<1>7. entries'.list \in Seq(AnyId) /\ entries'.at \in DOMAIN entries'.list
    BY DEF EntriesOK
<1> QED
    BY <1>3, <1>5, <1>6, <1>7 DEF TypeOK

\* The user
LEMMA UserKeepsTypes ==
    ASSUME IInv, TypeOK, EntriesOK',
           \/ \E i \in DOMAIN entries.list : Go(i)
           \/ \E id \in Ids : Type(id)
           \/ \E restored \in BOOLEAN : Revisit(restored)
    PROVE  TypeOK'
<1>1. RecordsOK /\ EntriesOK
    BY DEF IInv
<1>2. Current \in AnyId
    BY <1>1 DEF Current, EntriesOK
<1>3. entries'.list \in Seq(AnyId) /\ entries'.at \in DOMAIN entries'.list
    BY DEF EntriesOK
<1>4. CASE \E i \in DOMAIN entries.list : Go(i)
  <2>1. ghost' = [ghost EXCEPT !.moved = TRUE] /\ UNCHANGED <<page, state, field, app>>
      BY <1>4 DEF Go
  <2> QED
      BY <1>1, <1>3, <2>1 DEF RecordsOK, TypeOK
<1>5. CASE \E id \in Ids : Type(id)
  <2>1. PICK v, m : /\ v = ghost.visits + 1 /\ m = ghost.marks \cup {"typed"}
                    /\ ghost.visits < MaxVisits
                    /\ ghost' = [ghost EXCEPT !.visits = v, !.moved = TRUE, !.marks = m]
                    /\ UNCHANGED <<page, state, field, app>>
      BY <1>5 DEF Type
  <2>2. ghost' = [calls |-> ghost.calls, visits |-> v, moved |-> TRUE, marks |-> m]
      BY <1>1, <2>1 DEF RecordsOK
  <2>3. v \in 0 .. MaxVisits /\ m \subseteq Marks
      BY <2>1, BoundsAssumption DEF TypeOK, Marks
  <2> QED
      BY <1>3, <2>1, <2>2, <2>3 DEF TypeOK
<1>6. CASE \E restored \in BOOLEAN : Revisit(restored)
  <2>r. PICK r \in BOOLEAN : Revisit(r)
      BY <1>6
  <2>1. PICK v, m : /\ v = ghost.visits + 1 /\ ghost.visits < MaxVisits
                    /\ m = ghost.marks \cup (IF r THEN {} ELSE {"lost"})
                    /\ ghost' = [ghost EXCEPT !.visits = v, !.moved = FALSE, !.marks = m]
      BY <2>r DEF Revisit
  <2>2. ghost' = [calls |-> ghost.calls, visits |-> v, moved |-> FALSE, marks |-> m]
      BY <1>1, <2>1 DEF RecordsOK
  <2>3. v \in 0 .. MaxVisits /\ m \subseteq Marks
      BY <2>1, BoundsAssumption DEF TypeOK, Marks
  <2>4. state' = field' /\ (field' = field \/ field' = NoState)
      BY <2>r DEF Revisit
  <2>5. app' = [app EXCEPT !.shows = NoId] /\ page' = NewPage(Current)
      BY <2>r DEF Revisit
  <2>6. app'.shows = NoId
      BY <1>1, <2>5 DEF RecordsOK
  <2>7. state'.stack \in Seq(Ids) /\ field'.stack \in Seq(Ids)
    <3>1. NoState.stack \in Seq(Ids)
        BY DEF NoState
    <3>2. field.stack \in Seq(Ids)
        BY DEF TypeOK
    <3> QED
        BY <2>4, <3>1, <3>2
  <2> HIDE DEF Current
  <2> QED
      BY <1>2, <1>3, <2>2, <2>3, <2>5, <2>6, <2>7 DEF TypeOK, NewPage, AnyId
<1> QED
    BY <1>4, <1>5, <1>6

\* Every variable has its type, for any ids: the stack that addHistoryEntry pops and
\* pushes, and that is restored from the field, holds ids of states only, never the
\* address without one.
THEOREM TypeCorrect == Spec => []TypeOK
<1>1. ASSUME IInv, TypeOK, IInv', [Next]_vars PROVE TypeOK'
  <2>1. EntriesOK'
      BY <1>1 DEF IInv
  <2>2. CASE UNCHANGED vars
      BY <1>1, <2>2 DEF TypeOK, vars
  <2>3. CASE Next
    <3>1. CASE \E id \in Ids : AddHistoryEntry(id)
        BY <1>1, <2>1, <3>1, EntryKeepsTypes
    <3> QED
        BY <1>1, <2>1, <2>3, <3>1, CallbacksKeepTypes, UserKeepsTypes DEF Next
  <2> QED
      BY <1>1, <2>2, <2>3
<1> QED
    BY IInvAlways, TypeHoldsAtFirst, <1>1, PTL DEF Spec

\* addHistoryEntry keeps the stack beside the entries of the browser, which it cannot
\* read: as long as no id comes twice, no address is typed and the field is restored,
\* there is data for exactly the states the user can return to.
THEOREM StackRunsAlong == Spec => []StackIsHistory
<1>1. IInv => StackIsHistory
  <2> SUFFICES ASSUME IInv, ghost.marks = {} PROVE StackIsHistory
      BY DEF StackIsHistory
  <2> DEFINE s == state.stack
             l == entries.list
  <2>1. /\ s \in Seq(AnyId) /\ l \in Seq(AnyId) /\ Len(l) = Len(s) + 1 /\ Len(s) \in Nat
        /\ \A i \in 1 .. Len(s) : s[i] = l[i + 1] /\ s[i] \in DOMAIN state.data
        /\ \A x \in DOMAIN state.data : \E i \in 1 .. Len(l) : x = l[i]
      BY DEF IInv, EntriesOK, Aligned
  <2> HIDE DEF s, l
  <2>2. l # <<>> /\ Tail(l) \in Seq(AnyId) /\ Len(Tail(l)) = Len(s)
        /\ \A i \in 1 .. Len(s) : Tail(l)[i] = l[i + 1]
      BY <2>1
  <2>3. s = Tail(l)
      BY <2>1, <2>2
  <2>4. DOMAIN s = 1 .. Len(s) /\ DOMAIN l = 1 .. Len(l)
      BY <2>1
  <2>5. ToSet(s) \subseteq DOMAIN state.data /\ DOMAIN state.data \subseteq ToSet(l)
      BY <2>1, <2>4 DEF ToSet
  <2> QED
      BY <2>3, <2>5 DEF StackIsHistory, s, l
<1> QED
    BY <1>1, IInvAlways, PTL

\* $w saves every change: what the browser restores is the data last given for each state.
THEOREM NothingStaleRestored == Spec => []SavedIsLatest
<1>1. IInv => SavedIsLatest
    BY DEF IInv
<1> QED
    BY <1>1, IInvAlways, PTL

\* After the timer has looked, or addHistoryEntry was called, the application shows the
\* state of the address, with the two exceptions of $ad.
THEOREM ApplicationFollows == Spec => []AppFollows
<1>1. IInv => AppFollows
    BY DEF IInv
<1> QED
    BY <1>1, IInvAlways, PTL

\* The application is called back only after the user went elsewhere.
THEOREM NoCallbackForOwnStates == Spec => []OwnStatesSilent
<1>1. IInv => OwnStatesSilent
    BY DEF IInv
<1> QED
    BY <1>1, IInvAlways, PTL
================================================================================
