-------------------------------- MODULE PageHistory --------------------------------
(*******************************************************************************)
(* isc.History, which lets the application put states of its own into the          *)
(* browser's history: each state has an id, the part of the address after '#', and *)
(* data kept beside it, and a callback tells the application the state to return   *)
(* to. The browsers are those with a timer that looks at the address (not IE).     *)
(*                                                                             *)
(* The page can be left and come back to; its form field, in which the history's   *)
(* state is saved, is then restored by the browser, or not. The data of a state is *)
(* told apart by the number of the call that gave it.                             *)
(*******************************************************************************)
EXTENDS Naturals, FiniteSets, SequencesExt

CONSTANTS Ids,       \* the ids of states
          NoId,      \* an address without '#': null, and undefined before any callback
          MaxCalls,  \* bound: calls of addHistoryEntry
          MaxVisits  \* bound: how often the page is left, and addresses typed

ASSUME IdsAssumption == NoId \notin Ids
ASSUME BoundsAssumption == MaxCalls \in Nat /\ MaxVisits \in Nat

VARIABLES entries,  \* the browser's entries for the page, and where it is
          page,     \* what a new load of the page loses
          state,    \* historyState: the stack of ids and the data of each id
          field,    \* the form field the state is saved in
          app,      \* what the application shows, and the data it last saved of each id
          ghost     \* not of the code: calls and visits so far, and what happened

vars == <<entries, page, state, field, app, ghost>>

AnyId == Ids \cup {NoId}
NoData == [i \in {} |-> 0]
NoState == [stack |-> <<>>, data |-> NoData]

\* loaded: SA_Page.isLoaded; callback: the one registered, or "none", or "data" when it
\* requires data; seen: the address last looked at; told, active: the id and the fact of
\* the last callback; caught: whether the first callback after the load was considered
NewPage(id) == [loaded |-> FALSE, callback |-> "none", seen |-> id, told |-> NoId,
                active |-> FALSE]

\* The id of the address shown
Current == entries.list[entries.at]

--------------------------------------------------------------------------------
Init ==
    /\ \E id \in AnyId : entries = [list |-> <<id>>, at |-> 1] /\ page = NewPage(id)
    /\ state = NoState
    /\ field = NoState
    /\ app = [shows |-> NoId, latest |-> NoData]
    /\ ghost = [calls |-> 0, visits |-> 0, moved |-> FALSE, marks |-> {}]

\* moved: the user went to another entry since the address was last looked at. Besides,
\* what can have happened: an id was entered that the history already had, an
\* address was typed, the state was not restored
Marks == {"repeated", "typed", "lost"}

--------------------------------------------------------------------------------
(* The application *)

\* registerCallback. After the load the application asks for the current id as well
\* (getCurrentHistoryId), because the first callback is not fired then.
Register(requires) ==
    /\ page.callback = "none"
    /\ page' = [page EXCEPT !.callback = IF requires THEN "data" ELSE "plain"]
    /\ app' = IF page.loaded THEN [app EXCEPT !.shows = Current] ELSE app
    /\ UNCHANGED <<entries, state, field, ghost>>

\* Mutant: the ids above the current one stay
PoppedNone(stack, id) == stack

\* The stack without the ids above the current one, all of them if it is not there
Popped(stack, id) ==
    IF \E i \in DOMAIN stack : stack[i] = id
    THEN SubSeq(stack, 1, CHOOSE i \in DOMAIN stack :
                            stack[i] = id /\ \A j \in i + 1 .. Len(stack) : stack[j] # id)
    ELSE <<>>

\* The data left when the ids from position n + 1 of the stack are popped
DataLeft(s, n) ==
    [i \in DOMAIN s.data \ {s.stack[j] : j \in n + 1 .. Len(s.stack)} |-> s.data[i]]

With(data, id, d) == [i \in DOMAIN data \cup {id} |-> IF i = id THEN d ELSE data[i]]

\* The browser goes to an address by a new entry, which ends the ones ahead
Visited(e, id) == [list |-> Append(SubSeq(e.list, 1, e.at), id), at |-> e.at + 1]

\* Mutant: the history is saved before it changes
SavedBefore(s) == state

\* $w: the form field gets the state
Saved(s) == s

\* Mutant: the timer is left to find the new address
Unnoticed(id) == page

\* $z = location.href: the timer will not take the new address for a move of the user
Noticed(id) == [page EXCEPT !.seen = id]

\* addHistoryEntry: the application goes to a state. In the state it is in, only the
\* data changes. Each time the history is saved.
AddHistoryEntry(id) ==
    LET d == ghost.calls + 1
        stack == Popped(state.stack, Current)
        data == DataLeft(state, Len(stack))
    IN /\ page.loaded /\ ghost.calls < MaxCalls
       /\ state' = IF id = Current THEN [state EXCEPT !.data = With(@, id, d)]
                   ELSE [stack |-> Append(stack, id), data |-> With(data, id, d)]
       /\ field' = Saved(state')
       /\ entries' = IF id = Current THEN entries ELSE Visited(entries, id)
       /\ page' = IF id = Current THEN page ELSE Noticed(id)
       /\ app' = [shows |-> id, latest |-> With(app.latest, id, d)]
       /\ ghost' = [ghost EXCEPT !.calls = d,
                      !.moved = IF id = Current THEN @ ELSE FALSE,
                      !.marks = @ \cup (IF id # Current /\ id \in ToSet(entries.list)
                                        THEN {"repeated"} ELSE {})]

--------------------------------------------------------------------------------
(* Callbacks *)

HaveHistoryState(id) == id \in DOMAIN state.data

\* Mutant: every callback after the first is taken for a repetition
WillFireOnce(id) == ~page.active /\ page.callback # "none"
                    /\ (HaveHistoryState(id) \/ page.callback # "data")

\* Whether a callback is fired for the id: not twice in a row for the same one
WillFire(id) == /\ page.told = id => ~page.active
                /\ page.callback # "none"
                /\ HaveHistoryState(id) \/ page.callback # "data"

\* $ad: the callback for an id, by which the application goes to the state. It may
\* throw, and then neither the application moves nor what follows the call is done.
FireCallback(id, p, throws) ==
    /\ throws => WillFire(id)
    /\ page' = IF WillFire(id)
               THEN [(IF throws THEN page ELSE p) EXCEPT !.active = TRUE, !.told = id]
               ELSE [p EXCEPT !.active = TRUE]
    /\ app' = IF WillFire(id) /\ ~throws THEN [app EXCEPT !.shows = id] ELSE app

\* The page is loaded: SA_Page calls $ab, which fires the first callback
PageLoad ==
    /\ ~page.loaded
    /\ IF page.callback = "none"
       THEN page' = [page EXCEPT !.loaded = TRUE] /\ UNCHANGED app
       ELSE FireCallback(Current, [page EXCEPT !.loaded = TRUE], FALSE)
    /\ UNCHANGED <<entries, state, field, ghost>>

\* $9: the timer looks at the address
Poll(throws) ==
    /\ page.seen # Current
    /\ FireCallback(Current, [page EXCEPT !.seen = Current], throws)
    /\ ghost' = [ghost EXCEPT !.moved = throws]
    /\ UNCHANGED <<entries, state, field>>

--------------------------------------------------------------------------------
(* The user *)

\* The back and forward buttons, and the history menu
Go(i) ==
    /\ i \in DOMAIN entries.list /\ i # entries.at
    /\ entries' = [entries EXCEPT !.at = i]
    /\ ghost' = [ghost EXCEPT !.moved = TRUE]
    /\ UNCHANGED <<page, state, field, app>>

\* An address with another id is typed or comes from a bookmark
Type(id) ==
    /\ ghost.visits < MaxVisits
    /\ id # Current
    /\ entries' = Visited(entries, id)
    /\ ghost' = [ghost EXCEPT !.visits = @ + 1, !.moved = TRUE, !.marks = @ \cup {"typed"}]
    /\ UNCHANGED <<page, state, field, app>>

\* $5: the page is left and comes back, or is loaded again
Revisit(restored) ==
    /\ ghost.visits < MaxVisits
    /\ page' = NewPage(Current)
    /\ field' = IF restored THEN field ELSE NoState
    /\ state' = field'
    /\ app' = [app EXCEPT !.shows = NoId]
    /\ ghost' = [ghost EXCEPT !.visits = @ + 1, !.moved = FALSE,
                              !.marks = @ \cup (IF restored THEN {} ELSE {"lost"})]
    /\ UNCHANGED entries

Next ==
    \/ \E requires \in BOOLEAN : Register(requires)
    \/ \E id \in Ids : AddHistoryEntry(id)
    \/ PageLoad
    \/ \E throws \in BOOLEAN : Poll(throws)
    \/ \E i \in DOMAIN entries.list : Go(i)
    \/ \E id \in Ids : Type(id)
    \/ \E restored \in BOOLEAN : Revisit(restored)

Spec == Init /\ [][Next]_vars

--------------------------------------------------------------------------------
(* What has to hold *)

\* Every variable has its type.
TypeOK ==
    /\ entries.list \in Seq(AnyId) /\ entries.at \in DOMAIN entries.list
    /\ page.loaded \in BOOLEAN /\ page.active \in BOOLEAN
    /\ page.callback \in {"none", "plain", "data"}
    /\ page.seen \in AnyId /\ page.told \in AnyId
    /\ state.stack \in Seq(Ids) /\ field.stack \in Seq(Ids)
    /\ app.shows \in AnyId
    /\ ghost.calls \in 0 .. MaxCalls /\ ghost.visits \in 0 .. MaxVisits
    /\ ghost.moved \in BOOLEAN /\ ghost.marks \subseteq Marks

\* The stack runs along with the browser's entries, which the code cannot read: each
\* state the user can still return to has its data, and no other has. An id that comes
\* twice, a typed address and a field that is not restored break it (addHistoryEntry).
StackIsHistory ==
    ghost.marks = {} =>
        /\ state.stack = Tail(entries.list)
        /\ ToSet(Tail(entries.list)) \subseteq DOMAIN state.data
        /\ DOMAIN state.data \subseteq ToSet(entries.list)

\* What a visit restores is the data last given for each state, whatever it was
\* interrupted by.
SavedIsLatest ==
    /\ field = state
    /\ \A id \in DOMAIN state.data : id \in DOMAIN app.latest /\ state.data[id] = app.latest[id]

\* Once the address was looked at since the user last moved, the application shows its
\* state; moves between two looks may cancel out and are not noticed. Two cases are lost:
\* the state of the last callback, if the application has left it by itself since ($ad
\* takes the callback for a repetition), and one whose data is required but gone.
AppFollows ==
    ~ghost.moved /\ page.loaded /\ page.callback # "none" =>
        \/ app.shows = Current
        \/ page.active /\ page.told = Current
        \/ page.callback = "data" /\ ~HaveHistoryState(Current)

\* The address differs from the one last looked at only after the user went elsewhere:
\* the application is not called back for a state it entered by itself.
OwnStatesSilent == ~ghost.moved => page.seen = Current

================================================================================
