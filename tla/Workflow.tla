--------------------------------- MODULE Workflow ---------------------------------
(*******************************************************************************)
(* isc.Process, which executes the tasks of a workflow one after the other. It       *)
(* finds the next task with a stack of the places it has reached in the lists of    *)
(* elements, and leaves its loop whenever a task is to be completed by a callback:  *)
(* the answer of a data source, a script, a user. The callback calls start again.   *)
(*                                                                             *)
(* The loop is not interrupted. A definition has no empty sequence and no element     *)
(* with both sequences and elements.                                             *)
(*******************************************************************************)
EXTENDS Naturals, FiniteSets, SequencesExt

CONSTANTS Process, None, End,
          Definitions, \* the processes, as in ProcessFlow
          MaxRestarts  \* bound: calls of start while the process is under way

ASSUME NamesAssumption == None # End /\ Process \notin {None, End}

\* A definition is a tree: each element is at one place of one list, and going down, or
\* up, comes to an end. The names of no element and of the end are no elements.
IsTree(d) ==
    LET E == DOMAIN d.kind
        Holds(p, i, e) == i \in DOMAIN d.kids[p] /\ d.kids[p][i] = e
    IN /\ {Process, None, End} \cap E = {}
       /\ DOMAIN d.kids = E \cup {Process}
       /\ \A p \in DOMAIN d.kids : d.kids[p] \in Seq(E)
       /\ \A e \in E : \E p \in DOMAIN d.kids : \E i \in DOMAIN d.kids[p] :
             /\ Holds(p, i, e)
             /\ \A q \in DOMAIN d.kids : \A j \in DOMAIN d.kids[q] :
                   Holds(q, j, e) => q = p /\ j = i
       /\ \A S \in SUBSET E : S # {} =>
             /\ \E e \in S : \A i \in DOMAIN d.kids[e] : d.kids[e][i] \notin S
             /\ \E e \in S : \A p \in S : \A i \in DOMAIN d.kids[p] : d.kids[p][i] # e

ASSUME DefinitionsAssumption == \A d \in Definitions : IsTree(d)
ASSUME BoundsAssumption == MaxRestarts \in Nat

VARIABLES def,     \* the process; it does not change
          stack,   \* executionStack
          start,   \* startElement
          running, \* whether the loop is on
          waiting, \* how many callbacks each task waits for
          ghost    \* not of the code: the task executed last and what happened so far

vars == <<def, stack, start, running, waiting, ghost>>

--------------------------------------------------------------------------------
Elements == DOMAIN def.kind
IsTask(e) == def.kids[e] = <<>>

\* The element a frame of the stack points to
ElementOf(frame) == def.kids[frame.el][frame.index]
Top(s) == ElementOf(Last(s))
Under(e, i) == [el |-> e, index |-> i]

\* Mutant: only the last list is put on the stack
GotoFlat(id) ==
    LET Holds(p, i) == i \in DOMAIN def.kids[p] /\ def.kids[p][i] = id
        p == CHOOSE p \in Elements \cup {Process} : \E i \in DOMAIN def.kids[p] : Holds(p, i)
    IN IF id \in Elements THEN <<Under(p, CHOOSE i \in DOMAIN def.kids[p] : Holds(p, i))>> ELSE <<>>

\* $699: the stack of places through which an element is found, none if it is not there
Goto(id) ==
    LET Holds(p, e) == \E i \in DOMAIN def.kids[p] : def.kids[p][i] = e
        path[e \in Elements \cup {Process}] ==
          IF e = Process THEN <<>>
          ELSE LET p == CHOOSE p \in Elements \cup {Process} : Holds(p, e)
                   i == CHOOSE i \in DOMAIN def.kids[p] : def.kids[p][i] = e
               IN Append(path[p], Under(p, i))
    IN IF id \in Elements THEN path[id] ELSE <<>>

\* $70a: from the end of a sequence back to the place in the one around it, and there
\* one on. In the lists of the process and in sequences there is no next element.
IsInSequence(frame) == frame.el # Process /\ frame.el \notin def.sequenced
IsLast(frame) == frame.index = Len(def.kids[frame.el])
Unwound(s) ==
    SubSeq(s, 1, CHOOSE n \in DOMAIN s :
                   /\ ~(IsInSequence(s[n]) /\ IsLast(s[n]))
                   /\ \A m \in n + 1 .. Len(s) : IsInSequence(s[m]) /\ IsLast(s[m]))

NoNext(s) == [found |-> FALSE, stack |-> s]
At(s) == [found |-> s # <<>>, stack |-> s]

\* Mutant: the end of a sequence ends the process
FindInSequence(s) ==
    IF IsInSequence(Last(s)) /\ ~IsLast(Last(s)) THEN At([s EXCEPT ![Len(s)].index = @ + 1])
    ELSE NoNext(s)

\* Mutant: the index does not move on
FindStill(s) == IF IsInSequence(Last(s)) /\ ~IsLast(Last(s)) THEN At(s) ELSE NoNext(s)

\* $70a, when the element at the top names no next one
FindNextElement(s) ==
    LET t == Unwound(s)
    IN IF IsInSequence(Last(t)) THEN At([t EXCEPT ![Len(t)].index = @ + 1]) ELSE NoNext(t)

\* $677: the stack at the next element
FindNext(s, first) ==
    IF s # <<>>
    THEN IF def.next[Top(s)] # None THEN At(Goto(def.next[Top(s)])) ELSE FindNextElement(s)
    ELSE IF first # None THEN At(Goto(first))
    ELSE IF def.kids[Process] # <<>> THEN At(<<Under(Process, 1)>>)
    ELSE NoNext(s)

\* $698: down to the first task of the element at the top
FirstTaskStack(s) ==
    LET down[e \in Elements] ==
          IF IsTask(e) THEN <<>> ELSE <<Under(e, 1)>> \o down[def.kids[e][1]]
    IN s \o down[Top(s)]

--------------------------------------------------------------------------------
Init ==
    /\ def \in Definitions
    /\ stack = <<>>
    /\ start = None
    /\ running = FALSE
    /\ waiting = [e \in {} |-> 0]
    /\ ghost = [at |-> None, finished |-> 0, restarts |-> 0, hung |-> FALSE,
                started |-> FALSE]

Waits(e) == e \in DOMAIN waiting /\ waiting[e] > 0
IsWaiting == \E e \in DOMAIN waiting : Waits(e)
Add(e, n) == [x \in DOMAIN waiting \cup {e} |->
                (IF x \in DOMAIN waiting THEN waiting[x] ELSE 0) + (IF x = e THEN n ELSE 0)]

\* start, called by the application: at first, and again while the process waits
Start ==
    /\ ~running
    /\ ghost.started => ghost.restarts < MaxRestarts /\ ghost.finished = 0
    /\ running' = TRUE
    /\ ghost' = [ghost EXCEPT !.started = TRUE, !.restarts = @ + (IF ghost.started THEN 1 ELSE 0)]
    /\ UNCHANGED <<def, stack, start, waiting>>

Found == FindNext(stack, start)
Reached == FirstTaskStack(Found.stack)
Task == Top(Reached)

Executed(e) == [ghost EXCEPT !.at = e]

\* One turn of the loop: a task that is done at once. So is a script that throws, unless
\* it is asynchronous, and an asynchronous one that calls back before it returns.
ExecuteNow ==
    /\ running /\ Found.found
    /\ def.kind[Task] \in {"script", "async"}
    /\ stack' = Reached
    /\ ghost' = Executed(Task)
    /\ UNCHANGED <<def, start, running, waiting>>

\* Mutant: a gateway does not return true
ExecuteGateStops(exit) ==
    /\ running /\ Found.found
    /\ def.kind[Task] = "gate" /\ exit \in def.exits[Task]
    /\ stack' = IF exit = None THEN Reached ELSE <<>>
    /\ start' = IF exit = None THEN start ELSE exit
    /\ running' = FALSE
    /\ ghost' = Executed(Task)
    /\ UNCHANGED <<def, waiting>>

\* A gateway: setNextElement for the exit its criteria choose, or nothing
ExecuteGate(exit) ==
    /\ running /\ Found.found
    /\ def.kind[Task] = "gate" /\ exit \in def.exits[Task]
    /\ stack' = IF exit = None THEN Reached ELSE <<>>
    /\ start' = IF exit = None THEN start ELSE exit
    /\ ghost' = Executed(Task)
    /\ UNCHANGED <<def, running, waiting>>

\* A task that is completed later. A user's task is completed once at most, however
\* often it was executed: it keeps the process it belongs to until then.
ExecuteLater ==
    /\ running /\ Found.found
    /\ def.kind[Task] \in {"service", "async", "user"}
    /\ stack' = Reached
    /\ waiting' = IF def.kind[Task] = "user" /\ Waits(Task) THEN waiting ELSE Add(Task, 1)
    /\ running' = FALSE
    /\ ghost' = Executed(Task)
    /\ UNCHANGED <<def, start>>

\* An asynchronous script throws before it has told anyone to call back
ExecuteInVain ==
    /\ running /\ Found.found
    /\ def.kind[Task] = "async"
    /\ stack' = Reached
    /\ running' = FALSE
    /\ ghost' = [Executed(Task) EXCEPT !.hung = TRUE]
    /\ UNCHANGED <<def, start, waiting>>

\* There is no next element
Finish ==
    /\ running /\ ~Found.found
    /\ stack' = Found.stack
    /\ running' = FALSE
    /\ ghost' = [ghost EXCEPT !.finished = @ + 1]
    /\ UNCHANGED <<def, start, waiting>>

\* The callback of a task: start
Complete(e) ==
    /\ ~running /\ Waits(e)
    /\ waiting' = Add(e, -1)
    /\ running' = TRUE
    /\ UNCHANGED <<def, stack, start, ghost>>

\* Mutant: a task that is cancelled can be completed all the same
CancelKept(e, exit) ==
    /\ ~running /\ Waits(e)
    /\ def.kind[e] = "user" /\ exit \in def.exits[e]
    /\ stack' = <<>>
    /\ start' = exit
    /\ running' = TRUE
    /\ UNCHANGED <<def, waiting, ghost>>

\* cancelEditing: setNextElement and start
CancelEditing(e, exit) ==
    /\ ~running /\ Waits(e)
    /\ def.kind[e] = "user" /\ exit \in def.exits[e]
    /\ waiting' = Add(e, -1)
    /\ stack' = <<>>
    /\ start' = exit
    /\ running' = TRUE
    /\ UNCHANGED <<def, ghost>>

--------------------------------------------------------------------------------
Next ==
    \/ Start
    \/ ExecuteNow
    \/ \E exit \in UNION {def.exits[e] : e \in Elements} : ExecuteGate(exit)
    \/ ExecuteLater
    \/ ExecuteInVain
    \/ Finish
    \/ \E e \in DOMAIN waiting : Complete(e)
    \/ \E e \in DOMAIN waiting : \E exit \in def.exits[e] : CancelEditing(e, exit)

\* The loop is not left before it is done
Fairness == WF_vars(running /\ Next)
Spec == Init /\ [][Next]_vars /\ Fairness

--------------------------------------------------------------------------------
(* What has to hold *)

\* Every variable has its type; each place on the stack is below the one before it.
TypeOK ==
    /\ def \in Definitions
    /\ \A n \in DOMAIN stack : /\ stack[n].el \in Elements \cup {Process}
                              /\ stack[n].index \in DOMAIN def.kids[stack[n].el]
                              /\ n > 1 => ElementOf(stack[n - 1]) = stack[n].el
    /\ stack # <<>> => stack[1].el = Process
    /\ running \in BOOLEAN
    /\ DOMAIN waiting \subseteq Elements
    /\ \A e \in DOMAIN waiting : waiting[e] \in Nat
    /\ ghost.at \in Elements \cup {None} /\ ghost.finished \in Nat
    /\ ghost.restarts \in 0 .. MaxRestarts /\ ghost.hung \in BOOLEAN

\* Unless start is called while the process waits, one task is under way at most, the one
\* executed last, and none once the process has finished, which it does once.
OneAtATime ==
    ghost.restarts = 0 =>
        /\ \A e \in DOMAIN waiting : Waits(e) => waiting[e] = 1 /\ e = ghost.at /\ ~running
        /\ ghost.finished <= 1 /\ (ghost.finished = 1 => ~running /\ ~IsWaiting)

\* A process that has left its loop before the end is waiting for somebody, unless an
\* asynchronous script has thrown: nothing else can make it go on.
SomebodyCallsBack ==
    ghost.started /\ ~running /\ ghost.finished = 0 /\ ~ghost.hung => IsWaiting

\* The stack finds the task that the definition says, for every way to leave a task,
\* until the process finishes, and finishes only where the definition ends (the module
\* ProcessFlow).
Flow == INSTANCE ProcessFlow WITH
    at <- IF ghost.finished > 0 THEN End ELSE ghost.at,
    then <- IF ghost.finished > 0 \/ ~Found.found THEN End ELSE Task
FollowsDefinition == Flow!Spec

\* The loop comes to a task that waits or to the end: each circle of the definition has
\* such a task, and the search for the next element does not go round in it.
LoopEnds == running ~> ~running

================================================================================
