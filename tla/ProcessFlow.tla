-------------------------------- MODULE ProcessFlow --------------------------------
(*******************************************************************************)
(* What a workflow's definition says of the order of its tasks: a task is followed *)
(* by the element it designates, or else by the next one of the sequence it is in, *)
(* where the end of a sequence is the end of the sequence around it as well.       *)
(*******************************************************************************)
EXTENDS Naturals, Sequences

CONSTANTS Process, \* the process itself, the root of the elements
          None,    \* no element
          End

CONSTANT Definitions \* the processes

VARIABLES def,  \* the definition: the elements below each element (kids), those whose
                \* list is called sequences (sequenced), and of each element its kind,
                \* nextElement (next) and the other ones it may designate (exits)
          at,   \* the task executed last
          then  \* the task to execute next

vars == <<def, at, then>>

Elements(d) == DOMAIN d.kind

Parent(d, e) == CHOOSE p \in Elements(d) \cup {Process} : \E i \in DOMAIN d.kids[p] : d.kids[p][i] = e
Index(d, e) == CHOOSE i \in DOMAIN d.kids[Parent(d, e)] : d.kids[Parent(d, e)][i] = e

\* The first task of an element
FirstTask(d, element) ==
    LET first[e \in Elements(d)] == IF d.kids[e] = <<>> THEN e ELSE first[d.kids[e][1]]
    IN first[element]

\* The task designated by an element's name; a name nobody has is the end
Designated(d, e) == IF e \in Elements(d) THEN FirstTask(d, e) ELSE End

\* What follows an element in its sequence. The lists of the process, and those called
\* sequences, are no sequences: nothing follows there.
Following(d, element) ==
    LET following[e \in Elements(d)] ==
          LET p == Parent(d, e)
          IN IF p = Process \/ p \in d.sequenced THEN End
             ELSE IF Index(d, e) < Len(d.kids[p]) THEN FirstTask(d, d.kids[p][Index(d, e) + 1])
             ELSE following[p]
    IN following[element]

\* The task after e if nothing else is designated
Normal(d, e) == IF d.next[e] # None THEN Designated(d, d.next[e]) ELSE Following(d, e)

Beginning(d) == IF d.kids[Process] = <<>> THEN End ELSE FirstTask(d, d.kids[Process][1])

\* What can follow e: a gateway designates an exit or none; a user's task that is
\* cancelled designates its exit, or the beginning if it has none
Successors(d, e) ==
    CASE d.kind[e] = "gate" -> {IF x = None THEN Normal(d, e) ELSE Designated(d, x) : x \in d.exits[e]}
      [] d.kind[e] = "user" -> {Normal(d, e)} \cup
              {IF x = None THEN Beginning(d) ELSE Designated(d, x) : x \in d.exits[e]}
      [] OTHER -> {Normal(d, e)}

Init == def \in Definitions /\ at = None /\ then = Beginning(def)

\* The next task is executed, and decides what follows it
Execute ==
    /\ then # End
    /\ at' = then
    /\ then' \in Successors(def, then)
    /\ UNCHANGED def

\* A user's task is cancelled
Cancel ==
    /\ at # End
    /\ \E e \in Elements(def) : def.kind[e] = "user" /\ then' \in Successors(def, e)
    /\ UNCHANGED <<def, at>>

Finish == then = End /\ at # End /\ at' = End /\ UNCHANGED <<def, then>>

Next == Execute \/ Cancel \/ Finish

Spec == Init /\ [][Next]_vars
================================================================================
