---------------------------------- MODULE ObjectStreamProofs ----------------------------------
(*******************************************************************************)
(* Proofs about ObjectStream, for every object graph: what the writer keeps,    *)
(* what it writes told as a run of moments, and the reader going through that   *)
(* run.  ReaderInv is the inductive invariant: while it reads, the reader       *)
(* matches one of the writer's moments, call by call and index by index.        *)
(*******************************************************************************)
EXTENDS ObjectStream, WellFoundedInduction, TLAPS

\* An index that is looked up is one of the sequence's, and finds what was looked up.
LEMMA IndexOfElement ==
    ASSUME NEW S, NEW seq \in Seq(S), NEW x \in Elements(seq)
    PROVE  IndexOf(seq, x) \in 1 .. Len(seq) /\ seq[IndexOf(seq, x)] = x
BY DEF IndexOf, Elements

\* addString keeps the table a table and makes room for the string.
LEMMA StringIsThere ==
    ASSUME NEW S, NEW table \in Seq(S), NEW s \in S
    PROVE  WithString(table, s) \in Seq(S) /\ s \in Elements(WithString(table, s))
BY DEF WithString, Elements

\* What Append does to the indices and to the elements
LEMMA Appended ==
    ASSUME NEW S, NEW seq \in Seq(S), NEW x \in S
    PROVE  /\ Append(seq, x) \in Seq(S) /\ Append(seq, x) # <<>>
           /\ Len(Append(seq, x)) = Len(seq) + 1 /\ DOMAIN Append(seq, x) = 1 .. Len(seq) + 1
           /\ \A k \in DOMAIN seq : Append(seq, x)[k] = seq[k]
           /\ Append(seq, x)[Len(seq) + 1] = x
           /\ Elements(Append(seq, x)) = Elements(seq) \cup {x}
<1>1. /\ Append(seq, x) \in Seq(S) /\ Append(seq, x) # <<>>
      /\ Len(Append(seq, x)) = Len(seq) + 1 /\ DOMAIN Append(seq, x) = 1 .. Len(seq) + 1
      /\ \A k \in DOMAIN seq : Append(seq, x)[k] = seq[k]
      /\ Append(seq, x)[Len(seq) + 1] = x
    OBVIOUS
<1> DEFINE longer == Append(seq, x)
<1> HIDE DEF longer
<1>2. DOMAIN longer = DOMAIN seq \cup {Len(seq) + 1} /\ \A k \in DOMAIN seq : longer[k] = seq[k]
    BY <1>1 DEF longer
<1>3. longer[Len(seq) + 1] = x
    BY <1>1 DEF longer
<1>4. Elements(longer) = Elements(seq) \cup {x}
    BY <1>2, <1>3 DEF Elements
<1> QED BY <1>1, <1>4 DEF longer

\* The innermost call, and what is left when it returns
LEMMA TopAndPop ==
    ASSUME NEW S, NEW stack \in Seq(S), stack # <<>>
    PROVE  /\ Len(stack) \in Nat \ {0} /\ Top(stack) \in S
           /\ Pop(stack) \in Seq(S) /\ Len(Pop(stack)) = Len(stack) - 1
           /\ \A d \in DOMAIN Pop(stack) : d \in DOMAIN stack /\ Pop(stack)[d] = stack[d]
<1>1. Len(stack) \in Nat \ {0} /\ DOMAIN stack = 1 .. Len(stack)
    OBVIOUS
<1> QED BY <1>1 DEF Top, Pop

Frames == [obj : Objects, next : Nat \ {0}]

\* What the steps of the writer keep: the objects whose fields are being written are all
\* in the map already, each once, and none is being written twice.
WriterInv ==
    /\ WriterTypeOK
    /\ \A k, l \in DOMAIN objectMap : k # l => objectMap[k] # objectMap[l]
    /\ \A d \in DOMAIN wstack : wstack[d].obj \in Elements(objectMap)
    /\ tokens = <<>> => wstack = <<>> /\ objectMap = <<>>
    /\ NeverNested

\* The graph never changes and the value to write is one of its items.
LEMMA ToWriteIsItem ==
    ASSUME WriterInv, MoreToWrite
    PROVE  ToWrite \in Items
<1>1. CASE tokens = <<>>
    BY <1>1, ValueAssumption DEF ToWrite, Items
<1>2. CASE tokens # <<>>
  <2>1. Top(wstack) \in Frames
      BY <1>2, TopAndPop DEF WriterInv, WriterTypeOK, MoreToWrite, Frames
  <2> DEFINE items == graph[Top(wstack).obj].items
             j == Top(wstack).next
  <2>2. items \in Seq(Items) /\ j \in Nat \ {0} /\ j <= Len(items)
      BY <1>2, <2>1 DEF WriterInv, WriterTypeOK, MoreToWrite, Frames
  <2>3. items[j] \in Items
      <3> HIDE DEF items, j
      <3> QED BY <2>2
  <2> QED BY <1>2, <2>3 DEF ToWrite
<1> QED BY <1>1, <1>2

\* Going on after a value changes which item is next, and nothing else of a call.
LEMMA ResumedKeeps ==
    ASSUME WriterInv
    PROVE  /\ Resumed(wstack) \in Seq(Frames)
           /\ Len(Resumed(wstack)) = Len(wstack)
           /\ \A d \in DOMAIN wstack : Resumed(wstack)[d].obj = wstack[d].obj
<1>1. wstack \in Seq(Frames)
    BY DEF WriterInv, WriterTypeOK, Frames
<1>2. CASE wstack = <<>>
    BY <1>1, <1>2 DEF Resumed
<1>3. CASE wstack # <<>>
  <2> DEFINE n == Len(wstack)
             top == [wstack[n] EXCEPT !.next = wstack[n].next + 1]
  <2>1. n \in Nat \ {0} /\ DOMAIN wstack = 1 .. n /\ wstack[n] \in Frames
      BY <1>1, <1>3, TopAndPop DEF Top
  <2>2. Resumed(wstack) = [wstack EXCEPT ![n] = top]
      BY <1>3, <2>1 DEF Resumed
  <2>3. top \in Frames /\ top.obj = wstack[n].obj
      BY <2>1 DEF Frames
  <2> HIDE DEF top
  <2> QED BY <1>1, <2>1, <2>2, <2>3
<1> QED BY <1>2, <1>3

\* The writer begins with nothing written.
LEMMA InitWriter == Init => WriterInv
BY GraphAssumption DEF Init, WriterInv, WriterTypeOK, NeverNested, Elements, Ends

\* A step that writes a value without opening an object.
LEMMA TokenWritten ==
    ASSUME WriterInv, UNCHANGED <<graph, status, objectMap>>,
           NEW n \in Int, n >= -Len(objectMap), tokens' = Append(tokens, n),
           stringTable' \in Seq(Strings \cup Types), wstack' = Resumed(wstack)
    PROVE  WriterInv' /\ tokens' # <<>>
<1>1. /\ wstack' \in Seq(Frames)
      /\ DOMAIN wstack' = DOMAIN wstack
      /\ \A d \in DOMAIN wstack' : wstack'[d].obj = wstack[d].obj
    BY ResumedKeeps DEF WriterInv, WriterTypeOK
<1>2. tokens' \in Seq(Int) /\ tokens' # <<>>
      /\ \A k \in DOMAIN tokens' : tokens'[k] >= -Len(objectMap)
  <2>1. tokens \in Seq(Int) /\ DOMAIN tokens = 1 .. Len(tokens) /\ Len(tokens) \in Nat
        /\ \A k \in DOMAIN tokens : tokens[k] >= -Len(objectMap)
      BY DEF WriterInv, WriterTypeOK
  <2>2. /\ tokens' \in Seq(Int) /\ tokens' # <<>>
        /\ DOMAIN tokens' = 1 .. Len(tokens) + 1
        /\ \A k \in DOMAIN tokens : tokens'[k] = tokens[k]
        /\ tokens'[Len(tokens) + 1] = n
      BY <2>1, Appended
  <2>3. \A k \in DOMAIN tokens' : k \in DOMAIN tokens \/ k = Len(tokens) + 1
      BY <2>1, <2>2
  <2> QED BY <2>1, <2>2, <2>3
<1>3. WriterTypeOK'
    BY <1>1, <1>2 DEF WriterInv, WriterTypeOK, Frames
<1>4. NeverNested' /\ \A d \in DOMAIN wstack' : wstack'[d].obj \in Elements(objectMap)'
    BY <1>1 DEF WriterInv, NeverNested, Elements
<1> QED BY <1>2, <1>3, <1>4 DEF WriterInv

\* Each step of the writer keeps the invariant: a null,
LEMMA WriteNullKeeps == WriterInv /\ WriteNull => WriterInv'
<1> SUFFICES ASSUME WriterInv, WriteNull PROVE WriterInv'
    OBVIOUS
<1>1. 0 \in Int /\ 0 >= -Len(objectMap) /\ stringTable \in Seq(Strings \cup Types)
    BY DEF WriterInv, WriterTypeOK
<1>2. /\ UNCHANGED <<graph, status, objectMap, stringTable>>
      /\ tokens' = Append(tokens, 0) /\ wstack' = Resumed(wstack)
    BY DEF WriteNull
<1> QED BY <1>1, <1>2, TokenWritten

\* a string, which enters the table at most once,
LEMMA WriteStringKeeps == WriterInv /\ WriteString => WriterInv'
<1> SUFFICES ASSUME WriterInv, WriteString PROVE WriterInv'
    OBVIOUS
<1>1. stringTable' \in Seq(Strings \cup Types) /\ ToWrite \in Elements(stringTable')
  <2>1. stringTable \in Seq(Strings \cup Types) /\ ToWrite \in Strings \cup Types
      BY DEF WriteString, WriterInv, WriterTypeOK
  <2>2. stringTable' = WithString(stringTable, ToWrite)
      BY DEF WriteString
  <2> QED BY <2>1, <2>2, StringIsThere
<1>2. IndexOf(stringTable', ToWrite) \in Nat
    BY <1>1, IndexOfElement
<1>3. IndexOf(stringTable', ToWrite) >= -Len(objectMap)
    BY <1>2 DEF WriterInv, WriterTypeOK
<1> QED BY <1>1, <1>2, <1>3, TokenWritten DEF WriteString

\* an object met before, whose index is one of the map's,
LEMMA WriteBackReferenceKeeps == WriterInv /\ WriteBackReference => WriterInv'
<1> SUFFICES ASSUME WriterInv, WriteBackReference PROVE WriterInv'
    OBVIOUS
<1>1. IndexOf(objectMap, ToWrite) \in 1 .. Len(objectMap)
    BY IndexOfElement DEF WriteBackReference, WriterInv, WriterTypeOK
<1>2. -IndexOf(objectMap, ToWrite) \in Int /\ -IndexOf(objectMap, ToWrite) >= -Len(objectMap)
    BY <1>1 DEF WriterInv, WriterTypeOK
<1> QED BY <1>2, TokenWritten DEF WriteBackReference, WriterInv, WriterTypeOK

\* What announcing an object does: its index is new, its type is in the table.
LEMMA Announced ==
    ASSUME WriterInv, NEW o \in Objects, NEW tail \in Seq(Nat), Announce(o, tail),
           o \notin Elements(objectMap)
    PROVE  /\ stringTable' \in Seq(Strings \cup Types)
           /\ objectMap' \in Seq(Objects) /\ Elements(objectMap') = Elements(objectMap) \cup {o}
           /\ \A k, l \in DOMAIN objectMap' : k # l => objectMap'[k] # objectMap'[l]
           /\ tokens' \in Seq(Int) /\ tokens' # <<>>
           /\ \A k \in DOMAIN tokens' : tokens'[k] >= -Len(objectMap')
<1>1. stringTable' \in Seq(Strings \cup Types) /\ graph[o].type \in Elements(stringTable')
  <2>1. stringTable \in Seq(Strings \cup Types) /\ graph[o].type \in Strings \cup Types
      BY DEF WriterInv, WriterTypeOK
  <2>2. stringTable' = WithString(stringTable, graph[o].type)
      BY DEF Announce
  <2> QED BY <2>1, <2>2, StringIsThere
<1>2. IndexOf(stringTable', graph[o].type) \in Nat
    BY <1>1, IndexOfElement
<1>3. objectMap \in Seq(Objects) /\ objectMap' = Append(objectMap, o)
    BY DEF Announce, WriterInv, WriterTypeOK
<1>4. /\ objectMap' \in Seq(Objects) /\ Len(objectMap') = Len(objectMap) + 1
      /\ DOMAIN objectMap' = 1 .. Len(objectMap) + 1
      /\ \A k \in DOMAIN objectMap : objectMap'[k] = objectMap[k]
      /\ objectMap'[Len(objectMap) + 1] = o
      /\ Elements(objectMap') = Elements(objectMap) \cup {o}
    BY <1>3, Appended
<1>5. /\ tokens' \in Seq(Int) /\ tokens' # <<>>
      /\ \A k \in DOMAIN tokens' : tokens'[k] >= -Len(objectMap')
  <2> DEFINE n == IndexOf(stringTable', graph[o].type)
             head == Append(tokens, n)
  <2>0. tokens \in Seq(Int) /\ Len(objectMap) \in Nat
        /\ DOMAIN tokens = 1 .. Len(tokens) /\ Len(tokens) \in Nat
        /\ \A k \in DOMAIN tokens : tokens[k] >= -Len(objectMap)
      BY <1>3 DEF WriterInv, WriterTypeOK
  <2>1. tokens' = head \o tail
      BY DEF Announce
  <2>2. /\ head \in Seq(Int) /\ Len(head) = Len(tokens) + 1 /\ DOMAIN head = 1 .. Len(tokens) + 1
        /\ \A k \in DOMAIN tokens : head[k] = tokens[k]
        /\ head[Len(tokens) + 1] = n
      <3>1. tokens \in Seq(Int) /\ n \in Int
          BY <1>2, <2>0
      <3> QED BY <3>1, Appended
  <2>3. \A k \in DOMAIN head : head[k] >= -Len(objectMap')
      <3> HIDE DEF head, n
      <3>1. n \in Nat
          BY <1>2 DEF n
      <3>2. \A k \in DOMAIN head : k \in DOMAIN tokens \/ k = Len(tokens) + 1
          BY <2>0, <2>2
      <3>3. \A k \in DOMAIN tokens : tokens[k] \in Int /\ tokens[k] >= -(Len(objectMap) + 1)
          BY <2>0
      <3>4. n >= -(Len(objectMap) + 1)
          BY <3>1, <2>0
      <3> QED BY <3>2, <3>3, <3>4, <1>4, <2>2
  <2> HIDE DEF head
  <2>5. /\ tokens' \in Seq(Int) /\ DOMAIN tokens' = 1 .. Len(head) + Len(tail)
        /\ tokens' # <<>>
        /\ \A k \in 1 .. Len(head) + Len(tail) :
             tokens'[k] = IF k <= Len(head) THEN head[k] ELSE tail[k - Len(head)]
      <3>1. head \in Seq(Int) /\ tail \in Seq(Int)
          BY <2>2
      <3>2. /\ head \o tail \in Seq(Int) /\ DOMAIN (head \o tail) = 1 .. Len(head) + Len(tail)
            /\ \A k \in 1 .. Len(head) + Len(tail) :
                 (head \o tail)[k] = IF k <= Len(head) THEN head[k] ELSE tail[k - Len(head)]
          BY <3>1
      <3>3. 1 \in DOMAIN (head \o tail)
          BY <2>0, <2>2, <3>1, <3>2
      <3>4. head \o tail # <<>>
          BY <3>2, <3>3
      <3> QED BY <2>1, <3>2, <3>4
  <2>6. ASSUME NEW k \in DOMAIN tokens' PROVE tokens'[k] >= -Len(objectMap')
      <3>0. k \in 1 .. Len(head) + Len(tail) /\ Len(head) \in Nat /\ Len(tail) \in Nat
          BY <2>2, <2>5, <2>6
      <3>1. CASE k <= Len(head)
          BY <2>2, <2>3, <2>5, <3>0, <3>1
      <3>2. CASE k > Len(head)
          <4>1. k - Len(head) \in DOMAIN tail
              BY <3>0, <3>2
          <4>2. tail[k - Len(head)] \in Nat
              BY <4>1
          <4>3. tokens'[k] \in Nat
              BY <2>5, <3>0, <3>2, <4>2
          <4> QED BY <4>3, <1>4, <2>0
      <3> QED BY <3>0, <3>1, <3>2
  <2> QED BY <2>5, <2>6
<1>6. \A k, l \in DOMAIN objectMap' : k # l => objectMap'[k] # objectMap'[l]
  <2>1. \A k \in DOMAIN objectMap : objectMap[k] # o
      BY DEF Elements
  <2>2. DOMAIN objectMap = 1 .. Len(objectMap) /\ Len(objectMap) \in Nat
        /\ \A k, l \in DOMAIN objectMap : k # l => objectMap[k] # objectMap[l]
      BY <1>3 DEF WriterInv
  <2> QED BY <1>4, <2>1, <2>2
<1> QED BY <1>1, <1>4, <1>5, <1>6

\* an object met for the first time, which is not one of those being written,
LEMMA WriteObjectKeeps == WriterInv /\ WriteObject => WriterInv'
<1> SUFFICES ASSUME WriterInv, WriteObject PROVE WriterInv'
    OBVIOUS
<1> DEFINE o == ToWrite
           frame == [obj |-> o, next |-> 1]
<1>0. o \in Objects /\ o \notin Elements(objectMap) /\ graph[o].type \in Types
    BY DEF WriteObject, WriterInv, WriterTypeOK
<1>1. Prologue(o) \in Seq(Nat)
    BY <1>0 DEF Prologue, WriterInv, WriterTypeOK
<1>2. Announce(o, Prologue(o)) /\ Prologue(o) \in Seq(Nat)
    BY <1>1 DEF WriteObject
<1>3. /\ stringTable' \in Seq(Strings \cup Types)
      /\ objectMap' \in Seq(Objects) /\ Elements(objectMap') = Elements(objectMap) \cup {o}
      /\ \A k, l \in DOMAIN objectMap' : k # l => objectMap'[k] # objectMap'[l]
      /\ tokens' \in Seq(Int) /\ tokens' # <<>>
      /\ \A k \in DOMAIN tokens' : tokens'[k] >= -Len(objectMap')
    BY <1>0, <1>2, Announced
<1>4. /\ wstack' \in Seq(Frames) /\ Len(wstack') = Len(wstack) + 1
      /\ DOMAIN wstack' = 1 .. Len(wstack) + 1
      /\ \A d \in DOMAIN wstack : wstack'[d].obj = wstack[d].obj
      /\ wstack'[Len(wstack) + 1].obj = o
  <2> DEFINE stack == Resumed(wstack)
  <2>1. wstack' = Append(stack, frame)
      BY DEF WriteObject
  <2>2. frame \in Frames /\ frame.obj = o
      BY <1>0 DEF Frames
  <2>3. /\ stack \in Seq(Frames) /\ Len(stack) = Len(wstack)
        /\ \A d \in DOMAIN wstack : stack[d].obj = wstack[d].obj
      BY ResumedKeeps
  <2>4. DOMAIN stack = DOMAIN wstack
      BY <2>3 DEF WriterInv, WriterTypeOK
  <2> HIDE DEF stack, frame
  <2>5. /\ wstack' \in Seq(Frames) /\ Len(wstack') = Len(stack) + 1
        /\ DOMAIN wstack' = 1 .. Len(stack) + 1
        /\ \A d \in DOMAIN stack : wstack'[d] = stack[d]
        /\ wstack'[Len(stack) + 1] = frame
      BY <2>1, <2>2, <2>3, Appended
  <2> QED BY <2>2, <2>3, <2>4, <2>5
<1>5. /\ DOMAIN wstack = 1 .. Len(wstack) /\ Len(wstack) \in Nat
      /\ \A d \in DOMAIN wstack : wstack[d].obj \in Elements(objectMap)
      /\ \A d, e \in DOMAIN wstack : d # e => wstack[d].obj # wstack[e].obj
    BY DEF WriterInv, WriterTypeOK, NeverNested
<1>6. WriterTypeOK'
    BY <1>3, <1>4 DEF WriterTypeOK, WriterInv, WriteObject, Frames
<1>7. \A d \in DOMAIN wstack' : wstack'[d].obj \in Elements(objectMap')
    BY <1>3, <1>4, <1>5
<1>8. NeverNested'
  <2>1. \A d \in DOMAIN wstack : wstack[d].obj # o
      BY <1>0, <1>5
  <2>2. \A d, e \in DOMAIN wstack' : d # e => wstack'[d].obj # wstack'[e].obj
      BY <1>4, <1>5, <2>1
  <2> QED BY <2>2 DEF NeverNested
<1>9. tokens' # <<>>
    BY <1>3
<1> QED BY <1>3, <1>6, <1>7, <1>8, <1>9 DEF WriterInv

\* an object of a type that is not let through,
LEMMA RefuseKeeps == WriterInv /\ Refuse => WriterInv'
<1> SUFFICES ASSUME WriterInv, Refuse PROVE WriterInv'
    OBVIOUS
<1> DEFINE o == ToWrite
<1>1. o \in Objects /\ o \notin Elements(objectMap) /\ Announce(o, <<>>) /\ <<>> \in Seq(Nat)
    BY DEF Refuse
<1>2. /\ stringTable' \in Seq(Strings \cup Types)
      /\ objectMap' \in Seq(Objects) /\ Elements(objectMap') = Elements(objectMap) \cup {o}
      /\ \A k, l \in DOMAIN objectMap' : k # l => objectMap'[k] # objectMap'[l]
      /\ tokens' \in Seq(Int) /\ tokens' # <<>>
      /\ \A k \in DOMAIN tokens' : tokens'[k] >= -Len(objectMap')
    BY <1>1, Announced
<1>3. UNCHANGED <<graph, wstack>> /\ status' = "refused"
    BY DEF Refuse
<1>4. WriterTypeOK'
    BY <1>2, <1>3 DEF WriterTypeOK, WriterInv, Ends
<1>5. NeverNested' /\ \A d \in DOMAIN wstack' : wstack'[d].obj \in Elements(objectMap')
    BY <1>2, <1>3 DEF WriterInv, NeverNested
<1>6. tokens' # <<>>
    BY <1>2
<1> QED BY <1>2, <1>4, <1>5, <1>6 DEF WriterInv

\* and the end of an object.
LEMMA EndObjectKeeps == WriterInv /\ EndObject => WriterInv'
<1> SUFFICES ASSUME WriterInv, EndObject PROVE WriterInv'
    OBVIOUS
<1>1. /\ wstack' \in Seq(Frames) /\ Len(wstack') = Len(wstack) - 1
      /\ \A d \in DOMAIN wstack' : d \in DOMAIN wstack /\ wstack'[d] = wstack[d]
  <2>1. wstack \in Seq(Frames) /\ wstack # <<>> /\ wstack' = Pop(wstack)
      BY DEF EndObject, WriterInv, WriterTypeOK, Frames
  <2> QED BY <2>1, TopAndPop
<1>2. WriterTypeOK' /\ UNCHANGED <<objectMap, tokens>>
    BY <1>1 DEF WriterTypeOK, WriterInv, EndObject, Frames
<1>3. tokens # <<>>
    BY DEF EndObject, WriterInv
<1>4. NeverNested' /\ \A d \in DOMAIN wstack' : wstack'[d].obj \in Elements(objectMap)
    BY <1>1 DEF NeverNested, WriterInv
<1> QED BY <1>2, <1>3, <1>4 DEF WriterInv, Elements

\* The steps of the reader and the ends of the writer leave the writer as it is.
LEMMA ReaderKeepsWriter ==
    ASSUME WriterInv, UNCHANGED <<graph, writerVars>>,
           status' \in {"writing", "reading"} \cup Ends
    PROVE  WriterInv'
BY DEF WriterInv, WriterTypeOK, NeverNested, Elements, writerVars, Ends

\* No step of either end breaks what the writer keeps.
LEMMA NextKeepsWriter == WriterInv /\ [Next]_vars => WriterInv'
<1> SUFFICES ASSUME WriterInv, [Next]_vars PROVE WriterInv'
    OBVIOUS
<1> USE DEF Ends
<1>0. status \in {"writing", "reading"} \cup Ends
    BY DEF WriterInv, WriterTypeOK
<1>1. CASE WriteNull
    BY <1>1, WriteNullKeeps
<1>2. CASE WriteString
    BY <1>2, WriteStringKeeps
<1>3. CASE WriteBackReference
    BY <1>3, WriteBackReferenceKeeps
<1>4. CASE WriteObject
    BY <1>4, WriteObjectKeeps
<1>5. CASE EndObject
    BY <1>5, EndObjectKeeps
<1>6. CASE Transmit \/ RejectType
    BY <1>6, ReaderKeepsWriter DEF Transmit, RejectType
<1>7. CASE ReadNull \/ ReadString \/ ReadBackReference \/ EndInstance
    BY <1>0, <1>7, ReaderKeepsWriter DEF ReadNull, ReadString, ReadBackReference, EndInstance, Return
<1>8. CASE ReadObject
    BY <1>0, <1>8, ReaderKeepsWriter DEF ReadObject
<1>9. CASE EndReplacement
    BY <1>0, <1>9, ReaderKeepsWriter DEF EndReplacement, Return
<1>10. CASE Finished \/ UNCHANGED vars
    BY <1>0, <1>10, ReaderKeepsWriter DEF Finished, vars
<1>11. CASE Refuse
    BY <1>11, RefuseKeeps
<1> QED BY <1>1, <1>2, <1>3, <1>4, <1>5, <1>6, <1>7, <1>8, <1>9, <1>10, <1>11 DEF Next

\* The writer's map holds every object being written, each once, at every moment.
THEOREM WriterInvariant == Spec => []WriterInv
BY InitWriter, NextKeepsWriter, PTL DEF Spec

\* An object is never written inside itself, whatever cycles its graph has: the writer's
\* recursion is bounded by the number of objects.
THEOREM NeverWrittenInsideItself == Spec => []NeverNested
<1>1. WriterInv => NeverNested
    BY DEF WriterInv
<1> QED BY <1>1, WriterInvariant, PTL

\* No object gets two indices: what was met before is always written as a back reference.
OneIndexEach == \A k, l \in DOMAIN objectMap : k # l => objectMap[k] # objectMap[l]

\* saveIndexForObject is called once for an object.
THEOREM ObjectsHaveOneIndex == Spec => []OneIndexEach
<1>1. WriterInv => OneIndexEach
    BY DEF WriterInv, OneIndexEach
<1> QED BY <1>1, WriterInvariant, PTL

\* The writer's variables have their types, and its back references are to objects written.
THEOREM WriterTypesCorrect == Spec => []WriterTypeOK
<1>1. WriterInv => WriterTypeOK
    BY SMTT(30) DEF WriterInv
<1> QED BY <1>1, WriterInvariant, PTL

--------------------------------------------------------------------------------
(* The reader. What the writer does is told as a run of moments, and the reader goes   *)
(* through the same run: after each of its steps it matches one of the moments.        *)

\* The writer at one moment: its calls in progress, and how many tokens and objects it
\* has written.
Moments == [stack : Seq(Frames), sent : Nat, known : Nat]
Start == [stack |-> <<>>, sent |-> 0, known |-> 0]
Present == [stack |-> wstack, sent |-> Len(tokens), known |-> Len(objectMap)]

\* What the writer has put out: the graph is as it was, the rest only grows.
Output == [graph |-> graph, tokens |-> tokens, table |-> stringTable, map |-> objectMap]
Outputs ==
    [graph : [Objects -> [type : Types, items : Seq(Items)]], tokens : Seq(Int),
     table : Seq(Strings \cup Types), map : Seq(Objects)]

Begins(p, q) == Len(p) <= Len(q) /\ \A k \in 1 .. Len(p) : p[k] = q[k]
Grown(c, d) ==
    /\ d.graph = c.graph
    /\ Begins(c.tokens, d.tokens) /\ Begins(c.table, d.table) /\ Begins(c.map, d.map)

Content(c, o) == c.graph[o].items
HasMore(c, m) ==
    m.sent # 0 => m.stack # <<>> /\ Top(m.stack).next <= Len(Content(c, Top(m.stack).obj))
Due(c, m) == IF m.sent = 0 THEN Root ELSE Content(c, Top(m.stack).obj)[Top(m.stack).next]

\* From moment m to n: a value is written that opens no object,
WroteValue(c, m, n) ==
    /\ HasMore(c, m)
    /\ n.stack = Resumed(m.stack) /\ n.sent = m.sent + 1 /\ n.known = m.known
    /\ LET x == Due(c, m)
           token == c.tokens[m.sent + 1]
       IN \/ x = Null /\ token = 0
          \/ x \in Strings /\ token \in 1 .. Len(c.table) /\ c.table[token] = x
          \/ x \in Objects /\ -token \in 1 .. m.known /\ c.map[-token] = x

\* or an object is announced and its items are next,
WroteObject(c, m, n) ==
    LET x == Due(c, m)
        token == c.tokens[m.sent + 1]
        kind == Kind[c.graph[x].type]
    IN /\ HasMore(c, m) /\ x \in Objects
       /\ n.stack = Append(Resumed(m.stack), [obj |-> x, next |-> 1])
       /\ n.sent = m.sent + (IF kind \in {"array", "list", "enum"} THEN 2 ELSE 1)
       /\ n.known = m.known + 1 /\ c.map[n.known] = x /\ n.known <= Len(c.map)
       /\ token \in 1 .. Len(c.table) /\ c.table[token] = c.graph[x].type
       /\ kind \in {"array", "list"} => c.tokens[m.sent + 2] = Len(Content(c, x))

\* or the innermost object has no more items.
WroteEnd(c, m, n) ==
    /\ m.sent # 0 /\ m.stack # <<>> /\ Top(m.stack).next > Len(Content(c, Top(m.stack).obj))
    /\ n.stack = Pop(m.stack) /\ n.sent = m.sent /\ n.known = m.known

Wrote(c, m, n) ==
    /\ n.sent <= Len(c.tokens)
    /\ WroteValue(c, m, n) \/ WroteObject(c, m, n) \/ WroteEnd(c, m, n)

\* The calls in progress are about objects written before, each about an item of the one
\* before it.
MomentOK(c, m) ==
    /\ m \in Moments
    /\ m.sent <= Len(c.tokens) /\ m.known <= Len(c.map)
    /\ m.sent = 0 => m.stack = <<>> /\ m.known = 0
    /\ m.stack # <<>> => m.stack[1].obj = Root
    /\ \A d \in 1 .. Len(m.stack) :
         /\ m.stack[d].next <= Len(Content(c, m.stack[d].obj)) + 1
         /\ \E k \in 1 .. m.known : c.map[k] = m.stack[d].obj
    /\ \A d \in 1 .. Len(m.stack) - 1 :
         /\ m.stack[d].next > 1
         /\ Content(c, m.stack[d].obj)[m.stack[d].next - 1] = m.stack[d + 1].obj

IsRun(c, w, m) ==
    /\ w \in Seq(Moments) /\ w # <<>> /\ w[1] = Start /\ w[Len(w)] = m
    /\ \A i \in 1 .. Len(w) : MomentOK(c, w[i])
    /\ \A i \in 1 .. Len(w) - 1 : Wrote(c, w[i], w[i + 1])

--------------------------------------------------------------------------------
\* The reader's values, and its calls
Values(n) == 1 .. n \cup Strings \cup {Null}
Cells(n) == [type : Types, items : Seq(Values(n))]
Calls(k, n) == [type : Types, slot : 1 .. k, self : 0 .. n, length : Nat, got : Seq(Values(n))]
Reader == [stack |-> rstack, seen |-> seen, heap |-> heap]
ReaderOK(r) ==
    /\ r.seen \in Seq(Values(Len(r.heap))) /\ r.heap \in Seq(Cells(Len(r.heap)))
    /\ r.stack \in Seq(Calls(Len(r.seen), Len(r.heap)))

Replaceable == {"array", "factory"}
\* The indices that have a placeholder
Pending(r) ==
    {k \in 1 .. Len(r.seen) :
        \E d \in 1 .. Len(r.stack) : r.stack[d].slot = k /\ Kind[r.stack[d].type] \in Replaceable}

TargetsIn(c, o) == Elements(c.graph[o].items) \cap Objects
OnCycleIn(c, o) ==
    \A S \in SUBSET Objects :
        TargetsIn(c, o) \subseteq S /\ (\A x \in S : TargetsIn(c, x) \subseteq S) => o \in S
KnottedIn(c) ==
    \E o \in Elements(c.map) : Kind[c.graph[o].type] \in Replaceable /\ OnCycleIn(c, o)

\* v was read for x. It is the copy of x, for good, unless a cycle goes through a placeholder.
Read(c, r, v, x) ==
    IF x \in Objects
    THEN /\ v \in 1 .. Len(r.heap) \cup {Null}
         /\ ~KnottedIn(c) => \E k \in 1 .. Len(r.seen) \ Pending(r) : c.map[k] = x /\ v = r.seen[k]
    ELSE v = x
AllRead(c, r, got, o) ==
    /\ Len(got) <= Len(Content(c, o))
    /\ \A j \in 1 .. Len(got) : Read(c, r, got[j], Content(c, o)[j])

\* A call of the reader against the call of the writer; `lag` is 1 when what the innermost
\* one asked for has still to be returned to it, 0 otherwise.
CallMatches(c, m, r, d, lag) ==
    LET f == r.stack[d]
        o == m.stack[d].obj
    IN /\ f.type = c.graph[o].type /\ f.length = Len(Content(c, o))
       /\ f.slot <= m.known /\ c.map[f.slot] = o
       /\ Kind[f.type] \notin Replaceable => f.self = r.seen[f.slot]
       /\ Len(f.got) = m.stack[d].next - 1 - (IF d = Len(m.stack) THEN lag ELSE 1)
       /\ AllRead(c, r, f.got, o)

SlotMatches(c, r, k) ==
    LET sent == c.graph[c.map[k]]
        v == r.seen[k]
    IN IF k \in Pending(r) THEN v \in 1 .. Len(r.heap) \cup {Null}
       ELSE /\ v \in 1 .. Len(r.heap) /\ r.heap[v].type = sent.type
            /\ (\A d \in 1 .. Len(r.stack) : r.stack[d].slot # k) =>
                 Len(r.heap[v].items) = Len(sent.items) /\ AllRead(c, r, r.heap[v].items, c.map[k])

Matches(c, m, r, lag) ==
    /\ ReaderOK(r)
    /\ Len(r.seen) = m.known /\ Len(r.stack) = Len(m.stack)
    /\ \A d \in 1 .. Len(r.stack) : CallMatches(c, m, r, d, lag)
    /\ \A d, e \in 1 .. Len(r.stack) : d # e => r.stack[d].slot # r.stack[e].slot
    /\ \A k \in 1 .. Len(r.seen) : SlotMatches(c, r, k)
    /\ \A k, l \in 1 .. Len(r.seen) : k # l /\ r.seen[k] \in Nat => r.seen[k] # r.seen[l]

\* The call that goes on with its next item
LEMMA ResumedStack ==
    ASSUME NEW stack \in Seq(Frames), stack # <<>>
    PROVE  LET n == Len(stack)
               s == Resumed(stack)
           IN /\ s \in Seq(Frames) /\ Len(s) = n /\ n \in Nat \ {0} /\ s # <<>>
              /\ \A d \in 1 .. n : s[d].obj = stack[d].obj
              /\ \A d \in 1 .. n - 1 : s[d].next = stack[d].next
              /\ s[n].next = stack[n].next + 1
<1> DEFINE n == Len(stack)
           top == [stack[n] EXCEPT !.next = stack[n].next + 1]
<1>1. n \in Nat \ {0} /\ DOMAIN stack = 1 .. n /\ stack[n] \in Frames
    BY TopAndPop DEF Top
<1>2. Resumed(stack) = [stack EXCEPT ![n] = top]
    BY <1>1 DEF Resumed
<1>3. top \in Frames /\ top.obj = stack[n].obj /\ top.next = stack[n].next + 1
    BY <1>1 DEF Frames
<1> DEFINE s == Resumed(stack)
<1>4. s = [stack EXCEPT ![n] = top]
    BY <1>2
<1> HIDE DEF top, s
<1>5. s \in Seq(Frames) /\ Len(s) = n /\ s # <<>>
    BY <1>1, <1>3, <1>4
<1>6. s[n] = top /\ \A d \in 1 .. n : d # n => s[d] = stack[d]
  <2> HIDE DEF n
  <2>1. n \in DOMAIN stack /\ \A d \in 1 .. n : d \in DOMAIN stack
      BY <1>1
  <2> QED BY <1>4, <2>1, Zenon
<1> HIDE DEF n
<1>7. \A d \in 1 .. n : s[d].obj = stack[d].obj
    BY <1>3, <1>6
<1>8. \A d \in 1 .. n - 1 : d \in 1 .. n /\ d # n
    BY <1>1
<1>9. \A d \in 1 .. n - 1 : s[d].next = stack[d].next
    BY <1>6, <1>8
<1> QED BY <1>1, <1>3, <1>5, <1>6, <1>7, <1>9 DEF n, s

\* What the fields of an output are
LEMMA OutputFields ==
    ASSUME NEW c \in Outputs
    PROVE  /\ c.graph \in [Objects -> [type : Types, items : Seq(Items)]]
           /\ c.tokens \in Seq(Int) /\ c.table \in Seq(Strings \cup Types) /\ c.map \in Seq(Objects)
           /\ Len(c.tokens) \in Nat /\ Len(c.table) \in Nat /\ Len(c.map) \in Nat
           /\ \A o \in Objects : /\ Content(c, o) \in Seq(Items) /\ Len(Content(c, o)) \in Nat
                                 /\ c.graph[o].type \in Types
BY DEF Outputs, Content

\* What the fields of a moment are
LEMMA MomentFields ==
    ASSUME NEW m \in Moments
    PROVE  /\ m.stack \in Seq(Frames) /\ Len(m.stack) \in Nat /\ m.sent \in Nat /\ m.known \in Nat
           /\ \A d \in 1 .. Len(m.stack) : m.stack[d] \in Frames /\ m.stack[d].obj \in Objects
                                           /\ m.stack[d].next \in Nat \ {0}
           /\ m.stack # <<>> => /\ Len(m.stack) \in 1 .. Len(m.stack)
                                /\ Top(m.stack) = m.stack[Len(m.stack)]
<1>1. m.stack \in Seq(Frames) /\ m.sent \in Nat /\ m.known \in Nat
    BY DEF Moments
<1>2. Len(m.stack) \in Nat /\ \A d \in 1 .. Len(m.stack) : m.stack[d] \in Frames
    BY <1>1
<1>3. \A f \in Frames : f.obj \in Objects /\ f.next \in Nat \ {0}
    BY DEF Frames
<1>4. m.stack # <<>> => Len(m.stack) \in 1 .. Len(m.stack)
    BY <1>1
<1> QED BY <1>1, <1>2, <1>3, <1>4 DEF Top

\* A moment made of its fields
LEMMA MomentMade ==
    ASSUME NEW stack \in Seq(Frames), NEW sent \in Nat, NEW known \in Nat, NEW n,
           n = [stack |-> stack, sent |-> sent, known |-> known]
    PROVE  n \in Moments /\ n.stack = stack /\ n.sent = sent /\ n.known = known
BY DEF Moments

\* The value that is written is the root or an item.
LEMMA DueIsItem ==
    ASSUME NEW c \in Outputs, NEW m, MomentOK(c, m), HasMore(c, m)
    PROVE  /\ Due(c, m) \in Items
           /\ m.sent # 0 => LET e == m.stack[Len(m.stack)]
                            IN /\ m.stack # <<>> /\ Len(m.stack) \in 1 .. Len(m.stack)
                               /\ e \in Frames /\ e.next \in 1 .. Len(Content(c, e.obj))
                               /\ Due(c, m) = Content(c, e.obj)[e.next]
           /\ m.sent = 0 => Due(c, m) = Root /\ Root \in Objects /\ m.stack = <<>> /\ m.known = 0
<1>1. m \in Moments
    BY DEF MomentOK
<1>2. CASE m.sent = 0
    BY <1>2, ValueAssumption DEF Due, Items, MomentOK
<1>3. CASE m.sent # 0
  <2> DEFINE e == m.stack[Len(m.stack)]
             q == Content(c, e.obj)
  <2>1. /\ m.stack # <<>> /\ Len(m.stack) \in 1 .. Len(m.stack) /\ Top(m.stack) = e
        /\ e \in Frames /\ e.obj \in Objects /\ e.next \in Nat \ {0} /\ e.next <= Len(q)
      BY <1>1, <1>3, MomentFields DEF HasMore
  <2>2. q \in Seq(Items) /\ Len(q) \in Nat
      BY <2>1, OutputFields
  <2>3. Due(c, m) = q[e.next]
      BY <1>3, <2>1 DEF Due
  <2> HIDE DEF q
  <2>4. e.next \in 1 .. Len(q) /\ q[e.next] \in Items
      BY <2>1, <2>2
  <2> QED
      BY <1>3, <2>1, <2>3, <2>4 DEF q
<1> QED
    BY <1>1, <1>2, <1>3, MomentFields

\* The first thing that is written is an object.
LEMMA FirstIsObject ==
    ASSUME NEW c \in Outputs, NEW m, NEW n, MomentOK(c, m), WroteValue(c, m, n)
    PROVE  m.sent # 0
<1> SUFFICES ASSUME m.sent = 0 PROVE FALSE
    OBVIOUS
<1>1. Due(c, m) = Root /\ Root \in Objects /\ m.known = 0
    BY DueIsItem DEF WroteValue
<1>2. Root # Null /\ Root \notin Strings
    BY ValueAssumption
<1> QED
    BY <1>1, <1>2 DEF WroteValue

\* The calls in progress when a value has been written, before the call it may open
LEMMA ResumedOK ==
    ASSUME NEW c \in Outputs, NEW m, MomentOK(c, m), HasMore(c, m), m.sent # 0
    PROVE  LET s == Resumed(m.stack)
               n == Len(m.stack)
           IN /\ s \in Seq(Frames) /\ Len(s) = n /\ n \in Nat \ {0} /\ s # <<>>
              /\ s[1].obj = Root
              /\ \A d \in 1 .. n : /\ s[d].obj = m.stack[d].obj
                                   /\ s[d].next <= Len(Content(c, s[d].obj)) + 1
                                   /\ \E k \in 1 .. m.known : c.map[k] = s[d].obj
              /\ \A d \in 1 .. n - 1 : /\ s[d].next = m.stack[d].next /\ s[d].next > 1
                                       /\ Content(c, s[d].obj)[s[d].next - 1] = s[d + 1].obj
              /\ s[n].next = m.stack[n].next + 1 /\ s[n].next > 1
              /\ s[n].next - 1 = m.stack[n].next
              /\ Content(c, s[n].obj)[s[n].next - 1] = Due(c, m)
<1> DEFINE s == Resumed(m.stack)
           n == Len(m.stack)
<1>1. /\ m.stack # <<>> /\ m.stack[n] \in Frames /\ m.stack \in Seq(Frames)
      /\ m.stack[n].next \in 1 .. Len(Content(c, m.stack[n].obj))
      /\ Due(c, m) = Content(c, m.stack[n].obj)[m.stack[n].next]
    BY DueIsItem, MomentFields DEF MomentOK
<1>2. /\ s \in Seq(Frames) /\ Len(s) = n /\ n \in Nat \ {0} /\ s # <<>>
      /\ \A d \in 1 .. n : s[d].obj = m.stack[d].obj
      /\ \A d \in 1 .. n - 1 : s[d].next = m.stack[d].next
      /\ s[n].next = m.stack[n].next + 1
    BY <1>1, ResumedStack
<1>3. /\ m.stack[1].obj = Root
      /\ \A d \in 1 .. n : /\ m.stack[d].next <= Len(Content(c, m.stack[d].obj)) + 1
                           /\ \E k \in 1 .. m.known : c.map[k] = m.stack[d].obj
      /\ \A d \in 1 .. n - 1 : /\ m.stack[d].next > 1
                               /\ Content(c, m.stack[d].obj)[m.stack[d].next - 1] = m.stack[d + 1].obj
    BY <1>1 DEF MomentOK
<1> HIDE DEF s, n
<1>4. 1 \in 1 .. n /\ n \in 1 .. n /\ \A d \in 1 .. n - 1 : d \in 1 .. n /\ d + 1 \in 1 .. n
    BY <1>2
<1>5. \A d \in 1 .. n : d = n \/ d \in 1 .. n - 1
    BY <1>2
<1>6. s[1].obj = Root
    BY <1>2, <1>3, <1>4
<1>7. ASSUME NEW d \in 1 .. n PROVE s[d].next <= Len(Content(c, s[d].obj)) + 1
  <2>1. m.stack[n].obj \in Objects /\ Len(Content(c, m.stack[n].obj)) \in Nat
      BY <1>1, OutputFields DEF Frames
  <2>2. CASE d = n
      BY <1>1, <1>2, <2>1, <2>2, <1>4
  <2>3. CASE d \in 1 .. n - 1
      BY <1>2, <1>3, <1>4, <2>3
  <2> QED BY <1>5, <2>2, <2>3
<1>8. \A d \in 1 .. n : \E k \in 1 .. m.known : c.map[k] = s[d].obj
    BY <1>2, <1>3, SMTT(30)
<1>9. \A d \in 1 .. n - 1 : /\ s[d].next > 1
                           /\ Content(c, s[d].obj)[s[d].next - 1] = s[d + 1].obj
    BY <1>2, <1>3, <1>4
<1>10. /\ s[n].next > 1 /\ s[n].next - 1 = m.stack[n].next
       /\ Content(c, s[n].obj)[s[n].next - 1] = Due(c, m)
    BY <1>1, <1>2, <1>4
<1> QED BY <1>2, <1>6, <1>7, <1>8, <1>9, <1>10 DEF s, n

\* A value that opens no object leaves the calls in progress in order,
LEMMA ValueStep ==
    ASSUME NEW c \in Outputs, NEW m, MomentOK(c, m), NEW n \in Moments,
           n.sent <= Len(c.tokens), WroteValue(c, m, n)
    PROVE  MomentOK(c, n)
<1>1. m.sent # 0 /\ HasMore(c, m)
    BY FirstIsObject DEF WroteValue
<1>2. m.sent \in Nat /\ m.known <= Len(c.map)
    BY MomentFields DEF MomentOK
<1>3. n.stack = Resumed(m.stack) /\ n.sent = m.sent + 1 /\ n.known = m.known
    BY DEF WroteValue
<1>4. n.sent # 0
    BY <1>2, <1>3
<1> DEFINE s == Resumed(m.stack)
           l == Len(m.stack)
<1>5. /\ Len(s) = l /\ s[1].obj = Root
      /\ \A d \in 1 .. l : /\ s[d].next <= Len(Content(c, s[d].obj)) + 1
                           /\ \E k \in 1 .. m.known : c.map[k] = s[d].obj
      /\ \A d \in 1 .. l - 1 : s[d].next > 1 /\ Content(c, s[d].obj)[s[d].next - 1] = s[d + 1].obj
    BY <1>1, ResumedOK
<1> HIDE DEF s, l
<1>6. n.stack = s /\ Len(n.stack) = l
    BY <1>3, <1>5 DEF s
<1> QED BY <1>2, <1>3, <1>4, <1>5, <1>6 DEF MomentOK

\* so does an object that is opened,
LEMMA ObjectStep ==
    ASSUME NEW c \in Outputs, NEW m, MomentOK(c, m), NEW n \in Moments,
           n.sent <= Len(c.tokens), WroteObject(c, m, n)
    PROVE  MomentOK(c, n)
<1> DEFINE x == Due(c, m)
           f == [obj |-> x, next |-> 1]
           s == Resumed(m.stack)
<1>1. /\ x \in Objects /\ HasMore(c, m) /\ n.stack = Append(s, f)
      /\ n.known = m.known + 1 /\ c.map[n.known] = x /\ n.known <= Len(c.map)
    BY DEF WroteObject
<1>2. m.sent \in Nat /\ m.known \in Nat /\ n.sent # 0 /\ m \in Moments
    BY MomentFields DEF MomentOK, WroteObject
<1>3. f \in Frames /\ f.obj = x /\ f.next = 1
    BY <1>1 DEF Frames
<1>4. Content(c, x) \in Seq(Items) /\ Len(Content(c, x)) \in Nat
    BY <1>1, OutputFields
<1>5. n.known \in 1 .. n.known
    BY <1>1, <1>2
<1> HIDE DEF f, x, s
<1>6. CASE m.sent = 0
  <2>1. m.stack = <<>> /\ x = Root
      BY <1>1, <1>6, DueIsItem DEF x
  <2>2. s = <<>>
      BY <2>1 DEF Resumed, s
  <2>3. Len(n.stack) = 1 /\ n.stack[1] = f
      BY <1>1, <1>3, <2>2
  <2>4. \A d \in 1 .. Len(n.stack) :
           /\ n.stack[d].next <= Len(Content(c, n.stack[d].obj)) + 1
           /\ \E k \in 1 .. n.known : c.map[k] = n.stack[d].obj
      BY <1>1, <1>3, <1>4, <1>5, <2>3
  <2>5. 1 .. Len(n.stack) - 1 = {}
      BY <2>3
  <2> QED BY <1>1, <1>2, <1>3, <2>1, <2>3, <2>4, <2>5 DEF MomentOK
<1>7. CASE m.sent # 0
  <2> DEFINE l == Len(m.stack)
  <2>1. /\ s \in Seq(Frames) /\ Len(s) = l /\ l \in Nat \ {0}
        /\ s[1].obj = Root
        /\ \A d \in 1 .. l : /\ s[d].next <= Len(Content(c, s[d].obj)) + 1
                             /\ \E k \in 1 .. m.known : c.map[k] = s[d].obj
        /\ \A d \in 1 .. l - 1 : s[d].next > 1 /\ Content(c, s[d].obj)[s[d].next - 1] = s[d + 1].obj
        /\ s[l].next > 1 /\ Content(c, s[l].obj)[s[l].next - 1] = x
      BY <1>1, <1>7, ResumedOK DEF s, x
  <2> HIDE DEF l
  <2>2. /\ Len(n.stack) = l + 1 /\ n.stack[l + 1] = f
        /\ \A d \in 1 .. l : n.stack[d] = s[d]
      BY <1>1, <1>3, <2>1
  <2>3. \A d \in 1 .. l + 1 : d = l + 1 \/ d \in 1 .. l
      BY <2>1
  <2>4. \A d \in 1 .. l : d = l \/ (d \in 1 .. l - 1 /\ d + 1 \in 1 .. l)
      BY <2>1
  <2>5. \A k \in 1 .. m.known : k \in 1 .. n.known
      BY <1>1, <1>2
  <2>6. ASSUME NEW d \in 1 .. l + 1
        PROVE  /\ n.stack[d].next <= Len(Content(c, n.stack[d].obj)) + 1
               /\ \E k \in 1 .. n.known : c.map[k] = n.stack[d].obj
    <3>1. CASE d = l + 1
        BY <1>1, <1>3, <1>4, <1>5, <2>2, <3>1
    <3>2. CASE d \in 1 .. l
        BY <2>1, <2>2, <2>5, <3>2
    <3> QED BY <2>3, <3>1, <3>2
  <2>7. ASSUME NEW d \in 1 .. l
        PROVE  n.stack[d].next > 1 /\ Content(c, n.stack[d].obj)[n.stack[d].next - 1] = n.stack[d + 1].obj
    <3>1. CASE d = l
        BY <1>3, <2>1, <2>2, <3>1
    <3>2. CASE d \in 1 .. l - 1
      <4>1. d + 1 \in 1 .. l
          BY <2>1, <3>2
      <4> QED BY <2>1, <2>2, <3>2, <4>1
    <3> QED BY <2>4, <3>1, <3>2
  <2>8. n.stack[1].obj = Root
      BY <2>1, <2>2
  <2>9. Len(n.stack) - 1 = l
      BY <2>1, <2>2
  <2> QED BY <1>1, <1>2, <2>2, <2>6, <2>7, <2>8, <2>9 DEF MomentOK
<1> QED BY <1>6, <1>7

\* and one that ends,
LEMMA EndStep ==
    ASSUME NEW c \in Outputs, NEW m, MomentOK(c, m), NEW n \in Moments,
           n.sent <= Len(c.tokens), WroteEnd(c, m, n)
    PROVE  MomentOK(c, n)
<1>1. /\ m.stack # <<>> /\ n.stack = Pop(m.stack) /\ n.sent = m.sent /\ n.known = m.known
      /\ m.sent # 0
    BY DEF WroteEnd
<1>2. m.stack \in Seq(Frames) /\ m \in Moments
    BY MomentFields DEF MomentOK
<1> DEFINE l == Len(m.stack)
<1>3. /\ l \in Nat \ {0} /\ n.stack \in Seq(Frames) /\ Len(n.stack) = l - 1
      /\ \A d \in 1 .. l - 1 : n.stack[d] = m.stack[d]
    BY <1>1, <1>2, TopAndPop
<1> HIDE DEF l
<1>4. \A d \in 1 .. l - 1 : d \in 1 .. l
    BY <1>3
<1>5. \A d \in 1 .. (l - 1) - 1 : d \in 1 .. l - 1 /\ d + 1 \in 1 .. l - 1
    BY <1>3
<1>6. n.stack # <<>> => 1 \in 1 .. l - 1
    BY <1>3
<1>7. n.stack # <<>> => n.stack[1].obj = Root
    BY <1>1, <1>3, <1>6 DEF MomentOK
<1>8. /\ \A d \in 1 .. l : /\ m.stack[d].next <= Len(Content(c, m.stack[d].obj)) + 1
                           /\ \E k \in 1 .. m.known : c.map[k] = m.stack[d].obj
      /\ \A d \in 1 .. l - 1 : /\ m.stack[d].next > 1
                               /\ Content(c, m.stack[d].obj)[m.stack[d].next - 1] = m.stack[d + 1].obj
    BY DEF MomentOK, l
<1>9. /\ \A d \in 1 .. l - 1 : /\ n.stack[d].next <= Len(Content(c, n.stack[d].obj)) + 1
                               /\ \E k \in 1 .. n.known : c.map[k] = n.stack[d].obj
      /\ \A d \in 1 .. (l - 1) - 1 :
           /\ n.stack[d].next > 1
           /\ Content(c, n.stack[d].obj)[n.stack[d].next - 1] = n.stack[d + 1].obj
    BY <1>1, <1>3, <1>4, <1>5, <1>8
<1> QED BY <1>1, <1>3, <1>7, <1>9 DEF MomentOK

\* so every step does.
LEMMA MomentStep ==
    ASSUME NEW c \in Outputs, NEW m, MomentOK(c, m), NEW n \in Moments, Wrote(c, m, n)
    PROVE  MomentOK(c, n)
BY ValueStep, ObjectStep, EndStep DEF Wrote

--------------------------------------------------------------------------------
\* What was said of an output holds of a longer one.
LEMMA GrownMoment ==
    ASSUME NEW c \in Outputs, NEW d \in Outputs, Grown(c, d), NEW m, MomentOK(c, m)
    PROVE  MomentOK(d, m)
<1>1. \A o : Content(d, o) = Content(c, o)
    BY DEF Grown, Content
<1>2. Len(c.tokens) <= Len(d.tokens) /\ Len(c.map) <= Len(d.map)
      /\ \A k \in 1 .. Len(c.map) : d.map[k] = c.map[k]
    BY DEF Grown, Begins
<1>3. Len(c.tokens) \in Nat /\ Len(c.map) \in Nat /\ Len(d.tokens) \in Nat /\ Len(d.map) \in Nat
    BY OutputFields
<1>4. m \in Moments /\ m.sent \in Nat /\ m.known \in Nat
    BY MomentFields DEF MomentOK
<1>5. \A k \in 1 .. m.known : k \in 1 .. Len(c.map)
    BY <1>3, <1>4 DEF MomentOK
<1>6. m.sent <= Len(d.tokens) /\ m.known <= Len(d.map)
    BY <1>2, <1>3, <1>4 DEF MomentOK
<1> QED BY <1>1, <1>2, <1>4, <1>5, <1>6, ZenonT(40) DEF MomentOK

\* A step that was made is still the step when the output has grown,
LEMMA GrownWrote ==
    ASSUME NEW c \in Outputs, NEW d \in Outputs, Grown(c, d),
           NEW m, MomentOK(c, m), NEW n \in Moments, Wrote(c, m, n)
    PROVE  Wrote(d, m, n)
<1>1. (\A o : Content(d, o) = Content(c, o)) /\ d.graph = c.graph
    BY DEF Grown, Content
<1>2. /\ Len(c.tokens) <= Len(d.tokens) /\ \A k \in 1 .. Len(c.tokens) : d.tokens[k] = c.tokens[k]
      /\ Len(c.map) <= Len(d.map) /\ \A k \in 1 .. Len(c.map) : d.map[k] = c.map[k]
      /\ Len(c.table) <= Len(d.table) /\ \A k \in 1 .. Len(c.table) : d.table[k] = c.table[k]
    BY DEF Grown, Begins
<1>3. /\ Len(c.tokens) \in Nat /\ Len(c.map) \in Nat /\ Len(d.tokens) \in Nat /\ Len(d.map) \in Nat
      /\ Len(c.table) \in Nat /\ Len(d.table) \in Nat
    BY OutputFields
<1>4. m \in Moments /\ m.sent \in Nat /\ m.known \in Nat /\ n.sent \in Nat /\ n.known \in Nat
    BY MomentFields DEF MomentOK
<1>5. n.sent <= Len(c.tokens) /\ n.sent <= Len(d.tokens)
    BY <1>2, <1>3, <1>4 DEF Wrote
<1>6. Due(d, m) = Due(c, m) /\ (HasMore(c, m) => HasMore(d, m))
    BY <1>1 DEF Due, HasMore
<1>7. CASE WroteValue(c, m, n)
  <2>1. m.sent + 1 \in 1 .. Len(c.tokens)
      BY <1>3, <1>4, <1>5, <1>7 DEF WroteValue
  <2>2. d.tokens[m.sent + 1] = c.tokens[m.sent + 1]
      BY <1>2, <2>1
  <2>3. \A k \in 1 .. m.known : k \in 1 .. Len(c.map)
      BY <1>3, <1>4 DEF MomentOK
  <2>4. \A k \in 1 .. Len(c.table) : k \in 1 .. Len(d.table)
      BY <1>2, <1>3
  <2>5. WroteValue(d, m, n)
      BY <1>2, <1>6, <1>7, <2>2, <2>3, <2>4 DEF WroteValue
  <2> QED BY <1>5, <2>5 DEF Wrote
<1>8. CASE WroteObject(c, m, n)
  <2> DEFINE x == Due(c, m)
             kind == Kind[c.graph[x].type]
  <2>0. n.sent = m.sent + (IF kind \in {"array", "list", "enum"} THEN 2 ELSE 1)
        /\ (kind \in {"array", "list"} => c.tokens[m.sent + 2] = Len(Content(c, x)))
      BY <1>8 DEF WroteObject
  <2>1. m.sent + 1 \in 1 .. Len(c.tokens)
      BY <1>3, <1>4, <1>5, <2>0
  <2>2. d.tokens[m.sent + 1] = c.tokens[m.sent + 1]
      BY <1>2, <2>1
  <2>3. kind \in {"array", "list"} => m.sent + 2 \in 1 .. Len(c.tokens)
      BY <1>3, <1>4, <1>5, <2>0
  <2>4. kind \in {"array", "list"} => d.tokens[m.sent + 2] = Len(Content(d, x))
      BY <1>1, <1>2, <2>0, <2>3
  <2>5. c.tokens[m.sent + 1] \in 1 .. Len(c.table) /\ c.table[c.tokens[m.sent + 1]] = c.graph[x].type
      BY <1>8 DEF WroteObject
  <2>6. d.tokens[m.sent + 1] \in 1 .. Len(d.table) /\ d.table[d.tokens[m.sent + 1]] = d.graph[x].type
      BY <1>1, <1>2, <1>3, <2>2, <2>5
  <2>7. n.known = m.known + 1 /\ n.known <= Len(c.map) /\ c.map[n.known] = x
      BY <1>8 DEF WroteObject
  <2>8. n.known <= Len(d.map) /\ d.map[n.known] = x
    <3>1. n.known \in 1 .. Len(c.map)
        BY <1>3, <1>4, <2>7
    <3> QED BY <1>2, <1>3, <2>7, <3>1
  <2>9. n.stack = Append(Resumed(m.stack), [obj |-> x, next |-> 1]) /\ HasMore(d, m) /\ x \in Objects
      BY <1>6, <1>8 DEF WroteObject
  <2>10. Due(d, m) = x /\ Kind[d.graph[x].type] = kind
      BY <1>1, <1>6
  <2> HIDE DEF x, kind
  <2>11. WroteObject(d, m, n)
      BY <2>0, <2>4, <2>6, <2>7, <2>8, <2>9, <2>10 DEF WroteObject
  <2> QED BY <1>5, <2>11 DEF Wrote
<1>9. CASE WroteEnd(c, m, n)
    BY <1>1, <1>5, <1>9 DEF Wrote, WroteEnd
<1> QED BY <1>7, <1>8, <1>9 DEF Wrote

\* and a run is still a run.
LEMMA GrownRun ==
    ASSUME NEW c \in Outputs, NEW d \in Outputs, Grown(c, d), NEW w, NEW m, IsRun(c, w, m)
    PROVE  IsRun(d, w, m)
<1>1. \A i \in 1 .. Len(w) : MomentOK(d, w[i])
    BY GrownMoment DEF IsRun
<1>2. ASSUME NEW i \in 1 .. Len(w) - 1 PROVE Wrote(d, w[i], w[i + 1])
  <2>1. w \in Seq(Moments) /\ Len(w) \in Nat
      BY DEF IsRun
  <2>2. i \in 1 .. Len(w) /\ i + 1 \in 1 .. Len(w)
      BY <2>1
  <2>3. w[i + 1] \in Moments
      BY <2>1, <2>2
  <2>4. MomentOK(c, w[i]) /\ Wrote(c, w[i], w[i + 1])
      BY <2>2 DEF IsRun
  <2> QED BY <2>3, <2>4, GrownWrote
<1> QED BY <1>1, <1>2 DEF IsRun

\* The run goes on with the step the writer does now.
LEMMA RunGrows ==
    ASSUME NEW c \in Outputs, NEW d \in Outputs, Grown(c, d),
           NEW w, NEW m, IsRun(c, w, m), NEW n \in Moments, Wrote(d, m, n)
    PROVE  IsRun(d, Append(w, n), n)
<1>1. IsRun(d, w, m)
    BY GrownRun
<1>2. w \in Seq(Moments) /\ Len(w) \in Nat \ {0}
    BY DEF IsRun
<1> DEFINE l == Len(w)
           v == Append(w, n)
<1>3. /\ v \in Seq(Moments) /\ v # <<>> /\ Len(v) = l + 1 /\ v[l + 1] = n
      /\ \A i \in 1 .. l : v[i] = w[i]
    BY <1>2, Appended
<1> HIDE DEF v
<1>4. v[1] = Start /\ v[l] = m /\ MomentOK(d, m)
    BY <1>1, <1>2, <1>3 DEF IsRun
<1>5. MomentOK(d, n)
    BY <1>4, MomentStep
<1> HIDE DEF l
<1>6. \A i \in 1 .. l + 1 : i \in 1 .. l \/ i = l + 1
    BY <1>2 DEF l
<1>7. \A i \in 1 .. l + 1 : MomentOK(d, v[i])
    BY <1>1, <1>3, <1>5, <1>6 DEF IsRun, l
<1>8. ASSUME NEW i \in 1 .. l PROVE Wrote(d, v[i], v[i + 1])
  <2>1. CASE i = l
      BY <1>3, <1>4, <2>1
  <2>2. CASE i # l
    <3>1. i \in 1 .. l - 1 /\ i + 1 \in 1 .. l
        BY <1>2, <2>2 DEF l
    <3> QED BY <1>1, <1>3, <3>1 DEF IsRun, l
  <2> QED BY <2>1, <2>2
<1>9. Len(v) - 1 = l
    BY <1>2, <1>3 DEF l
<1> QED BY <1>3, <1>4, <1>7, <1>8, <1>9 DEF IsRun, v

\* What the writer has put out, and where it stands, have their types
LEMMA WriterOutput ==
    ASSUME WriterInv
    PROVE  /\ Output \in Outputs /\ Present \in Moments
           /\ Output.graph = graph /\ Output.tokens = tokens /\ Output.table = stringTable
           /\ Output.map = objectMap
           /\ Present.stack = wstack /\ Present.sent = Len(tokens) /\ Present.known = Len(objectMap)
           /\ Len(tokens) \in Nat /\ Len(objectMap) \in Nat /\ Len(stringTable) \in Nat
BY DEF WriterInv, WriterTypeOK, Output, Outputs, Present, Moments, Frames

OutputTyped == Output \in Outputs /\ Present \in Moments

\* after a step too.
LEMMA NextOutputTypes == WriterInv' => Output' \in Outputs /\ Present' \in Moments
<1>1. WriterInv => OutputTyped
    BY WriterOutput DEF OutputTyped
<1>2. WriterInv' => OutputTyped'
    BY <1>1, PTL
<1> QED BY <1>2 DEF OutputTyped

\* The output after a step is made of the variables after it.
LEMMA NextOutput ==
    /\ Output'.graph = graph' /\ Output'.tokens = tokens' /\ Output'.table = stringTable'
    /\ Output'.map = objectMap'
    /\ Present'.stack = wstack' /\ Present'.sent = Len(tokens') /\ Present'.known = Len(objectMap')
BY DEF Output, Present

\* A value is to be written when the moment has one due, and it is that one.
LEMMA MoreIsHasMore ==
    ASSUME WriterInv, MoreToWrite
    PROVE  HasMore(Output, Present) /\ Due(Output, Present) = ToWrite
<1>1. Len(tokens) = 0 <=> tokens = <<>>
    BY DEF WriterInv, WriterTypeOK
<1> QED BY <1>1, WriterOutput DEF HasMore, Due, Content, MoreToWrite, ToWrite

\* A sequence begins with itself,
LEMMA BeginsItself ==
    ASSUME NEW S, NEW q \in Seq(S)
    PROVE  Begins(q, q)
BY DEF Begins

\* and a longer one with the shorter.
LEMMA BeginsLonger ==
    ASSUME NEW S, NEW q \in Seq(S), NEW x \in S
    PROVE  Begins(q, Append(q, x)) /\ Begins(q, WithString(q, x))
BY DEF Begins, WithString

\* A value is written that opens no object.
LEMMA ValueWritten ==
    ASSUME WriterInv, WriterInv', MoreToWrite, UNCHANGED <<graph, objectMap>>,
           NEW t \in Int, tokens' = Append(tokens, t), wstack' = Resumed(wstack),
           Begins(stringTable, stringTable'),
           \/ ToWrite = Null /\ t = 0
           \/ ToWrite \in Strings /\ t \in 1 .. Len(stringTable') /\ stringTable'[t] = ToWrite
           \/ ToWrite \in Objects /\ -t \in 1 .. Len(objectMap) /\ objectMap[-t] = ToWrite
    PROVE  Grown(Output, Output') /\ Wrote(Output', Present, Present')
<1>1. /\ tokens \in Seq(Int) /\ objectMap \in Seq(Objects)
      /\ Output' \in Outputs /\ Present' \in Moments
      /\ Output'.graph = graph' /\ Output'.tokens = tokens' /\ Output'.table = stringTable'
      /\ Output'.map = objectMap'
      /\ Present'.stack = wstack' /\ Present'.sent = Len(tokens') /\ Present'.known = Len(objectMap')
    BY NextOutputTypes, NextOutput DEF WriterInv, WriterTypeOK
<1>2. Len(tokens') = Len(tokens) + 1 /\ tokens'[Len(tokens) + 1] = t /\ Len(tokens) \in Nat
    BY <1>1, Appended
<1>3. Begins(tokens, tokens') /\ Begins(objectMap, objectMap)
    BY <1>1, BeginsLonger, BeginsItself
<1>4. Grown(Output, Output')
    BY <1>1, <1>3, WriterOutput DEF Grown
<1>5. \A o : Content(Output', o) = Content(Output, o)
    BY <1>1, WriterOutput DEF Content
<1>6. HasMore(Output', Present) /\ Due(Output', Present) = ToWrite
    BY <1>5, MoreIsHasMore DEF HasMore, Due
<1>7. WroteValue(Output', Present, Present')
    BY <1>1, <1>2, <1>6, WriterOutput DEF WroteValue
<1>8. Present'.sent <= Len(Output'.tokens)
    BY <1>1, <1>2
<1> QED BY <1>4, <1>7, <1>8 DEF Wrote

\* writeString and writeObject of a null are a step of the run,
LEMMA NullIsWrote ==
    ASSUME WriterInv, WriteNull
    PROVE  Grown(Output, Output') /\ Wrote(Output', Present, Present')
<1>1. WriterInv' /\ MoreToWrite /\ ToWrite = Null /\ 0 \in Int
    BY WriteNullKeeps DEF WriteNull
<1>2. /\ UNCHANGED <<graph, objectMap>> /\ tokens' = Append(tokens, 0)
      /\ wstack' = Resumed(wstack) /\ stringTable' = stringTable
    BY DEF WriteNull
<1>3. Begins(stringTable, stringTable)
    BY BeginsItself DEF WriterInv, WriterTypeOK
<1> QED BY <1>1, <1>2, <1>3, ValueWritten

\* so is writeString, which finds the string in the table or adds it,
LEMMA StringIsWrote ==
    ASSUME WriterInv, WriteString
    PROVE  Grown(Output, Output') /\ Wrote(Output', Present, Present')
<1> DEFINE t == IndexOf(stringTable', ToWrite)
<1>1. WriterInv' /\ MoreToWrite /\ ToWrite \in Strings
    BY WriteStringKeeps DEF WriteString
<1>2. /\ UNCHANGED <<graph, objectMap>> /\ tokens' = Append(tokens, t)
      /\ wstack' = Resumed(wstack) /\ stringTable' = WithString(stringTable, ToWrite)
    BY DEF WriteString
<1>3. stringTable \in Seq(Strings \cup Types) /\ ToWrite \in Strings \cup Types
    BY <1>1 DEF WriterInv, WriterTypeOK
<1>4. Begins(stringTable, stringTable') /\ stringTable' \in Seq(Strings \cup Types)
      /\ ToWrite \in Elements(stringTable')
    BY <1>2, <1>3, BeginsLonger, StringIsThere
<1>5. t \in 1 .. Len(stringTable') /\ stringTable'[t] = ToWrite
    BY <1>4, IndexOfElement
<1> HIDE DEF t
<1>6. t \in Int
    BY <1>5
<1> QED BY <1>1, <1>2, <1>4, <1>5, <1>6, ValueWritten

\* writeObject of an object met before,
LEMMA BackReferenceIsWrote ==
    ASSUME WriterInv, WriteBackReference
    PROVE  Grown(Output, Output') /\ Wrote(Output', Present, Present')
<1> DEFINE k == IndexOf(objectMap, ToWrite)
           t == -k
<1>1. WriterInv' /\ MoreToWrite /\ ToWrite \in Elements(objectMap)
    BY WriteBackReferenceKeeps DEF WriteBackReference
<1>2. /\ UNCHANGED <<graph, objectMap>> /\ tokens' = Append(tokens, t)
      /\ wstack' = Resumed(wstack) /\ stringTable' = stringTable
    BY DEF WriteBackReference
<1>3. objectMap \in Seq(Objects) /\ Begins(stringTable, stringTable')
    BY <1>2, BeginsItself DEF WriterInv, WriterTypeOK
<1>4. k \in 1 .. Len(objectMap) /\ objectMap[k] = ToWrite
    BY <1>1, <1>3, IndexOfElement
<1> HIDE DEF k
<1>5. t \in Int /\ -t = k
    BY <1>4
<1>6. ToWrite \in Objects
    BY <1>3, <1>4
<1> HIDE DEF t
<1> QED BY <1>1, <1>2, <1>3, <1>4, <1>5, <1>6, ValueWritten

\* What is announced: the object's index, its type, and the number that goes before its items
LEMMA AnnouncedTokens ==
    ASSUME WriterInv, NEW o \in Objects, NEW tail \in Seq(Nat), Announce(o, tail)
    PROVE  LET t == tokens'[Len(tokens) + 1]
           IN /\ Begins(tokens, tokens') /\ Begins(stringTable, stringTable')
              /\ Begins(objectMap, objectMap')
              /\ Len(tokens') = Len(tokens) + 1 + Len(tail)
              /\ t \in 1 .. Len(stringTable') /\ stringTable'[t] = graph[o].type
              /\ tail # <<>> => tokens'[Len(tokens) + 2] = tail[1]
              /\ Len(objectMap') = Len(objectMap) + 1 /\ objectMap'[Len(objectMap) + 1] = o
<1> DEFINE n == IndexOf(stringTable', graph[o].type)
           head == Append(tokens, n)
<1>1. /\ tokens \in Seq(Int) /\ objectMap \in Seq(Objects)
      /\ stringTable \in Seq(Strings \cup Types) /\ graph[o].type \in Strings \cup Types
    BY DEF WriterInv, WriterTypeOK
<1>2. /\ objectMap' = Append(objectMap, o) /\ stringTable' = WithString(stringTable, graph[o].type)
      /\ tokens' = head \o tail
    BY DEF Announce
<1>3. stringTable' \in Seq(Strings \cup Types) /\ graph[o].type \in Elements(stringTable')
    BY <1>1, <1>2, StringIsThere
<1>4. n \in 1 .. Len(stringTable') /\ stringTable'[n] = graph[o].type
    BY <1>3, IndexOfElement
<1>5. Begins(objectMap, objectMap') /\ Begins(stringTable, stringTable')
    BY <1>1, <1>2, BeginsLonger
<1>6. Len(objectMap') = Len(objectMap) + 1 /\ objectMap'[Len(objectMap) + 1] = o
    BY <1>1, <1>2, Appended
<1> HIDE DEF n
<1>7. n \in Int
    BY <1>4
<1>8. /\ head \in Seq(Int) /\ Len(head) = Len(tokens) + 1 /\ Len(tokens) \in Nat
      /\ \A k \in 1 .. Len(tokens) : head[k] = tokens[k]
      /\ head[Len(tokens) + 1] = n
    BY <1>1, <1>7, Appended
<1> HIDE DEF head
<1>9. tail \in Seq(Int) /\ Len(tail) \in Nat
    OBVIOUS
<1>10. /\ Len(tokens') = Len(head) + Len(tail)
       /\ \A k \in 1 .. Len(head) + Len(tail) :
            tokens'[k] = IF k <= Len(head) THEN head[k] ELSE tail[k - Len(head)]
  <2>1. /\ Len(head \o tail) = Len(head) + Len(tail)
        /\ \A k \in 1 .. Len(head) + Len(tail) :
             (head \o tail)[k] = IF k <= Len(head) THEN head[k] ELSE tail[k - Len(head)]
    <3>1. head \in Seq(Int) /\ tail \in Seq(Int)
        BY <1>8, <1>9
    <3> QED BY <3>1
  <2> QED BY <1>2, <2>1
<1>11. \A k \in 1 .. Len(head) : k \in 1 .. Len(head) + Len(tail) /\ k <= Len(head)
    BY <1>8, <1>9
<1>12. \A k \in 1 .. Len(head) : tokens'[k] = head[k]
    BY <1>10, <1>11
<1>13. Len(tokens') = Len(tokens) + 1 + Len(tail) /\ Len(tokens) <= Len(tokens')
    BY <1>8, <1>9, <1>10
<1>14. \A k \in 1 .. Len(tokens) : k \in 1 .. Len(head)
    BY <1>8
<1>15. Len(tokens) + 1 \in 1 .. Len(head)
    BY <1>8
<1>16. tokens'[Len(tokens) + 1] = n
    BY <1>8, <1>12, <1>15
<1>17. \A k \in 1 .. Len(tokens) : tokens'[k] = tokens[k]
    BY <1>8, <1>12, <1>14
<1>18. ASSUME tail # <<>> PROVE tokens'[Len(tokens) + 2] = tail[1]
  <2>1. Len(tail) > 0
      BY <1>18, <1>9
  <2>2. /\ Len(tokens) + 2 \in 1 .. Len(head) + Len(tail) /\ ~(Len(tokens) + 2 <= Len(head))
        /\ Len(tokens) + 2 - Len(head) = 1
      BY <1>8, <1>9, <2>1
  <2> QED BY <1>10, <2>2
<1> QED BY <1>4, <1>5, <1>6, <1>13, <1>16, <1>17, <1>18 DEF Begins

\* writeObject of one met for the first time,
LEMMA ObjectIsWrote ==
    ASSUME WriterInv, WriteObject
    PROVE  Grown(Output, Output') /\ Wrote(Output', Present, Present')
<1> DEFINE o == ToWrite
           tail == Prologue(o)
           t == tokens'[Len(tokens) + 1]
           kind == Kind[graph[o].type]
<1>1. /\ WriterInv' /\ MoreToWrite /\ o \in Objects /\ graph' = graph /\ Announce(o, tail)
      /\ wstack' = Append(Resumed(wstack), [obj |-> o, next |-> 1])
    BY WriteObjectKeeps DEF WriteObject
<1>2. graph[o].type \in Types /\ graph[o].items \in Seq(Items) /\ Len(graph[o].items) \in Nat
  <2>1. graph \in [Objects -> [type : Types, items : Seq(Items)]]
      BY DEF WriterInv, WriterTypeOK
  <2>2. graph[o] \in [type : Types, items : Seq(Items)]
      BY <1>1, <2>1
  <2>3. graph[o].type \in Types /\ graph[o].items \in Seq(Items)
      BY <2>2
  <2> QED BY <2>3
<1>3. /\ tail \in Seq(Nat) /\ Len(tail) = (IF kind \in {"array", "list", "enum"} THEN 1 ELSE 0)
      /\ kind \in {"array", "list"} => tail # <<>> /\ tail[1] = Len(graph[o].items)
  <2>1. CASE kind \in {"array", "list"}
    <3>1. tail = <<Len(graph[o].items)>>
        BY <2>1 DEF Prologue
    <3> QED BY <1>2, <2>1, <3>1
  <2>2. CASE kind = "enum"
    <3>1. tail = <<0>>
        BY <2>2 DEF Prologue
    <3> QED BY <2>2, <3>1
  <2>3. CASE kind \notin {"array", "list", "enum"}
    <3>1. tail = <<>>
        BY <2>3 DEF Prologue
    <3> QED BY <2>3, <3>1
  <2> QED BY <2>1, <2>2, <2>3
<1> HIDE DEF tail, kind, o
<1>4. /\ Begins(tokens, tokens') /\ Begins(stringTable, stringTable')
      /\ Begins(objectMap, objectMap')
      /\ Len(tokens') = Len(tokens) + 1 + Len(tail)
      /\ t \in 1 .. Len(stringTable') /\ stringTable'[t] = graph[o].type
      /\ tail # <<>> => tokens'[Len(tokens) + 2] = tail[1]
      /\ Len(objectMap') = Len(objectMap) + 1 /\ objectMap'[Len(objectMap) + 1] = o
    BY <1>1, <1>3, AnnouncedTokens
<1>5. /\ Output' \in Outputs /\ Present' \in Moments
      /\ Output'.graph = graph' /\ Output'.tokens = tokens' /\ Output'.table = stringTable'
      /\ Output'.map = objectMap'
      /\ Present'.stack = wstack' /\ Present'.sent = Len(tokens') /\ Present'.known = Len(objectMap')
    BY <1>1, NextOutputTypes, NextOutput
<1>6. Grown(Output, Output')
    BY <1>1, <1>4, <1>5, WriterOutput DEF Grown
<1>7. \A x : Content(Output', x) = Content(Output, x) /\ Content(Output, x) = graph[x].items
    BY <1>1, <1>5, WriterOutput DEF Content
<1>8. HasMore(Output', Present) /\ Due(Output', Present) = o
    BY <1>1, <1>7, MoreIsHasMore DEF HasMore, Due, o
<1>9. Len(tokens') = Len(tokens) + (IF kind \in {"array", "list", "enum"} THEN 2 ELSE 1)
  <2>1. Len(tokens) \in Nat
      BY WriterOutput
  <2> QED BY <1>3, <1>4, <2>1
<1>10. kind \in {"array", "list"} => tokens'[Len(tokens) + 2] = Len(Content(Output', o))
    BY <1>3, <1>4, <1>7
<1>11. Len(objectMap') = Len(objectMap) + 1 /\ Len(objectMap') <= Len(objectMap')
    BY <1>4, WriterOutput
<1> HIDE DEF t
<1>12. WroteObject(Output', Present, Present')
    BY <1>1, <1>4, <1>5, <1>8, <1>9, <1>10, <1>11, WriterOutput DEF WroteObject, kind, t
<1>13. Present'.sent <= Len(Output'.tokens)
    BY <1>5, <1>9, WriterOutput
<1> QED BY <1>6, <1>12, <1>13 DEF Wrote

\* and the return of serialize.
LEMMA EndIsWrote ==
    ASSUME WriterInv, EndObject
    PROVE  Grown(Output, Output') /\ Wrote(Output', Present, Present')
<1>1. /\ UNCHANGED <<graph, objectMap, stringTable, tokens>> /\ wstack # <<>> /\ wstack' = Pop(wstack)
      /\ Top(wstack).next > Len(graph[Top(wstack).obj].items)
    BY DEF EndObject
<1>2. Output' = Output
    BY <1>1 DEF Output
<1>3. /\ Present'.stack = Pop(wstack) /\ Present'.sent = Len(tokens)
      /\ Present'.known = Len(objectMap)
    BY <1>1 DEF Present
<1>4. Grown(Output, Output)
    BY WriterOutput, BeginsItself DEF Grown, WriterInv, WriterTypeOK
<1>5. Len(tokens) # 0
    BY <1>1 DEF WriterInv, WriterTypeOK
<1>6. WroteEnd(Output, Present, Present')
    BY <1>1, <1>3, <1>5, WriterOutput DEF WroteEnd, Content
<1>7. Present'.sent <= Len(Output.tokens)
    BY <1>3, WriterOutput
<1> QED BY <1>2, <1>4, <1>6, <1>7 DEF Wrote

--------------------------------------------------------------------------------
\* Unless a type was refused, what is written is a run.
RunInv ==
    /\ WriterInv
    /\ status # "refused" => \E w : IsRun(Output, w, Present)
    /\ status \notin {"writing", "refused"} => wstack = <<>> /\ tokens # <<>>

\* The run of a writer that has not begun is one moment long.
LEMMA InitRun == Init => RunInv
<1> SUFFICES ASSUME Init PROVE RunInv
    OBVIOUS
<1>1. WriterInv
    BY InitWriter
<1>2. wstack = <<>> /\ tokens = <<>> /\ objectMap = <<>> /\ status = "writing"
    BY DEF Init
<1>3. Present = Start
    BY <1>2 DEF Present, Start
<1>4. Start \in Moments /\ Start.stack = <<>> /\ Start.sent = 0 /\ Start.known = 0
    BY DEF Start, Moments
<1>5. MomentOK(Output, Start)
    BY <1>4, <1>1, WriterOutput DEF MomentOK
<1> DEFINE w == <<Start>>
<1>6. w \in Seq(Moments) /\ w # <<>> /\ Len(w) = 1 /\ w[1] = Start
    BY <1>4
<1> HIDE DEF w
<1>7. 1 .. Len(w) - 1 = {} /\ \A i \in 1 .. Len(w) : i = 1
    BY <1>6
<1>8. IsRun(Output, w, Present)
    BY <1>3, <1>5, <1>6, <1>7 DEF IsRun
<1> QED BY <1>1, <1>2, <1>8 DEF RunInv

\* Every step of the writer makes the run one moment longer, and no step of the reader does.
LEMMA NextRun == RunInv /\ [Next]_vars => RunInv'
<1> SUFFICES ASSUME RunInv, [Next]_vars PROVE RunInv'
    OBVIOUS
<1>1. WriterInv /\ WriterInv'
    BY NextKeepsWriter DEF RunInv
<1>2. CASE WriteNull \/ WriteString \/ WriteBackReference \/ WriteObject \/ EndObject
  <2>1. status = "writing" /\ status' = status
      BY <1>2 DEF WriteNull, WriteString, WriteBackReference, WriteObject, EndObject, MoreToWrite
  <2>2. Grown(Output, Output') /\ Wrote(Output', Present, Present')
      BY <1>1, <1>2, NullIsWrote, StringIsWrote, BackReferenceIsWrote, ObjectIsWrote, EndIsWrote
  <2>3. PICK w : IsRun(Output, w, Present)
      BY <2>1 DEF RunInv
  <2>4. Output \in Outputs
      BY <1>1, WriterOutput
  <2>5. Output' \in Outputs /\ Present' \in Moments
      BY <1>1, NextOutputTypes
  <2>6. IsRun(Output', Append(w, Present'), Present')
      BY <2>2, <2>3, <2>4, <2>5, RunGrows
  <2> QED BY <1>1, <2>1, <2>6 DEF RunInv
<1>3. CASE Refuse
    BY <1>1, <1>3 DEF RunInv, Refuse
<1>4. CASE /\ UNCHANGED <<graph, writerVars>>
           /\ status' = status \/ (status # "refused" /\ wstack = <<>> /\ tokens # <<>>)
  <2>1. Output' = Output /\ Present' = Present /\ wstack' = wstack /\ tokens' = tokens
      BY <1>4 DEF Output, Present, writerVars
  <2> QED BY <1>1, <1>4, <2>1 DEF RunInv
<1>5. CASE Transmit \/ Finished \/ UNCHANGED vars
    BY <1>4, <1>5 DEF Transmit, Finished, vars
<1>6. CASE ReadNull \/ ReadString \/ ReadBackReference \/ ReadObject \/ RejectType
           \/ EndInstance \/ EndReplacement
  <2>1. status = "reading" /\ UNCHANGED <<graph, writerVars>>
      BY <1>6 DEF ReadNull, ReadString, ReadBackReference, ReadObject, RejectType,
                  EndInstance, EndReplacement, MoreToRead, ItemsAreRead
  <2> QED BY <1>4, <2>1 DEF RunInv
<1> QED BY <1>2, <1>3, <1>5, <1>6 DEF Next

--------------------------------------------------------------------------------
(* What the reader has got stays true as it goes on.                            *)

\* Sequences of a part are sequences of the whole.
LEMMA SeqOf ==
    ASSUME NEW S, NEW T, S \subseteq T
    PROVE  Seq(S) \subseteq Seq(T)
OBVIOUS

\* With more objects there are more values and cells,
LEMMA MoreValues ==
    ASSUME NEW n \in Nat, NEW p \in Nat, n <= p
    PROVE  /\ Values(n) \subseteq Values(p) /\ Seq(Values(n)) \subseteq Seq(Values(p))
           /\ Cells(n) \subseteq Cells(p) /\ Seq(Cells(n)) \subseteq Seq(Cells(p))
<1>1. Values(n) \subseteq Values(p)
    BY DEF Values
<1>2. Seq(Values(n)) \subseteq Seq(Values(p))
    BY <1>1, SeqOf
<1>3. Cells(n) \subseteq Cells(p)
    BY <1>2 DEF Cells
<1>4. Seq(Cells(n)) \subseteq Seq(Cells(p))
    BY <1>3, SeqOf
<1> QED BY <1>1, <1>2, <1>3, <1>4

\* and more calls.
LEMMA MoreCalls ==
    ASSUME NEW n \in Nat, NEW p \in Nat, n <= p, NEW k \in Nat, NEW l \in Nat, k <= l
    PROVE  Calls(k, n) \subseteq Calls(l, p) /\ Seq(Calls(k, n)) \subseteq Seq(Calls(l, p))
<1>1. Seq(Values(n)) \subseteq Seq(Values(p)) /\ 1 .. k \subseteq 1 .. l /\ 0 .. n \subseteq 0 .. p
    BY MoreValues
<1>2. Calls(k, n) \subseteq Calls(l, p)
    BY <1>1 DEF Calls
<1> QED BY <1>2, SeqOf

\* No item is a number, so a value that is one is an object the reader created.
LEMMA NotNumbers ==
    /\ Null \notin Int /\ Root \notin Int /\ \A s \in Strings : s \notin Int
    /\ \A o \in Objects : o \notin Int
    /\ \A n \in Nat : \A v \in Values(n) : v \in Int => v \in 1 .. n
BY ValueAssumption DEF Items, Values

\* What the fields of a reader are
LEMMA ReaderFields ==
    ASSUME NEW r, ReaderOK(r)
    PROVE  /\ Len(r.seen) \in Nat /\ Len(r.heap) \in Nat /\ Len(r.stack) \in Nat
           /\ r.seen \in Seq(Values(Len(r.heap))) /\ r.heap \in Seq(Cells(Len(r.heap)))
           /\ r.stack \in Seq(Calls(Len(r.seen), Len(r.heap)))
           /\ \A k \in 1 .. Len(r.seen) : r.seen[k] \in Values(Len(r.heap))
           /\ \A h \in 1 .. Len(r.heap) :
                /\ r.heap[h] \in Cells(Len(r.heap))
                /\ r.heap[h].type \in Types /\ r.heap[h].items \in Seq(Values(Len(r.heap)))
           /\ \A d \in 1 .. Len(r.stack) :
                /\ r.stack[d] \in Calls(Len(r.seen), Len(r.heap))
                /\ r.stack[d].type \in Types /\ r.stack[d].slot \in 1 .. Len(r.seen)
                /\ r.stack[d].self \in 0 .. Len(r.heap) /\ r.stack[d].length \in Nat
                /\ r.stack[d].got \in Seq(Values(Len(r.heap)))
<1>1. /\ r.seen \in Seq(Values(Len(r.heap))) /\ r.heap \in Seq(Cells(Len(r.heap)))
      /\ r.stack \in Seq(Calls(Len(r.seen), Len(r.heap)))
    BY DEF ReaderOK
<1>2. /\ Len(r.seen) \in Nat /\ Len(r.heap) \in Nat /\ Len(r.stack) \in Nat
      /\ \A k \in 1 .. Len(r.seen) : r.seen[k] \in Values(Len(r.heap))
      /\ \A h \in 1 .. Len(r.heap) : r.heap[h] \in Cells(Len(r.heap))
      /\ \A d \in 1 .. Len(r.stack) : r.stack[d] \in Calls(Len(r.seen), Len(r.heap))
    BY <1>1
<1>3. \A x \in Cells(Len(r.heap)) : x.type \in Types /\ x.items \in Seq(Values(Len(r.heap)))
    BY DEF Cells
<1>4. \A f \in Calls(Len(r.seen), Len(r.heap)) :
         /\ f.type \in Types /\ f.slot \in 1 .. Len(r.seen)
         /\ f.self \in 0 .. Len(r.heap) /\ f.length \in Nat
         /\ f.got \in Seq(Values(Len(r.heap)))
    BY DEF Calls
<1> QED BY <1>1, <1>2, <1>3, <1>4

\* What was read is not taken back: the reader only goes on.
Later(r, r2) ==
    /\ Len(r.heap) \in Nat /\ Len(r2.heap) \in Nat /\ Len(r.seen) \in Nat /\ Len(r2.seen) \in Nat
    /\ Len(r.heap) <= Len(r2.heap) /\ Len(r.seen) <= Len(r2.seen)
    /\ \A k \in (1 .. Len(r.seen)) \ Pending(r) : k \notin Pending(r2) /\ r2.seen[k] = r.seen[k]

\* What was read for an object is still its copy later,
LEMMA ReadLater ==
    ASSUME NEW c, NEW r, NEW r2, Later(r, r2), NEW v, NEW x, Read(c, r, v, x)
    PROVE  Read(c, r2, v, x)
<1>1. CASE x \in Objects
  <2>1. v \in 1 .. Len(r2.heap) \cup {Null}
      BY <1>1 DEF Read, Later
  <2>2. ASSUME ~KnottedIn(c)
        PROVE  \E k \in (1 .. Len(r2.seen)) \ Pending(r2) : c.map[k] = x /\ v = r2.seen[k]
    <3>1. PICK k \in (1 .. Len(r.seen)) \ Pending(r) : c.map[k] = x /\ v = r.seen[k]
        BY <1>1, <2>2 DEF Read
    <3>2. k \in 1 .. Len(r2.seen)
        BY DEF Later
    <3> QED BY <3>1, <3>2 DEF Later
  <2> QED BY <1>1, <2>1, <2>2 DEF Read
<1>2. CASE x \notin Objects
    BY <1>2 DEF Read
<1> QED BY <1>1, <1>2

\* as are all items of a call,
LEMMA AllReadLater ==
    ASSUME NEW c, NEW r, NEW r2, Later(r, r2), NEW got, NEW o, AllRead(c, r, got, o)
    PROVE  AllRead(c, r2, got, o)
BY ReadLater DEF AllRead

\* the call that has them,
LEMMA CallMatchesLater ==
    ASSUME NEW c, NEW r, NEW r2, Later(r, r2), NEW m, NEW n, NEW d, NEW lag, NEW lag2,
           CallMatches(c, m, r, d, lag),
           r2.stack[d] = r.stack[d], n.stack[d].obj = m.stack[d].obj, n.known >= m.known,
           m.known \in Nat, n.known \in Nat, r.stack[d].slot \in Nat,
           d = Len(n.stack) => Len(r.stack[d].got) = n.stack[d].next - 1 - lag2,
           d # Len(n.stack) => Len(r.stack[d].got) = n.stack[d].next - 1 - 1,
           Kind[r.stack[d].type] \notin Replaceable => r2.seen[r.stack[d].slot] = r.seen[r.stack[d].slot]
    PROVE  CallMatches(c, n, r2, d, lag2)
<1> DEFINE f == r.stack[d]
           o == m.stack[d].obj
<1>1. /\ f.type = c.graph[o].type /\ f.length = Len(Content(c, o))
      /\ f.slot <= m.known /\ c.map[f.slot] = o
      /\ Kind[f.type] \notin Replaceable => f.self = r.seen[f.slot]
      /\ AllRead(c, r, f.got, o)
    BY DEF CallMatches
<1>2. AllRead(c, r2, f.got, o)
    BY <1>1, AllReadLater
<1>3. f.slot <= n.known
    BY <1>1
<1>4. Len(f.got) = n.stack[d].next - 1 - (IF d = Len(n.stack) THEN lag2 ELSE 1)
    OBVIOUS
<1> QED BY <1>1, <1>2, <1>3, <1>4 DEF CallMatches

\* and a registered value that did not change.
LEMMA SlotMatchesLater ==
    ASSUME NEW c, NEW r, NEW r2, Later(r, r2), NEW k, SlotMatches(c, r, k),
           k \in Pending(r) <=> k \in Pending(r2), r2.seen[k] = r.seen[k],
           r.seen[k] \in 1 .. Len(r.heap) => r2.heap[r.seen[k]].type = r.heap[r.seen[k]].type,
           r.seen[k] \in 1 .. Len(r.heap) =>
               \/ \E d \in 1 .. Len(r2.stack) : r2.stack[d].slot = k
               \/ /\ r2.heap[r.seen[k]].items = r.heap[r.seen[k]].items
                  /\ \A d \in 1 .. Len(r.stack) : r.stack[d].slot # k
    PROVE  SlotMatches(c, r2, k)
<1> DEFINE v == r.seen[k]
           sent == c.graph[c.map[k]]
<1>1. CASE k \in Pending(r)
    BY <1>1 DEF SlotMatches, Later
<1>2. CASE k \notin Pending(r)
  <2>1. /\ v \in 1 .. Len(r.heap) /\ r.heap[v].type = sent.type
        /\ (\A d \in 1 .. Len(r.stack) : r.stack[d].slot # k) =>
             Len(r.heap[v].items) = Len(sent.items) /\ AllRead(c, r, r.heap[v].items, c.map[k])
      BY <1>2 DEF SlotMatches
  <2>2. v \in 1 .. Len(r2.heap) /\ r2.heap[v].type = sent.type
      BY <2>1 DEF Later
  <2>3. ASSUME \A d \in 1 .. Len(r2.stack) : r2.stack[d].slot # k
        PROVE  Len(r2.heap[v].items) = Len(sent.items) /\ AllRead(c, r2, r2.heap[v].items, c.map[k])
      BY <2>1, <2>3, AllReadLater
  <2> QED BY <1>2, <2>2, <2>3 DEF SlotMatches
<1> QED BY <1>1, <1>2

--------------------------------------------------------------------------------
(* What the reader does: a value is returned to a call, a call begins, a call ends. *)

\* What was asked for is returned to the innermost call.
Given(stack, v) == [stack EXCEPT ![Len(stack)].got = Append(stack[Len(stack)].got, v)]

\* s is the stack of calls with its innermost call changed, by one value.
OneGiven(s, stack, v, k, h) ==
    /\ s \in Seq(Calls(k, h)) /\ Len(s) = Len(stack) /\ Len(stack) \in Nat \ {0}
    /\ \A d \in 1 .. Len(stack) : d # Len(stack) => s[d] = stack[d]
    /\ \A d \in 1 .. Len(stack) : s[d].type = stack[d].type /\ s[d].slot = stack[d].slot
    /\ s[Len(stack)].self = stack[Len(stack)].self
    /\ s[Len(stack)].length = stack[Len(stack)].length
    /\ s[Len(stack)].got = Append(stack[Len(stack)].got, v)

\* Only the innermost call changes.
LEMMA GivenStack ==
    ASSUME NEW k \in Nat, NEW h \in Nat, NEW stack \in Seq(Calls(k, h)), stack # <<>>,
           NEW v \in Values(h)
    PROVE  OneGiven(Given(stack, v), stack, v, k, h)
<1> DEFINE n == Len(stack)
           f == stack[n]
           top == [f EXCEPT !.got = Append(f.got, v)]
           s == Given(stack, v)
<1>1. n \in Nat \ {0} /\ DOMAIN stack = 1 .. n /\ f \in Calls(k, h)
    BY TopAndPop DEF Top
<1>2. Append(f.got, v) \in Seq(Values(h))
    BY <1>1 DEF Calls
<1>3. top \in Calls(k, h) /\ top.type = f.type /\ top.slot = f.slot /\ top.self = f.self
      /\ top.length = f.length /\ top.got = Append(f.got, v)
    BY <1>1, <1>2 DEF Calls
<1>4. s = [stack EXCEPT ![n] = top]
    BY DEF Given
<1> HIDE DEF top, s
<1>5. s \in Seq(Calls(k, h)) /\ Len(s) = n
    BY <1>1, <1>3, <1>4
<1>6. s[n] = top /\ \A d \in 1 .. n : d # n => s[d] = stack[d]
  <2> HIDE DEF n
  <2>1. n \in DOMAIN stack /\ \A d \in 1 .. n : d \in DOMAIN stack
      BY <1>1
  <2> QED BY <1>4, <2>1, Zenon
<1> HIDE DEF n
<1>7. \A d \in 1 .. n : s[d].type = stack[d].type /\ s[d].slot = stack[d].slot
    BY <1>3, <1>6, SMTT(30)
<1>8. OneGiven(s, stack, v, k, h)
    BY <1>1, <1>3, <1>5, <1>6, <1>7, Zenon DEF n, OneGiven
<1> QED BY <1>8 DEF s

\* The placeholders depend on the indices and the kinds of the calls alone.
LEMMA SamePending ==
    ASSUME NEW r, NEW r2, Len(r2.seen) = Len(r.seen), Len(r2.stack) = Len(r.stack),
           \A d \in 1 .. Len(r.stack) : /\ r2.stack[d].type = r.stack[d].type
                                        /\ r2.stack[d].slot = r.stack[d].slot
    PROVE  Pending(r2) = Pending(r)
BY DEF Pending

\* The writer goes on after a value, the reader has still to be given it.
LEMMA Asked ==
    ASSUME NEW c \in Outputs, NEW m \in Moments, NEW n \in Moments, NEW r, Matches(c, m, r, 0),
           n.stack = Resumed(m.stack), n.known = m.known
    PROVE  Matches(c, n, r, 1)
<1>1. CASE m.stack = <<>>
  <2>1. n.stack = <<>> /\ Len(m.stack) = 0 /\ Len(n.stack) = 0
      BY <1>1 DEF Resumed
  <2>2. 1 .. Len(r.stack) = {}
      BY <1>1, <2>1 DEF Matches
  <2> QED BY <2>1, <2>2 DEF Matches
<1>2. CASE m.stack # <<>>
  <2> DEFINE l == Len(m.stack)
             s == Resumed(m.stack)
  <2>1. /\ Len(s) = l /\ l \in Nat \ {0}
        /\ \A d \in 1 .. l : s[d].obj = m.stack[d].obj
        /\ \A d \in 1 .. l - 1 : s[d].next = m.stack[d].next
        /\ s[l].next = m.stack[l].next + 1
      BY <1>2, MomentFields, ResumedStack
  <2>2. n.stack = s
      OBVIOUS
  <2>3. Len(r.stack) = l /\ \A d \in 1 .. l : CallMatches(c, m, r, d, 0)
      BY DEF Matches
  <2>4. \A d \in 1 .. l : m.stack[d].next \in Nat
      BY MomentFields
  <2> HIDE DEF s
  <2>5. ASSUME NEW d \in 1 .. l PROVE CallMatches(c, n, r, d, 1)
    <3>1. CASE d = l
      <4>1. Len(r.stack[d].got) = m.stack[d].next - 1
          BY <2>3, <2>4, <3>1 DEF CallMatches
      <4>2. Len(r.stack[d].got) = n.stack[d].next - 1 - 1
          BY <2>1, <2>2, <2>4, <3>1, <4>1
      <4> QED BY <2>1, <2>2, <2>3, <2>4, <4>2 DEF CallMatches
    <3>2. CASE d # l
      <4>1. d \in 1 .. l - 1
          BY <2>1, <3>2
      <4>2. Len(r.stack[d].got) = n.stack[d].next - 1 - 1
          BY <2>1, <2>2, <2>3, <2>4, <3>2, <4>1 DEF CallMatches
      <4> QED BY <2>1, <2>2, <2>3, <2>4, <4>2 DEF CallMatches
    <3> QED BY <3>1, <3>2
  <2> QED BY <2>1, <2>2, <2>3, <2>5 DEF Matches
<1> QED BY <1>1, <1>2

\* The reader is given what it asked for.
LEMMA Returned ==
    ASSUME NEW c \in Outputs, NEW n \in Moments, NEW r, NEW r2, Matches(c, n, r, 1),
           n.stack # <<>>, n.stack[Len(n.stack)].next > 1,
           n.stack[Len(n.stack)].next - 1 <= Len(Content(c, n.stack[Len(n.stack)].obj)),
           NEW v \in Values(Len(r.heap)),
           Read(c, r, v, Content(c, n.stack[Len(n.stack)].obj)[n.stack[Len(n.stack)].next - 1]),
           r2.stack = Given(r.stack, v), r2.seen = r.seen, r2.heap = r.heap
    PROVE  Matches(c, n, r2, 0)
<1> DEFINE l == Len(n.stack)
           e == n.stack[l]
           f == r.stack[l]
           g == r2.stack[l]
<1>1. ReaderOK(r) /\ Len(r.stack) = l /\ l \in Nat /\ l # 0 /\ Len(r.seen) = n.known
    BY MomentFields DEF Matches
<1>2. r.stack # <<>>
    BY <1>1
<1>3. /\ Len(r.seen) \in Nat /\ Len(r.heap) \in Nat
      /\ r.stack \in Seq(Calls(Len(r.seen), Len(r.heap)))
    BY <1>1, ReaderFields
<1>4. /\ r2.stack \in Seq(Calls(Len(r.seen), Len(r.heap))) /\ Len(r2.stack) = l /\ l \in Nat \ {0}
      /\ \A d \in 1 .. l : d # l => r2.stack[d] = r.stack[d]
      /\ \A d \in 1 .. l : r2.stack[d].type = r.stack[d].type /\ r2.stack[d].slot = r.stack[d].slot
      /\ g.self = f.self /\ g.length = f.length
      /\ g.got = Append(f.got, v)
  <2> HIDE DEF l, f, g
  <2>1. OneGiven(Given(r.stack, v), r.stack, v, Len(r.seen), Len(r.heap))
      BY <1>2, <1>3, GivenStack
  <2>2. OneGiven(r2.stack, r.stack, v, Len(r.seen), Len(r.heap))
      BY <2>1
  <2> QED BY <1>1, <2>2 DEF f, g, OneGiven
<1>5. ReaderOK(r2)
    BY <1>1, <1>4 DEF ReaderOK
<1>6. Pending(r2) = Pending(r)
    BY <1>1, <1>4, SamePending
<1>7. Later(r, r2)
    BY <1>3, <1>6 DEF Later
<1>8. l \in 1 .. l /\ \A d \in 1 .. l : CallMatches(c, n, r, d, 1)
  <2>1. \A d \in 1 .. Len(r.stack) : CallMatches(c, n, r, d, 1)
      BY DEF Matches
  <2> HIDE DEF l, e, f, g
  <2>2. Len(r.stack) = l /\ l \in Nat \ {0}
      BY <1>1
  <2> QED BY <2>1, <2>2
<1>9. e.obj \in Objects /\ e.next \in Nat /\ n.known \in Nat
    BY <1>8, MomentFields
<1> DEFINE q == Content(c, e.obj)
<1>10. q \in Seq(Items) /\ Len(q) \in Nat
    BY <1>9, OutputFields
<1>11. e.next > 1 /\ e.next - 1 <= Len(q) /\ Read(c, r, v, q[e.next - 1])
    OBVIOUS
<1>12. f.got \in Seq(Values(Len(r.heap))) /\ f.slot \in 1 .. Len(r.seen)
    BY <1>1, <1>8, ReaderFields, SMTT(30)
<1> HIDE DEF l, e, f, g, q
<1>13. CallMatches(c, n, r2, l, 0)
  <2>1. /\ f.type = c.graph[e.obj].type /\ f.length = Len(q)
        /\ f.slot <= n.known /\ c.map[f.slot] = e.obj
        /\ Kind[f.type] \notin Replaceable => f.self = r.seen[f.slot]
        /\ Len(f.got) = e.next - 2 /\ AllRead(c, r, f.got, e.obj)
    <3>1. CallMatches(c, n, r, l, 1)
        BY <1>8
    <3>2. Len(f.got) = e.next - 1 - 1
        BY <3>1 DEF CallMatches, e, f, l
    <3> QED BY <1>9, <3>1, <3>2 DEF CallMatches, e, f, q
  <2>2. /\ Len(g.got) = Len(f.got) + 1 /\ Len(f.got) \in Nat
        /\ \A j \in 1 .. Len(f.got) : g.got[j] = f.got[j]
        /\ g.got[Len(f.got) + 1] = v
      BY <1>4, <1>12, Appended
  <2>3. Len(g.got) = e.next - 1 /\ Len(g.got) <= Len(q)
      BY <1>9, <1>11, <2>1, <2>2
  <2>4. ASSUME NEW j \in 1 .. Len(g.got) PROVE Read(c, r2, g.got[j], q[j])
    <3>1. CASE j = Len(f.got) + 1
      <4>1. j = e.next - 1
          BY <1>9, <2>1, <3>1
      <4> QED BY <1>7, <1>11, <2>2, <3>1, <4>1, ReadLater
    <3>2. CASE j # Len(f.got) + 1
      <4>1. j \in 1 .. Len(f.got)
          BY <2>2, <3>2
      <4>2. Read(c, r, f.got[j], q[j])
          BY <2>1, <4>1 DEF AllRead, q
      <4> QED BY <1>7, <2>2, <4>1, <4>2, ReadLater
    <3> QED BY <3>1, <3>2
  <2>5. AllRead(c, r2, g.got, e.obj)
      BY <2>3, <2>4 DEF AllRead, q
  <2>6. g.type = f.type /\ g.slot = f.slot
      BY <1>4, <1>8 DEF f, g
  <2> QED BY <1>4, <2>1, <2>3, <2>5, <2>6 DEF CallMatches, e, g, l, q
<1>14. ASSUME NEW d \in 1 .. l, d # l PROVE CallMatches(c, n, r2, d, 0)
  <2>1. CallMatches(c, n, r, d, 1) /\ r2.stack[d] = r.stack[d] /\ r.stack[d].slot \in 1 .. Len(r.seen)
      BY <1>1, <1>4, <1>8, <1>14, ReaderFields
  <2>2. d # Len(n.stack) /\ Len(r.stack[d].got) = n.stack[d].next - 1 - 1
      BY <1>14, <2>1 DEF CallMatches, l
  <2>3. r.stack[d].slot \in Nat /\ n.known >= n.known
      BY <1>9, <2>1
  <2> QED BY <1>7, <1>9, <2>1, <2>2, <2>3, CallMatchesLater
<1>15. ASSUME NEW k \in 1 .. Len(r.seen) PROVE SlotMatches(c, r2, k)
  <2>1. SlotMatches(c, r, k)
      BY DEF Matches
  <2>2. \/ \E d \in 1 .. Len(r2.stack) : r2.stack[d].slot = k
        \/ \A d \in 1 .. Len(r.stack) : r.stack[d].slot # k
      BY <1>1, <1>4
  <2> QED BY <1>6, <1>7, <2>1, <2>2, SlotMatchesLater
<1>16. \A d, x \in 1 .. l : d # x => r2.stack[d].slot # r2.stack[x].slot
    BY <1>1, <1>4 DEF Matches
<1>17. \A k, x \in 1 .. Len(r2.seen) : k # x /\ r2.seen[k] \in Nat => r2.seen[k] # r2.seen[x]
    BY SMTT(30) DEF Matches
<1> QED BY <1>1, <1>4, <1>5, <1>13, <1>14, <1>15, <1>16, <1>17 DEF Matches, l

\* What the reader does when an object is announced
NewType(type) == IF Kind[type] = "array" THEN "LinkedList" ELSE type
Self(r, type) == IF Kind[type] = "factory" THEN 0 ELSE Len(r.heap) + 1
Registers(r, r2, type, length) ==
    /\ r2.heap = IF Kind[type] = "factory" THEN r.heap
                 ELSE Append(r.heap, [type |-> NewType(type), items |-> <<>>])
    /\ r2.seen = Append(r.seen, IF Kind[type] = "factory" THEN Null ELSE Self(r, type))
    /\ r2.stack = Append(r.stack, [type |-> type, slot |-> Len(r.seen) + 1,
                                   self |-> Self(r, type), length |-> length, got |-> <<>>])

\* A call begins: its index is taken, and it has no items yet.
LEMMA Opened ==
    ASSUME NEW c \in Outputs, NEW m \in Moments, NEW n \in Moments, NEW r, NEW r2,
           Matches(c, m, r, 1), NEW x \in Objects,
           n.stack = Append(m.stack, [obj |-> x, next |-> 1]), n.known = m.known + 1,
           c.map[n.known] = x, Registers(r, r2, c.graph[x].type, Len(Content(c, x)))
    PROVE  Matches(c, n, r2, 0)
<1>0. c.graph[x].type \in Types /\ NewType(c.graph[x].type) \in Types
      /\ (Kind[c.graph[x].type] # "array" => NewType(c.graph[x].type) = c.graph[x].type)
    BY OutputFields, TypeAssumption DEF NewType
<1> SUFFICES ASSUME NEW type, type = c.graph[x].type,
                    NEW new, new = NewType(type), new \in Types, Kind[type] # "array" => new = type,
                    NEW self, self = IF Kind[type] = "factory" THEN 0 ELSE Len(r.heap) + 1,
                    r2.heap = IF Kind[type] = "factory" THEN r.heap
                              ELSE Append(r.heap, [type |-> new, items |-> <<>>]),
                    r2.seen = Append(r.seen, IF Kind[type] = "factory" THEN Null ELSE self),
                    r2.stack = Append(r.stack, [type |-> type, slot |-> Len(r.seen) + 1,
                                                self |-> self, length |-> Len(Content(c, x)),
                                                got |-> <<>>])
             PROVE  Matches(c, n, r2, 0)
    BY <1>0, ZenonT(40) DEF Registers, Self
<1> DEFINE hp == Len(r.heap)
           hp2 == Len(r2.heap)
           k0 == Len(r.seen)
           l == Len(r.stack)
           cell == [type |-> new, items |-> <<>>]
           v0 == IF Kind[type] = "factory" THEN Null ELSE self
           f == [type |-> type, slot |-> k0 + 1, self |-> self,
                 length |-> Len(Content(c, x)), got |-> <<>>]
           e == [obj |-> x, next |-> 1]
<1>1. /\ k0 \in Nat /\ hp \in Nat /\ l \in Nat
      /\ r.seen \in Seq(Values(hp)) /\ r.heap \in Seq(Cells(hp)) /\ r.stack \in Seq(Calls(k0, hp))
      /\ \A d \in 1 .. l : r.stack[d].slot \in 1 .. k0
      /\ \A k \in 1 .. k0 : r.seen[k] \in Values(hp)
    BY ReaderFields DEF Matches
<1>2. type \in Types /\ Content(c, x) \in Seq(Items) /\ Len(Content(c, x)) \in Nat
    BY OutputFields
<1>3. /\ ReaderOK(r) /\ k0 = m.known /\ l = Len(m.stack) /\ m.known \in Nat
      /\ \A d \in 1 .. l : CallMatches(c, m, r, d, 1)
      /\ \A d, y \in 1 .. l : d # y => r.stack[d].slot # r.stack[y].slot
      /\ \A k \in 1 .. k0 : SlotMatches(c, r, k)
      /\ \A k, y \in 1 .. k0 : k # y /\ r.seen[k] \in Nat => r.seen[k] # r.seen[y]
    BY MomentFields DEF Matches
<1>4. /\ hp2 \in Nat /\ hp <= hp2 /\ r2.heap \in Seq(Cells(hp2))
      /\ \A h \in 1 .. hp : r2.heap[h] = r.heap[h]
      /\ self \in 0 .. hp2 /\ v0 \in 1 .. hp2 \cup {Null}
      /\ Kind[type] # "factory" => hp2 = hp + 1 /\ r2.heap[hp + 1] = cell
                                   /\ self = hp + 1 /\ v0 = hp + 1
      /\ Kind[type] = "factory" => v0 = Null
  <2>1. CASE Kind[type] = "factory"
      BY <1>1, <2>1
  <2>2. CASE Kind[type] # "factory"
    <3>1. r2.heap = Append(r.heap, cell)
        BY <2>2
    <3>2. hp + 1 \in Nat /\ hp <= hp + 1
        BY <1>1
    <3>3. cell \in Cells(hp + 1)
        BY DEF Cells
    <3>4. r.heap \in Seq(Cells(hp + 1))
        BY <1>1, <3>2, MoreValues
    <3>6. hp = Len(r.heap)
        OBVIOUS
    <3> HIDE DEF cell, hp, hp2, v0, f, e, k0, l
    <3>5. /\ r2.heap \in Seq(Cells(hp + 1)) /\ Len(r2.heap) = hp + 1
          /\ \A h \in 1 .. hp : r2.heap[h] = r.heap[h]
          /\ r2.heap[hp + 1] = cell
      <4> DEFINE S == Cells(hp + 1)
      <4>1. r.heap \in Seq(S) /\ cell \in S
          BY <3>3, <3>4
      <4> HIDE DEF S
      <4>2. /\ Append(r.heap, cell) \in Seq(S) /\ Len(Append(r.heap, cell)) = Len(r.heap) + 1
            /\ DOMAIN r.heap = 1 .. Len(r.heap)
            /\ \A h \in DOMAIN r.heap : Append(r.heap, cell)[h] = r.heap[h]
            /\ Append(r.heap, cell)[Len(r.heap) + 1] = cell
          BY <4>1, Appended
      <4> QED BY <3>1, <3>6, <4>2 DEF S
    <3> QED BY <1>1, <2>2, <3>2, <3>5, SMTT(30) DEF hp2, v0
  <2> QED BY <2>1, <2>2
<1>5. /\ r2.seen \in Seq(Values(hp2)) /\ Len(r2.seen) = k0 + 1 /\ r2.seen[k0 + 1] = v0
      /\ \A k \in 1 .. k0 : r2.seen[k] = r.seen[k]
  <2>1. r.seen \in Seq(Values(hp2)) /\ v0 \in Values(hp2)
      BY <1>1, <1>4, MoreValues DEF Values
  <2>2. r2.seen = Append(r.seen, v0)
      OBVIOUS
  <2> HIDE DEF v0, hp2
  <2> QED BY <1>1, <2>1, <2>2, Appended
<1>6. /\ r2.stack \in Seq(Calls(k0 + 1, hp2)) /\ Len(r2.stack) = l + 1 /\ r2.stack[l + 1] = f
      /\ \A d \in 1 .. l : r2.stack[d] = r.stack[d]
  <2>1. k0 + 1 \in Nat /\ k0 <= k0 + 1 /\ k0 + 1 \in 1 .. k0 + 1
      BY <1>1
  <2>2. r.stack \in Seq(Calls(k0 + 1, hp2))
      BY <1>1, <1>4, <2>1, MoreCalls
  <2>3. f \in Calls(k0 + 1, hp2)
      BY <1>2, <1>4, <2>1 DEF Calls
  <2>4. r2.stack = Append(r.stack, f)
      OBVIOUS
  <2> HIDE DEF f, hp2
  <2> QED BY <1>1, <2>2, <2>3, <2>4, Appended, SMTT(30)
<1>7. /\ Len(n.stack) = l + 1 /\ n.stack[l + 1] = e
      /\ \A d \in 1 .. l : n.stack[d] = m.stack[d]
  <2>1. m.stack \in Seq(Frames)
      BY MomentFields
  <2>3. e \in Frames
      BY DEF Frames
  <2>2. n.stack = Append(m.stack, e)
      OBVIOUS
  <2> HIDE DEF e
  <2> QED BY <1>3, <2>1, <2>2, <2>3, Appended
<1>8. f.type = type /\ f.slot = k0 + 1 /\ f.self = self /\ f.length = Len(Content(c, x))
      /\ f.got = <<>> /\ e.obj = x /\ e.next = 1 /\ cell.type = new
    BY SMTT(30)
<1> HIDE DEF hp, hp2, k0, l, cell, v0, f, e
<1>9. ReaderOK(r2)
    BY <1>1, <1>4, <1>5, <1>6 DEF ReaderOK, hp2
<1>10. /\ \A d \in 1 .. l + 1 : d = l + 1 \/ d \in 1 .. l
       /\ \A k \in 1 .. k0 + 1 : k = k0 + 1 \/ k \in 1 .. k0
       /\ \A d \in 1 .. l : d \in 1 .. l + 1 /\ d # l + 1
       /\ \A k \in 1 .. k0 : k \in 1 .. k0 + 1 /\ k # k0 + 1
       /\ l + 1 \in 1 .. l + 1 /\ k0 + 1 \in 1 .. k0 + 1
    BY <1>1, SMTT(30)
<1>11. \A k \in 1 .. k0 : k \in Pending(r2) <=> k \in Pending(r)
  <2>1. \A k \in 1 .. k0 :
          k \in Pending(r2) <=> \E d \in 1 .. l + 1 : r2.stack[d].slot = k /\ Kind[r2.stack[d].type] \in Replaceable
      BY <1>5, <1>6, <1>10 DEF Pending
  <2>2. \A k \in 1 .. k0 :
          k \in Pending(r) <=> \E d \in 1 .. l : r.stack[d].slot = k /\ Kind[r.stack[d].type] \in Replaceable
      BY DEF Pending, k0, l
  <2>3. \A k \in 1 .. k0 : r2.stack[l + 1].slot # k
      BY <1>6, <1>8, <1>10
  <2>4. ASSUME NEW k \in 1 .. k0 PROVE k \in Pending(r2) <=> k \in Pending(r)
    <3>1. ASSUME k \in Pending(r2) PROVE k \in Pending(r)
      <4>1. PICK d \in 1 .. l + 1 : r2.stack[d].slot = k /\ Kind[r2.stack[d].type] \in Replaceable
          BY <2>1, <3>1
      <4>2. d \in 1 .. l
          BY <1>10, <2>3, <4>1
      <4> QED BY <1>6, <2>2, <4>1, <4>2
    <3>2. ASSUME k \in Pending(r) PROVE k \in Pending(r2)
      <4>1. PICK d \in 1 .. l : r.stack[d].slot = k /\ Kind[r.stack[d].type] \in Replaceable
          BY <2>2, <3>2
      <4> QED BY <1>6, <1>10, <2>1, <4>1
    <3> QED BY <3>1, <3>2
  <2> QED BY <2>4
<1>12. Later(r, r2)
  <2>1. k0 <= k0 + 1 /\ k0 + 1 \in Nat
      BY <1>1
  <2>2. \A k \in (1 .. k0) \ Pending(r) : k \notin Pending(r2) /\ r2.seen[k] = r.seen[k]
      BY <1>5, <1>11
  <2> QED BY <1>1, <1>4, <1>5, <2>1, <2>2 DEF Later, k0, hp, hp2
<1>13. ASSUME NEW d \in 1 .. l PROVE CallMatches(c, n, r2, d, 0)
  <2>1. /\ CallMatches(c, m, r, d, 1) /\ r2.stack[d] = r.stack[d] /\ r.stack[d].slot \in 1 .. k0
        /\ n.stack[d] = m.stack[d]
      BY <1>1, <1>3, <1>6, <1>7
  <2>2. n.known \in Nat /\ n.known >= m.known
      BY <1>3
  <2>3. d # Len(n.stack) /\ Len(r.stack[d].got) = n.stack[d].next - 1 - 1
    <3>1. Len(r.stack[d].got) = m.stack[d].next - 1 - (IF d = Len(m.stack) THEN 1 ELSE 1)
        BY <2>1 DEF CallMatches
    <3>2. Len(r.stack[d].got) = m.stack[d].next - 1 - 1
        BY <3>1
    <3> QED BY <1>7, <1>10, <2>1, <3>2
  <2>4. r2.seen[r.stack[d].slot] = r.seen[r.stack[d].slot] /\ r.stack[d].slot \in Nat
    <3>1. r2.seen[r.stack[d].slot] = r.seen[r.stack[d].slot]
        BY <1>5, <2>1, Zenon
    <3>2. \A k \in 1 .. k0 : k \in Nat
        BY <1>1
    <3> QED BY <2>1, <3>1, <3>2
  <2>5. n.stack[d].obj = m.stack[d].obj /\ m.known \in Nat
      BY <1>3, <2>1
  <2>6. Kind[r.stack[d].type] \notin Replaceable => r2.seen[r.stack[d].slot] = r.seen[r.stack[d].slot]
      BY <2>4
  <2> QED BY <1>12, <2>1, <2>2, <2>3, <2>4, <2>5, <2>6, CallMatchesLater
<1>14. CallMatches(c, n, r2, l + 1, 0)
  <2>1. k0 + 1 \in Nat /\ k0 + 1 <= n.known /\ c.map[k0 + 1] = x
      BY <1>1, <1>3
  <2>2. Kind[type] \notin Replaceable => self = r2.seen[k0 + 1]
      BY <1>4, <1>5 DEF Replaceable
  <2>3. Len(f.got) = 0 /\ 1 .. Len(f.got) = {}
      BY <1>8
  <2>4. AllRead(c, r2, f.got, x)
      BY <1>2, <2>3 DEF AllRead
  <2>5. Len(f.got) = e.next - 1 - (IF l + 1 = Len(n.stack) THEN 0 ELSE 1)
    <3>1. e.next - 1 - 0 = 0
        BY <1>8
    <3> QED BY <1>7, <2>3, <3>1
  <2> QED BY <1>6, <1>7, <1>8, <2>1, <2>2, <2>4, <2>5 DEF CallMatches
<1>15. ASSUME NEW k \in 1 .. k0 PROVE SlotMatches(c, r2, k)
  <2>1. SlotMatches(c, r, k) /\ (k \in Pending(r) <=> k \in Pending(r2)) /\ r2.seen[k] = r.seen[k]
      BY <1>3, <1>5, <1>11
  <2>2. r.seen[k] \in 1 .. Len(r.heap) => r2.heap[r.seen[k]] = r.heap[r.seen[k]]
      BY <1>4 DEF hp
  <2>3. \/ \E d \in 1 .. Len(r2.stack) : r2.stack[d].slot = k
        \/ \A d \in 1 .. Len(r.stack) : r.stack[d].slot # k
      BY <1>6, <1>10 DEF l
  <2> QED BY <1>12, <2>1, <2>2, <2>3, SlotMatchesLater
<1>16. SlotMatches(c, r2, k0 + 1)
  <2>1. r2.stack[l + 1].slot = k0 + 1 /\ r2.stack[l + 1].type = type /\ l + 1 \in 1 .. Len(r2.stack)
      BY <1>6, <1>8, <1>10
  <2>2. c.map[k0 + 1] = x
      BY <1>3
  <2>3. CASE Kind[type] \in Replaceable
    <3>1. k0 + 1 \in Pending(r2)
        BY <1>5, <1>10, <2>1, <2>3, SMTT(30) DEF Pending
    <3> QED BY <1>4, <1>5, <3>1 DEF SlotMatches, hp2
  <2>4. CASE Kind[type] \notin Replaceable
    <3>1. v0 \in 1 .. hp2 /\ r2.heap[v0].type = type
        BY <1>1, <1>4, <1>8, <2>4 DEF Replaceable
    <3>2. k0 + 1 \notin Pending(r2)
      <4>1. ASSUME NEW d \in 1 .. l + 1, r2.stack[d].slot = k0 + 1 PROVE d = l + 1
          BY <1>1, <1>6, <1>10, <4>1
      <4> QED BY <1>6, <2>1, <2>4, <4>1 DEF Pending
    <3> QED BY <1>5, <2>1, <2>2, <3>1, <3>2 DEF SlotMatches, hp2
  <2> QED BY <2>3, <2>4
<1>17. \A d, y \in 1 .. l + 1 : d # y => r2.stack[d].slot # r2.stack[y].slot
  <2>1. \A d \in 1 .. l : r2.stack[d].slot \in 1 .. k0
      BY <1>1, <1>6
  <2>2. r2.stack[l + 1].slot = k0 + 1 /\ k0 + 1 \notin 1 .. k0
      BY <1>1, <1>6, <1>8
  <2>3. \A d, y \in 1 .. l : d # y => r2.stack[d].slot # r2.stack[y].slot
      BY <1>3, <1>6
  <2> QED BY <1>10, <2>1, <2>2, <2>3, ZenonT(40)
<1>18. ASSUME NEW k \in 1 .. k0 + 1, NEW y \in 1 .. k0 + 1, k # y, r2.seen[k] \in Nat
       PROVE  r2.seen[k] # r2.seen[y]
  <2>1. \A z \in 1 .. k0 : r2.seen[z] \in Nat => r2.seen[z] \in 1 .. hp
      BY <1>1, <1>5, NotNumbers
  <2>2. v0 \in Nat => v0 = hp + 1
      BY <1>4, NotNumbers
  <2>3. hp + 1 \in Nat /\ hp + 1 \notin 1 .. hp
      BY <1>1
  <2>4. CASE k \in 1 .. k0 /\ y \in 1 .. k0
      BY <1>3, <1>5, <1>18, <2>4
  <2>5. CASE k = k0 + 1 /\ y \in 1 .. k0
      BY <1>5, <1>18, <2>1, <2>2, <2>3, <2>5
  <2>6. CASE k \in 1 .. k0 /\ y = k0 + 1
      BY <1>5, <1>18, <2>1, <2>2, <2>3, <2>6
  <2> QED BY <1>10, <1>18, <2>4, <2>5, <2>6
<1>19. /\ Len(r2.seen) = n.known /\ Len(r2.stack) = Len(n.stack)
       /\ \A d \in 1 .. Len(r2.stack) : CallMatches(c, n, r2, d, 0)
       /\ \A k \in 1 .. Len(r2.seen) : SlotMatches(c, r2, k)
    BY <1>3, <1>5, <1>6, <1>7, <1>10, <1>13, <1>14, <1>15, <1>16
<1> QED BY <1>5, <1>6, <1>9, <1>17, <1>18, <1>19, ZenonT(40) DEF Matches

\* An object of the heap gets its items.
Filled(objects, h, items) == [objects EXCEPT ![h].items = items]

\* Filling an object changes its items alone.
LEMMA FilledHeap ==
    ASSUME NEW p \in Nat, NEW objects \in Seq(Cells(p)), NEW h \in 1 .. Len(objects),
           NEW items \in Seq(Values(p))
    PROVE  /\ Filled(objects, h, items) \in Seq(Cells(p))
           /\ Len(Filled(objects, h, items)) = Len(objects)
           /\ \A g \in 1 .. Len(objects) : g # h => Filled(objects, h, items)[g] = objects[g]
           /\ \A g \in 1 .. Len(objects) : Filled(objects, h, items)[g].type = objects[g].type
           /\ Filled(objects, h, items)[h].items = items
<1> DEFINE cell == [objects[h] EXCEPT !.items = items]
           s == Filled(objects, h, items)
           n == Len(objects)
<1>1. n \in Nat /\ DOMAIN objects = 1 .. n /\ objects[h] \in Cells(p)
    OBVIOUS
<1>2. cell \in Cells(p) /\ cell.type = objects[h].type /\ cell.items = items
    BY <1>1 DEF Cells
<1>3. s = [objects EXCEPT ![h] = cell]
    BY DEF Filled
<1> HIDE DEF cell, s
<1>4. s \in Seq(Cells(p)) /\ Len(s) = n
    BY <1>1, <1>2, <1>3
<1>5. s[h] = cell /\ \A g \in 1 .. n : g # h => s[g] = objects[g]
  <2> HIDE DEF n
  <2>1. h \in DOMAIN objects /\ \A g \in 1 .. n : g \in DOMAIN objects
      BY <1>1 DEF n
  <2> QED BY <1>3, <2>1, Zenon
<1> HIDE DEF n
<1>6. \A g \in 1 .. n : s[g].type = objects[g].type
    BY <1>2, <1>5
<1> QED BY <1>2, <1>4, <1>5, <1>6 DEF n, s

\* The calls that are left when the innermost one returns
LEMMA PoppedStack ==
    ASSUME NEW S, NEW stack \in Seq(S), stack # <<>>
    PROVE  /\ Len(stack) \in Nat \ {0} /\ Len(stack) \in 1 .. Len(stack) /\ Len(stack) - 1 \in Nat
           /\ Pop(stack) \in Seq(S) /\ Len(Pop(stack)) = Len(stack) - 1
           /\ \A d \in 1 .. Len(stack) - 1 :
                Pop(stack)[d] = stack[d] /\ d \in 1 .. Len(stack) /\ d # Len(stack)
           /\ \A d \in 1 .. Len(stack) : d = Len(stack) \/ d \in 1 .. Len(stack) - 1
<1>1. Len(stack) \in Nat \ {0} /\ Pop(stack) \in Seq(S) /\ Len(Pop(stack)) = Len(stack) - 1
      /\ \A d \in DOMAIN Pop(stack) : Pop(stack)[d] = stack[d]
    BY TopAndPop
<1>2. DOMAIN Pop(stack) = 1 .. Len(Pop(stack))
    BY <1>1
<1> QED BY <1>1, <1>2

\* What is pending when the innermost call returns
LEMMA PoppedPending ==
    ASSUME NEW r, NEW r2, ReaderOK(r), r.stack # <<>>, r2.stack = Pop(r.stack),
           Len(r2.seen) = Len(r.seen),
           \A d, e \in 1 .. Len(r.stack) : d # e => r.stack[d].slot # r.stack[e].slot
    PROVE  LET f == r.stack[Len(r.stack)]
           IN /\ f.slot \notin Pending(r2)
              /\ f.slot \in Pending(r) <=> Kind[f.type] \in Replaceable
              /\ \A k : k # f.slot => (k \in Pending(r2) <=> k \in Pending(r))
<1> DEFINE l == Len(r.stack)
           f == r.stack[l]
<1>1. /\ l \in Nat \ {0} /\ l \in 1 .. l /\ Len(r2.stack) = l - 1
      /\ \A d \in 1 .. l - 1 : r2.stack[d] = r.stack[d] /\ d \in 1 .. l /\ d # l
      /\ \A d \in 1 .. l : d = l \/ d \in 1 .. l - 1
  <2>1. r.stack \in Seq(Calls(Len(r.seen), Len(r.heap))) /\ r.stack # <<>>
      BY ReaderFields
  <2>2. r2.stack = Pop(r.stack)
      OBVIOUS
  <2> DEFINE S == Calls(Len(r.seen), Len(r.heap))
             q == r.stack
  <2>3. q \in Seq(S) /\ q # <<>>
      BY <2>1
  <2> HIDE DEF S, q, l, f
  <2>4. /\ Len(q) \in Nat \ {0} /\ Len(q) \in 1 .. Len(q) /\ Len(Pop(q)) = Len(q) - 1
        /\ \A d \in 1 .. Len(q) - 1 : Pop(q)[d] = q[d] /\ d \in 1 .. Len(q) /\ d # Len(q)
        /\ \A d \in 1 .. Len(q) : d = Len(q) \/ d \in 1 .. Len(q) - 1
      BY <2>3, PoppedStack
  <2> QED BY <2>2, <2>4 DEF q, l
<1>2. f.slot \in 1 .. Len(r.seen)
    BY <1>1, ReaderFields
<1>3. \A d \in 1 .. l - 1 : r.stack[d].slot # f.slot
    BY <1>1
<1>4. \A k : k \in Pending(r2) <=>
         k \in 1 .. Len(r.seen) /\ \E d \in 1 .. l - 1 : r2.stack[d].slot = k /\ Kind[r2.stack[d].type] \in Replaceable
    BY <1>1 DEF Pending
<1>5. \A k : k \in Pending(r) <=>
         k \in 1 .. Len(r.seen) /\ \E d \in 1 .. l : r.stack[d].slot = k /\ Kind[r.stack[d].type] \in Replaceable
    BY DEF Pending
<1> HIDE DEF l, f
<1>6. f.slot \notin Pending(r2)
    BY <1>1, <1>3, <1>4
<1>7. f.slot \in Pending(r) <=> Kind[f.type] \in Replaceable
  <2>1. ASSUME NEW d \in 1 .. l, r.stack[d].slot = f.slot PROVE r.stack[d] = f
      BY <1>1, <1>3, <2>1 DEF f
  <2> QED BY <1>1, <1>2, <1>5, <2>1 DEF f
<1>8. ASSUME NEW k, k # f.slot PROVE k \in Pending(r2) <=> k \in Pending(r)
  <2>1. ASSUME k \in Pending(r2) PROVE k \in Pending(r)
    <3>1. PICK d \in 1 .. l - 1 : r2.stack[d].slot = k /\ Kind[r2.stack[d].type] \in Replaceable
        BY <1>4, <2>1
    <3>2. k \in 1 .. Len(r.seen)
        BY <1>4, <2>1
    <3> QED BY <1>1, <1>5, <3>1, <3>2
  <2>2. ASSUME k \in Pending(r) PROVE k \in Pending(r2)
    <3>1. PICK d \in 1 .. l : r.stack[d].slot = k /\ Kind[r.stack[d].type] \in Replaceable
        BY <1>5, <2>2
    <3>2. k \in 1 .. Len(r.seen)
        BY <1>5, <2>2
    <3>3. d \in 1 .. l - 1
        BY <1>1, <1>8, <3>1 DEF f
    <3> QED BY <1>1, <1>4, <3>1, <3>2, <3>3
  <2> QED BY <2>1, <2>2
<1> QED BY <1>6, <1>7, <1>8 DEF l, f

\* The innermost call is over, its object is in its place, and the call around it has still
\* to be given that object.
LEMMA Popped ==
    ASSUME NEW c \in Outputs, NEW m \in Moments, NEW n \in Moments, NEW r, NEW r2,
           Matches(c, m, r, 0), m.stack # <<>>, n.stack = Pop(m.stack), n.known = m.known,
           r2.stack = Pop(r.stack), ReaderOK(r2), Later(r, r2), Len(r2.seen) = Len(r.seen),
           NEW s, s = r.stack[Len(r.stack)].slot,
           \A k \in 1 .. Len(r.seen) : k # s =>
               /\ r2.seen[k] = r.seen[k]
               /\ r.seen[k] \in 1 .. Len(r.heap) => r2.heap[r.seen[k]] = r.heap[r.seen[k]],
           SlotMatches(c, r2, s),
           \A k, y \in 1 .. Len(r2.seen) : k # y /\ r2.seen[k] \in Nat => r2.seen[k] # r2.seen[y]
    PROVE  Matches(c, n, r2, 1)
<1> DEFINE l == Len(r.stack)
<1>1. /\ ReaderOK(r) /\ l = Len(m.stack) /\ Len(r.seen) = m.known /\ m.known \in Nat
      /\ \A d \in 1 .. l : CallMatches(c, m, r, d, 0)
      /\ \A d, e \in 1 .. l : d # e => r.stack[d].slot # r.stack[e].slot
      /\ \A k \in 1 .. Len(r.seen) : SlotMatches(c, r, k)
    BY MomentFields DEF Matches
<1>2. r.stack # <<>> /\ m.stack \in Seq(Frames) /\ r.stack \in Seq(Calls(Len(r.seen), Len(r.heap)))
  <2>1. Len(m.stack) # 0 /\ m.stack \in Seq(Frames)
      BY MomentFields
  <2> QED BY <1>1, <2>1, ReaderFields
<1>3. /\ l \in Nat \ {0} /\ l \in 1 .. l /\ Len(r2.stack) = l - 1
      /\ \A d \in 1 .. l - 1 : r2.stack[d] = r.stack[d] /\ d \in 1 .. l /\ d # l
      /\ \A d \in 1 .. l : d = l \/ d \in 1 .. l - 1
  <2>1. r2.stack = Pop(r.stack)
      OBVIOUS
  <2> DEFINE S == Calls(Len(r.seen), Len(r.heap))
             q == r.stack
  <2>3. q \in Seq(S) /\ q # <<>>
      BY <1>2, <2>1
  <2> HIDE DEF S, q, l
  <2>4. /\ Len(q) \in Nat \ {0} /\ Len(q) \in 1 .. Len(q) /\ Len(Pop(q)) = Len(q) - 1
        /\ \A d \in 1 .. Len(q) - 1 : Pop(q)[d] = q[d] /\ d \in 1 .. Len(q) /\ d # Len(q)
        /\ \A d \in 1 .. Len(q) : d = Len(q) \/ d \in 1 .. Len(q) - 1
      BY <2>3, PoppedStack
  <2> QED BY <2>1, <2>4 DEF q, l
<1>4. Len(n.stack) = l - 1 /\ \A d \in 1 .. l - 1 : n.stack[d] = m.stack[d]
  <2>1. n.stack = Pop(m.stack) /\ m.stack # <<>>
      OBVIOUS
  <2> DEFINE S == Frames
             q == m.stack
  <2>3. q \in Seq(S) /\ q # <<>>
      BY <1>2, <2>1
  <2> HIDE DEF S, q, l
  <2>4. /\ Len(q) \in Nat \ {0} /\ Len(q) \in 1 .. Len(q) /\ Len(Pop(q)) = Len(q) - 1
        /\ \A d \in 1 .. Len(q) - 1 : Pop(q)[d] = q[d] /\ d \in 1 .. Len(q) /\ d # Len(q)
        /\ \A d \in 1 .. Len(q) : d = Len(q) \/ d \in 1 .. Len(q) - 1
      BY <2>3, PoppedStack
  <2> QED BY <1>1, <2>1, <2>4 DEF q, l
<1>5. \A d \in 1 .. l : r.stack[d].slot \in 1 .. Len(r.seen)
    BY <1>1, ReaderFields
<1>6. \A k : k # s => (k \in Pending(r2) <=> k \in Pending(r))
    BY <1>1, <1>2, PoppedPending
<1>7. s = r.stack[l].slot
    OBVIOUS
<1> HIDE DEF l
<1>8. ASSUME NEW d \in 1 .. l - 1 PROVE CallMatches(c, n, r2, d, 1)
  <2>1. /\ CallMatches(c, m, r, d, 0) /\ r2.stack[d] = r.stack[d] /\ n.stack[d] = m.stack[d]
        /\ r.stack[d].slot \in 1 .. Len(r.seen) /\ r.stack[d].slot # s
    <3>1. d \in 1 .. l /\ d # l /\ l \in 1 .. l
        BY <1>3
    <3>2. r.stack[d].slot # r.stack[l].slot
        BY <1>1, <3>1
    <3> QED BY <1>1, <1>3, <1>4, <1>5, <1>7, <3>1, <3>2
  <2>2. d # Len(m.stack)
      BY <1>1, <1>3
  <2>3. Len(r.stack[d].got) = m.stack[d].next - 1 - (IF d = Len(m.stack) THEN 0 ELSE 1)
      BY <2>1 DEF CallMatches
  <2>4. Len(r.stack[d].got) = m.stack[d].next - 1 - 1
      BY <2>2, <2>3
  <2>5. Len(r.stack[d].got) = n.stack[d].next - 1 - 1
      BY <2>1, <2>4
  <2>6. r2.seen[r.stack[d].slot] = r.seen[r.stack[d].slot]
      BY <2>1
  <2>7. n.known >= m.known /\ n.known \in Nat /\ r.stack[d].slot \in Nat
      BY <1>1, <2>1
  <2>8. n.stack[d].obj = m.stack[d].obj
      BY <2>1
  <2> QED BY <1>1, <2>1, <2>5, <2>6, <2>7, <2>8, CallMatchesLater
<1>9. ASSUME NEW k \in 1 .. Len(r.seen) PROVE SlotMatches(c, r2, k)
  <2>1. CASE k = s
      BY <2>1
  <2>2. CASE k # s
    <3>1. \/ \E d \in 1 .. Len(r2.stack) : r2.stack[d].slot = k
          \/ \A d \in 1 .. Len(r.stack) : r.stack[d].slot # k
        BY <1>3, <1>7, <2>2 DEF l
    <3>2. SlotMatches(c, r, k) /\ (k \in Pending(r) <=> k \in Pending(r2)) /\ r2.seen[k] = r.seen[k]
        BY <1>1, <1>6, <2>2
    <3>3. r.seen[k] \in 1 .. Len(r.heap) => r2.heap[r.seen[k]] = r.heap[r.seen[k]]
        BY <2>2
    <3> QED BY <3>1, <3>2, <3>3, SlotMatchesLater
  <2> QED BY <2>1, <2>2
<1>10. \A d, e \in 1 .. l - 1 : d # e => r2.stack[d].slot # r2.stack[e].slot
  <2> SUFFICES ASSUME NEW d \in 1 .. l - 1, NEW e \in 1 .. l - 1, d # e
               PROVE  r2.stack[d].slot # r2.stack[e].slot
      OBVIOUS
  <2>1. d \in 1 .. l /\ e \in 1 .. l /\ r2.stack[d] = r.stack[d] /\ r2.stack[e] = r.stack[e]
      BY <1>3
  <2> QED BY <1>1, <2>1
<1> QED BY <1>1, <1>3, <1>4, <1>8, <1>9, <1>10 DEF Matches

\* The calls that remain are calls.
LEMMA PoppedCalls ==
    ASSUME NEW r, ReaderOK(r), r.stack # <<>>
    PROVE  Pop(r.stack) \in Seq(Calls(Len(r.seen), Len(r.heap)))
<1> DEFINE S == Calls(Len(r.seen), Len(r.heap))
           q == r.stack
<1>1. q \in Seq(S) /\ q # <<>>
    BY ReaderFields
<1> HIDE DEF S, q
<1>2. Pop(q) \in Seq(S)
    BY <1>1, TopAndPop
<1> QED BY <1>2 DEF S, q

\* The innermost call ends: its object gets what was read.
EndedInstance(r, r2) ==
    LET f == r.stack[Len(r.stack)]
    IN r2.stack = Pop(r.stack) /\ r2.seen = r.seen /\ r2.heap = Filled(r.heap, f.self, f.got)

\* The objects that are not the one that ends stay as they are.
LEMMA FilledReader ==
    ASSUME NEW r, ReaderOK(r), NEW r2, EndedInstance(r, r2), NEW f, f = r.stack[Len(r.stack)],
           f.self \in 1 .. Len(r.heap), f.got \in Seq(Values(Len(r.heap)))
    PROVE  /\ r2.heap \in Seq(Cells(Len(r.heap))) /\ Len(r2.heap) = Len(r.heap)
           /\ \A g \in 1 .. Len(r.heap) : g # f.self => r2.heap[g] = r.heap[g]
           /\ \A g \in 1 .. Len(r.heap) : r2.heap[g].type = r.heap[g].type
           /\ r2.heap[f.self].items = f.got
<1> DEFINE h == f.self
           items == f.got
<1> DEFINE q == r.heap
           q2 == r2.heap
           p == Len(q)
<1>1. p \in Nat /\ q \in Seq(Cells(p)) /\ q2 = Filled(q, h, items)
      /\ h \in 1 .. Len(q) /\ items \in Seq(Values(p))
    BY ReaderFields DEF EndedInstance
<1> HIDE DEF p, q, q2, h, items
<1>2. q2 \in Seq(Cells(p)) /\ Len(q2) = Len(q)
    BY <1>1, FilledHeap
<1>3. \A g \in 1 .. Len(q) : g # h => q2[g] = q[g]
    BY <1>1, FilledHeap
<1>4. \A g \in 1 .. Len(q) : q2[g].type = q[g].type
    BY <1>1, FilledHeap
<1>5. q2[h].items = items
    BY <1>1, FilledHeap
<1> QED BY <1>2, <1>3, <1>4, <1>5 DEF p, q, q2, h, items

\* The innermost call of the reader when it has read all its items
LEMMA LastCall ==
    ASSUME NEW c \in Outputs, NEW m \in Moments, NEW r, Matches(c, m, r, 0), m.stack # <<>>,
           m.stack[Len(m.stack)].next - 1 = Len(Content(c, m.stack[Len(m.stack)].obj))
    PROVE  LET e == m.stack[Len(m.stack)]
               f == r.stack[Len(r.stack)]
           IN /\ ReaderOK(r) /\ r.stack # <<>> /\ Len(r.stack) \in 1 .. Len(r.stack)
              /\ e.obj \in Objects /\ f.type = c.graph[e.obj].type /\ f.type \in Types
              /\ f.slot \in 1 .. Len(r.seen) /\ c.map[f.slot] = e.obj
              /\ f.got \in Seq(Values(Len(r.heap)))
              /\ Len(f.got) = Len(Content(c, e.obj)) /\ AllRead(c, r, f.got, e.obj)
              /\ \A d, y \in 1 .. Len(r.stack) : d # y => r.stack[d].slot # r.stack[y].slot
              /\ \A k \in 1 .. Len(r.seen) : SlotMatches(c, r, k)
              /\ \A k, y \in 1 .. Len(r.seen) : k # y /\ r.seen[k] \in Nat => r.seen[k] # r.seen[y]
              /\ Kind[f.type] \notin Replaceable => f.self = r.seen[f.slot]
<1> DEFINE l == Len(m.stack)
           e == m.stack[l]
           f == r.stack[l]
<1>1. /\ ReaderOK(r) /\ Len(r.stack) = l
      /\ \A d \in 1 .. l : CallMatches(c, m, r, d, 0)
    BY DEF Matches
<1>2. l \in 1 .. l /\ e.obj \in Objects /\ l \in Nat \ {0} /\ e.next \in Nat
    BY MomentFields
<1>3. r.stack # <<>>
    BY <1>1, <1>2
<1>4. CallMatches(c, m, r, l, 0)
    BY <1>1, <1>2
<1>5. /\ f.type \in Types /\ f.slot \in 1 .. Len(r.seen) /\ f.got \in Seq(Values(Len(r.heap)))
    BY <1>1, <1>2, ReaderFields
<1>6. /\ f.type = c.graph[e.obj].type /\ c.map[f.slot] = e.obj
      /\ Kind[f.type] \notin Replaceable => f.self = r.seen[f.slot]
      /\ Len(f.got) = e.next - 1 - (IF l = Len(m.stack) THEN 0 ELSE 1)
      /\ AllRead(c, r, f.got, e.obj)
    BY <1>4 DEF CallMatches
<1>7. Len(f.got) = e.next - 1
    BY <1>2, <1>6
<1>8. e.next - 1 = Len(Content(c, e.obj))
    OBVIOUS
<1>9. /\ \A d, y \in 1 .. Len(r.stack) : d # y => r.stack[d].slot # r.stack[y].slot
      /\ \A k \in 1 .. Len(r.seen) : SlotMatches(c, r, k)
      /\ \A k, y \in 1 .. Len(r.seen) : k # y /\ r.seen[k] \in Nat => r.seen[k] # r.seen[y]
    BY DEF Matches
<1> HIDE DEF l, e, f
<1>10. Len(f.got) = Len(Content(c, e.obj)) /\ Len(r.stack) \in 1 .. Len(r.stack)
    BY <1>1, <1>2, <1>7, <1>8
<1> QED BY <1>1, <1>2, <1>3, <1>5, <1>6, <1>9, <1>10 DEF l, e, f

\* An object that was registered before its items: it gets them.
LEMMA ClosedInstance ==
    ASSUME NEW c \in Outputs, NEW m \in Moments, NEW n \in Moments, NEW r, NEW r2,
           Matches(c, m, r, 0), m.stack # <<>>, n.stack = Pop(m.stack), n.known = m.known,
           m.stack[Len(m.stack)].next - 1 = Len(Content(c, m.stack[Len(m.stack)].obj)),
           NEW f, f = r.stack[Len(r.stack)], Kind[f.type] \notin Replaceable,
           EndedInstance(r, r2)
    PROVE  /\ Matches(c, n, r2, 1) /\ Read(c, r2, f.self, m.stack[Len(m.stack)].obj)
           /\ f.self \in 1 .. Len(r2.heap) /\ Len(r2.heap) = Len(r.heap)
           /\ \A h \in 1 .. Len(r.heap) : r2.heap[h].type = r.heap[h].type
<1> DEFINE e == m.stack[Len(m.stack)]
           l == Len(r.stack)
           p == Len(r.heap)
<1>1. /\ ReaderOK(r) /\ r.stack # <<>> /\ l \in 1 .. l
      /\ e.obj \in Objects /\ f.type = c.graph[e.obj].type /\ f.type \in Types
      /\ f.slot \in 1 .. Len(r.seen) /\ c.map[f.slot] = e.obj
      /\ f.got \in Seq(Values(p))
      /\ Len(f.got) = Len(Content(c, e.obj)) /\ AllRead(c, r, f.got, e.obj)
      /\ \A d, y \in 1 .. l : d # y => r.stack[d].slot # r.stack[y].slot
      /\ \A k \in 1 .. Len(r.seen) : SlotMatches(c, r, k)
      /\ \A k, y \in 1 .. Len(r.seen) : k # y /\ r.seen[k] \in Nat => r.seen[k] # r.seen[y]
      /\ f.self = r.seen[f.slot]
    BY LastCall, SMTT(30)
<1>2. /\ r.seen \in Seq(Values(p)) /\ r.heap \in Seq(Cells(p)) /\ p \in Nat
      /\ r.stack \in Seq(Calls(Len(r.seen), p)) /\ Len(r.seen) \in Nat
    BY <1>1, ReaderFields
<1>3. r2.stack = Pop(r.stack) /\ f = r.stack[l] /\ r2.seen = r.seen
    BY DEF EndedInstance
<1>4. r2.stack \in Seq(Calls(Len(r.seen), p))
    BY <1>1, <1>3, PoppedCalls
<1> HIDE DEF p, e
<1>5. /\ f.slot \notin Pending(r2) /\ f.slot \notin Pending(r)
      /\ \A k : k # f.slot => (k \in Pending(r2) <=> k \in Pending(r))
    BY <1>1, <1>3, PoppedPending, SMTT(30)
<1>6. f.self \in 1 .. p /\ r.heap[f.self].type = f.type
    BY <1>1, <1>5 DEF SlotMatches, p
<1>7. /\ r2.heap \in Seq(Cells(p)) /\ Len(r2.heap) = p
      /\ \A g \in 1 .. p : g # f.self => r2.heap[g] = r.heap[g]
      /\ \A g \in 1 .. p : r2.heap[g].type = r.heap[g].type
      /\ r2.heap[f.self].items = f.got
  <2> HIDE DEF l
  <2>1. ReaderOK(r) /\ f.self \in 1 .. Len(r.heap) /\ f.got \in Seq(Values(Len(r.heap)))
      BY <1>1, <1>6 DEF p
  <2>2. /\ r2.heap \in Seq(Cells(Len(r.heap))) /\ Len(r2.heap) = Len(r.heap)
        /\ \A g \in 1 .. Len(r.heap) : g # f.self => r2.heap[g] = r.heap[g]
        /\ \A g \in 1 .. Len(r.heap) : r2.heap[g].type = r.heap[g].type
        /\ r2.heap[f.self].items = f.got
      BY <2>1, FilledReader
  <2> QED BY <2>2 DEF p
<1>8. ReaderOK(r2)
    BY <1>2, <1>3, <1>4, <1>7 DEF ReaderOK
<1>9. \A k \in (1 .. Len(r.seen)) \ Pending(r) : k \notin Pending(r2)
    BY <1>5
<1>10. Later(r, r2)
    BY <1>2, <1>3, <1>7, <1>9, SMTT(30) DEF Later, p
<1>11. SlotMatches(c, r2, f.slot)
  <2>1. AllRead(c, r2, f.got, e.obj)
      BY <1>1, <1>10, AllReadLater, SMTT(30)
  <2>2. /\ r2.seen[f.slot] = f.self /\ f.self \in 1 .. Len(r2.heap)
        /\ r2.heap[f.self].type = c.graph[c.map[f.slot]].type
        /\ Len(r2.heap[f.self].items) = Len(c.graph[c.map[f.slot]].items)
        /\ AllRead(c, r2, r2.heap[f.self].items, c.map[f.slot])
      BY <1>1, <1>3, <1>6, <1>7, <2>1, Zenon DEF Content
  <2> QED BY <1>5, <2>2, Zenon DEF SlotMatches
<1>12. ASSUME NEW k \in 1 .. Len(r.seen), k # f.slot
       PROVE  /\ r2.seen[k] = r.seen[k]
              /\ r.seen[k] \in 1 .. Len(r.heap) => r2.heap[r.seen[k]] = r.heap[r.seen[k]]
  <2>1. r.seen[k] \in Nat => r.seen[k] # f.self
      BY <1>1, <1>12
  <2> QED BY <1>3, <1>7, <2>1 DEF p
<1>13. Matches(c, n, r2, 1)
  <2>1. Len(r2.seen) = Len(r.seen) /\ f.slot = r.stack[Len(r.stack)].slot
      BY <1>3
  <2>2. \A k, y \in 1 .. Len(r2.seen) : k # y /\ r2.seen[k] \in Nat => r2.seen[k] # r2.seen[y]
      BY <1>1, <1>3
  <2> QED BY <1>3, <1>8, <1>10, <1>11, <1>12, <2>1, <2>2, Popped
<1>14. Read(c, r2, f.self, e.obj)
  <2>1. f.slot \in (1 .. Len(r2.seen)) \ Pending(r2) /\ f.self = r2.seen[f.slot]
      BY <1>1, <1>3, <1>5
  <2> QED BY <1>1, <1>6, <1>7, <2>1, Zenon DEF Read
<1> QED BY <1>6, <1>7, <1>13, <1>14 DEF p, e

Replaced(values, k, v) == [values EXCEPT ![k] = v]
Created(objects, type, items) == Append(objects, [type |-> type, items |-> items])

\* Replacing a value changes its index alone.
LEMMA ReplacedValue ==
    ASSUME NEW S, NEW q \in Seq(S), NEW k \in 1 .. Len(q), NEW v \in S
    PROVE  /\ Replaced(q, k, v) \in Seq(S) /\ Len(Replaced(q, k, v)) = Len(q)
           /\ Replaced(q, k, v)[k] = v /\ \A j \in 1 .. Len(q) : j # k => Replaced(q, k, v)[j] = q[j]
BY SMTT(30) DEF Replaced

\* The innermost call ends: a new object takes the place of what was registered for it.
EndedReplacement(r, r2) ==
    LET f == r.stack[Len(r.stack)]
    IN /\ r2.stack = Pop(r.stack) /\ r2.seen = Replaced(r.seen, f.slot, Len(r.heap) + 1)
       /\ r2.heap = Created(r.heap, f.type, f.got)

\* An object that was replaced: its place is taken by a new one.
LEMMA ClosedReplacement ==
    ASSUME NEW c \in Outputs, NEW m \in Moments, NEW n \in Moments, NEW r, NEW r2,
           Matches(c, m, r, 0), m.stack # <<>>, n.stack = Pop(m.stack), n.known = m.known,
           m.stack[Len(m.stack)].next - 1 = Len(Content(c, m.stack[Len(m.stack)].obj)),
           NEW f, f = r.stack[Len(r.stack)], Kind[f.type] \in Replaceable,
           EndedReplacement(r, r2)
    PROVE  /\ Matches(c, n, r2, 1) /\ Read(c, r2, Len(r.heap) + 1, m.stack[Len(m.stack)].obj)
           /\ Len(r2.heap) = Len(r.heap) + 1
           /\ \A h \in 1 .. Len(r.heap) : r2.heap[h] = r.heap[h]
           /\ Len(r2.seen) = Len(r.seen) /\ r2.seen[f.slot] = Len(r.heap) + 1
           /\ r2.heap[Len(r.heap) + 1].type = c.graph[c.map[f.slot]].type
           /\ \A k \in 1 .. Len(r.seen) : k # f.slot => r2.seen[k] = r.seen[k]
<1> DEFINE e == m.stack[Len(m.stack)]
           l == Len(r.stack)
           p == Len(r.heap)
           cell == [type |-> f.type, items |-> f.got]
<1>0. r2.stack = Pop(r.stack) /\ r2.seen = Replaced(r.seen, f.slot, Len(r.heap) + 1)
      /\ r2.heap = Created(r.heap, f.type, f.got)
    BY DEF EndedReplacement
<1> USE <1>0
<1>1. /\ ReaderOK(r) /\ r.stack # <<>> /\ l \in 1 .. l
      /\ e.obj \in Objects /\ f.type = c.graph[e.obj].type /\ f.type \in Types
      /\ f.slot \in 1 .. Len(r.seen) /\ c.map[f.slot] = e.obj
      /\ f.got \in Seq(Values(p))
      /\ Len(f.got) = Len(Content(c, e.obj)) /\ AllRead(c, r, f.got, e.obj)
      /\ \A d, y \in 1 .. l : d # y => r.stack[d].slot # r.stack[y].slot
      /\ \A k \in 1 .. Len(r.seen) : SlotMatches(c, r, k)
      /\ \A k, y \in 1 .. Len(r.seen) : k # y /\ r.seen[k] \in Nat => r.seen[k] # r.seen[y]
  <2> HIDE DEF cell
  <2> QED BY LastCall, SMTT(30)
<1>2. /\ r.seen \in Seq(Values(p)) /\ r.heap \in Seq(Cells(p)) /\ p \in Nat
      /\ r.stack \in Seq(Calls(Len(r.seen), p)) /\ Len(r.seen) \in Nat
      /\ \A k \in 1 .. Len(r.seen) : r.seen[k] \in Values(p)
    BY <1>1, ReaderFields
<1>3. /\ r2.stack = Pop(r.stack) /\ f = r.stack[l]
      /\ r2.heap = Append(r.heap, cell)
      /\ cell.type = f.type /\ cell.items = f.got
    BY DEF Created
<1>4. r2.stack \in Seq(Calls(Len(r.seen), p))
    BY <1>1, <1>3, PoppedCalls
<1>5. p + 1 \in Nat /\ p <= p + 1 /\ p + 1 \in 1 .. p + 1 /\ p + 1 \notin 1 .. p
    BY <1>2
<1>6. p = Len(r.heap)
    OBVIOUS
<1>7. cell \in Cells(p + 1)
  <2>1. f.got \in Seq(Values(p + 1))
      BY <1>1, <1>2, <1>5, MoreValues
  <2> QED BY <1>1, <2>1 DEF Cells
<1> HIDE DEF p, e, cell
<1>8. /\ r2.heap \in Seq(Cells(p + 1)) /\ Len(r2.heap) = p + 1 /\ r2.heap[p + 1] = cell
      /\ \A h \in 1 .. p : r2.heap[h] = r.heap[h]
  <2> DEFINE S == Cells(p + 1)
  <2>1. r.heap \in Seq(S) /\ cell \in S
      BY <1>2, <1>5, <1>7, MoreValues
  <2> HIDE DEF S
  <2>2. /\ Append(r.heap, cell) \in Seq(S) /\ Len(Append(r.heap, cell)) = Len(r.heap) + 1
        /\ DOMAIN r.heap = 1 .. Len(r.heap)
        /\ \A h \in DOMAIN r.heap : Append(r.heap, cell)[h] = r.heap[h]
        /\ Append(r.heap, cell)[Len(r.heap) + 1] = cell
      BY <2>1, Appended
  <2> QED BY <1>3, <1>6, <2>2 DEF S
<1>9. /\ r2.seen \in Seq(Values(p + 1)) /\ Len(r2.seen) = Len(r.seen)
      /\ r2.seen[f.slot] = p + 1 /\ \A k \in 1 .. Len(r.seen) : k # f.slot => r2.seen[k] = r.seen[k]
  <2>1. r.seen \in Seq(Values(p + 1)) /\ p + 1 \in Values(p + 1)
      BY <1>2, <1>5, MoreValues DEF Values
  <2> DEFINE S == Values(p + 1)
             q == r.seen
             k0 == f.slot
             v == p + 1
  <2>2. q \in Seq(S) /\ k0 \in 1 .. Len(q) /\ v \in S /\ r2.seen = Replaced(q, k0, v)
      BY <1>1, <1>6, <2>1
  <2> HIDE DEF S, q, k0, v
  <2>3. /\ Replaced(q, k0, v) \in Seq(S) /\ Len(Replaced(q, k0, v)) = Len(q)
        /\ Replaced(q, k0, v)[k0] = v
        /\ \A j \in 1 .. Len(q) : j # k0 => Replaced(q, k0, v)[j] = q[j]
      BY <2>2, ReplacedValue
  <2> QED BY <2>2, <2>3 DEF S, q, k0, v
<1>10. ReaderOK(r2)
  <2>1. r2.stack \in Seq(Calls(Len(r.seen), p + 1))
      BY <1>2, <1>4, <1>5, MoreCalls
  <2> QED BY <1>8, <1>9, <2>1 DEF ReaderOK
<1>11. /\ f.slot \notin Pending(r2) /\ f.slot \in Pending(r)
       /\ \A k : k # f.slot => (k \in Pending(r2) <=> k \in Pending(r))
    BY <1>1, <1>3, <1>9, PoppedPending, ZenonT(40)
<1>12. \A k \in (1 .. Len(r.seen)) \ Pending(r) : k \notin Pending(r2) /\ r2.seen[k] = r.seen[k]
    BY <1>9, <1>11
<1>13. Later(r, r2)
    BY <1>2, <1>5, <1>6, <1>8, <1>9, <1>12, SMTT(30) DEF Later
<1>14. SlotMatches(c, r2, f.slot)
  <2>1. AllRead(c, r2, f.got, e.obj)
      BY <1>1, <1>13, AllReadLater, SMTT(30)
  <2>2. /\ r2.seen[f.slot] = p + 1 /\ p + 1 \in 1 .. Len(r2.heap)
        /\ r2.heap[p + 1].type = c.graph[c.map[f.slot]].type
        /\ Len(r2.heap[p + 1].items) = Len(c.graph[c.map[f.slot]].items)
        /\ AllRead(c, r2, r2.heap[p + 1].items, c.map[f.slot])
      BY <1>1, <1>3, <1>5, <1>8, <1>9, <2>1 DEF Content
  <2> QED BY <1>11, <2>2, Zenon DEF SlotMatches
<1>15. \A k \in 1 .. Len(r.seen) : k # f.slot =>
           /\ r2.seen[k] = r.seen[k]
           /\ r.seen[k] \in 1 .. Len(r.heap) => r2.heap[r.seen[k]] = r.heap[r.seen[k]]
    BY <1>6, <1>8, <1>9
<1>16. ASSUME NEW k \in 1 .. Len(r2.seen), NEW y \in 1 .. Len(r2.seen), k # y, r2.seen[k] \in Nat
       PROVE  r2.seen[k] # r2.seen[y]
  <2>1. \A z \in 1 .. Len(r.seen) : r.seen[z] \in Nat => r.seen[z] \in 1 .. p
      BY <1>2, NotNumbers
  <2>2. k \in 1 .. Len(r.seen) /\ y \in 1 .. Len(r.seen)
      BY <1>9
  <2>3. CASE k = f.slot
      BY <1>5, <1>9, <1>16, <2>1, <2>2, <2>3
  <2>4. CASE y = f.slot
      BY <1>5, <1>9, <1>16, <2>1, <2>2, <2>4
  <2>5. CASE k # f.slot /\ y # f.slot
      BY <1>1, <1>9, <1>16, <2>2, <2>5
  <2> QED BY <2>3, <2>4, <2>5
<1>17. Matches(c, n, r2, 1)
  <2>1. \A k, y \in 1 .. Len(r2.seen) : k # y /\ r2.seen[k] \in Nat => r2.seen[k] # r2.seen[y]
      BY <1>16
  <2>2. f.slot = r.stack[Len(r.stack)].slot
      OBVIOUS
  <2> DEFINE s == f.slot
  <2>3. /\ s = r.stack[Len(r.stack)].slot /\ SlotMatches(c, r2, s)
        /\ \A k \in 1 .. Len(r.seen) : k # s =>
               /\ r2.seen[k] = r.seen[k]
               /\ r.seen[k] \in 1 .. Len(r.heap) => r2.heap[r.seen[k]] = r.heap[r.seen[k]]
      BY <1>14, <1>15, <2>2
  <2>4. Len(r2.seen) = Len(r.seen) /\ r2.stack = Pop(r.stack)
      BY <1>9
  <2> HIDE DEF s
  <2>5. r.stack[Len(r.stack)].slot = s
      BY <2>3
  <2> QED BY <1>10, <1>13, <2>1, <2>3, <2>4, <2>5, Popped, SMTT(60)
<1>18. Read(c, r2, p + 1, e.obj)
  <2>1. f.slot \in (1 .. Len(r2.seen)) \ Pending(r2) /\ p + 1 = r2.seen[f.slot]
      BY <1>1, <1>9, <1>11
  <2> QED BY <1>1, <1>5, <1>8, <2>1 DEF Read
<1>19. r2.heap[p + 1].type = c.graph[c.map[f.slot]].type
    BY <1>1, <1>3, <1>8
<1> QED BY <1>6, <1>8, <1>9, <1>17, <1>18, <1>19, Zenon DEF e

--------------------------------------------------------------------------------
(* Back references, what fields take, and what is aligned                       *)

\* A set of naturals that is not empty has a least element.
LEMMA NatMin ==
    ASSUME NEW T, T \subseteq Nat, T # {}
    PROVE  \E x \in T : \A y \in T : x <= y
<1> DEFINE R == OpToRel(<, Nat)
<1>1. IsWellFoundedOn(R, Nat)
    BY NatLessThanWellFounded
<1>2. \A x, y \in Nat : y < x => <<y, x>> \in R
    BY DEF OpToRel
<1> HIDE DEF R
<1>3. PICK x \in T : \A y \in T : ~(<<y, x>> \in R)
    BY <1>1, WFMin
<1> SUFFICES ASSUME NEW y \in T PROVE x <= y
    OBVIOUS
<1>4. x \in Nat /\ y \in Nat
    OBVIOUS
<1>5. ~(y < x)
    BY <1>2, <1>3, <1>4
<1> QED
    BY <1>4, <1>5

\* An object that comes up again while it is being written is on a cycle.
LEMMA OpenIsOnCycle ==
    ASSUME NEW c \in Outputs, NEW m, MomentOK(c, m), HasMore(c, m), m.sent # 0,
           NEW d \in 1 .. Len(m.stack), m.stack[d].obj = Due(c, m), Due(c, m) \in Objects
    PROVE  OnCycleIn(c, Due(c, m))
<1> DEFINE x == Due(c, m)
           l == Len(m.stack)
           o(e) == m.stack[e].obj
<1>1. m \in Moments /\ l \in Nat \ {0} /\ l \in 1 .. l
    BY DueIsItem, MomentFields DEF MomentOK
<1>2. /\ \A e \in 1 .. l : o(e) \in Objects /\ m.stack[e].next \in Nat
      /\ \A e \in 1 .. l : Content(c, o(e)) \in Seq(Items) /\ Len(Content(c, o(e))) \in Nat
    BY <1>1, MomentFields, OutputFields
<1>3. ASSUME NEW e \in 1 .. l - 1 PROVE o(e + 1) \in TargetsIn(c, o(e))
  <2> DEFINE q == Content(c, o(e))
             j == m.stack[e].next - 1
  <2>1. e \in 1 .. l /\ e + 1 \in 1 .. l
      BY <1>1
  <2>2. q[j] = o(e + 1) /\ m.stack[e].next > 1 /\ m.stack[e].next <= Len(q) + 1
      BY <2>1 DEF MomentOK
  <2>3. q \in Seq(Items) /\ Len(q) \in Nat /\ m.stack[e].next \in Nat
      BY <1>2, <2>1
  <2>4. j \in 1 .. Len(q)
      BY <2>2, <2>3
  <2>5. DOMAIN q = 1 .. Len(q)
      BY <2>3
  <2> HIDE DEF q, j
  <2>6. o(e + 1) \in Elements(q)
      BY <2>2, <2>4, <2>5 DEF Elements
  <2>7. o(e + 1) \in Objects
      BY <1>2, <2>1
  <2> QED BY <2>6, <2>7 DEF TargetsIn, q, Content
<1>4. x \in TargetsIn(c, o(l))
  <2> DEFINE q == Content(c, o(l))
             j == m.stack[l].next
  <2>1. x = q[j] /\ j \in 1 .. Len(q)
      BY DueIsItem
  <2>2. q \in Seq(Items)
      BY <1>1, <1>2
  <2>3. DOMAIN q = 1 .. Len(q)
      BY <2>2
  <2> HIDE DEF q, j, x
  <2>4. x \in Elements(q)
      BY <2>1, <2>3 DEF Elements
  <2> QED BY <2>4 DEF TargetsIn, q, Content, x
<1> HIDE DEF x, l, o
<1>5. x = o(d) /\ d \in 1 .. l
    BY DEF x, o, l
<1>6. SUFFICES ASSUME NEW S \in SUBSET Objects, TargetsIn(c, x) \subseteq S,
                      \A y \in S : TargetsIn(c, y) \subseteq S
               PROVE  x \in S
    BY DEF OnCycleIn, x
<1>7. ASSUME NEW e \in 1 .. l, e > d PROVE o(e) \in S
  <2> DEFINE T == {y \in 1 .. l : y > d /\ o(y) \notin S}
  <2> SUFFICES ASSUME T # {} PROVE FALSE
      BY <1>7
  <2>1. T \subseteq Nat
      BY <1>1
  <2>2. PICK y \in T : \A z \in T : y <= z
      BY <2>1, NatMin
  <2>3. y \in 1 .. l /\ y > d /\ o(y) \notin S
      OBVIOUS
  <2>4. y - 1 \in 1 .. l - 1 /\ y - 1 \in 1 .. l /\ y - 1 >= d /\ (y - 1) + 1 = y /\ ~(y <= y - 1)
      BY <1>1, <1>5, <2>3
  <2>5. y - 1 \notin T
      BY <2>2, <2>4
  <2>6. TargetsIn(c, o(y - 1)) \subseteq S
    <3>1. CASE y - 1 = d
        BY <1>5, <1>6, <3>1
    <3>2. CASE y - 1 # d
      <4>1. y - 1 > d
          BY <1>5, <2>4, <3>2
      <4> QED BY <1>6, <2>4, <2>5, <4>1
    <3> QED BY <3>1, <3>2
  <2>7. o(y) \in TargetsIn(c, o(y - 1))
    <3>1. o((y - 1) + 1) \in TargetsIn(c, o(y - 1))
        BY <1>3, <2>4
    <3> QED BY <2>4, <3>1
  <2> QED BY <2>3, <2>6, <2>7
<1>8. CASE d = l
    BY <1>4, <1>5, <1>6, <1>8
<1>9. CASE d # l
  <2>1. l \in 1 .. l /\ l > d
      BY <1>1, <1>5, <1>9
  <2> QED BY <1>4, <1>6, <1>7, <2>1
<1> QED BY <1>8, <1>9

\* What a back reference finds
LEMMA BackReferenceRead ==
    ASSUME NEW c \in Outputs, NEW m, MomentOK(c, m), HasMore(c, m), m.sent # 0,
           NEW r, Matches(c, m, r, 0), NEW k \in 1 .. m.known,
           c.map[k] = Due(c, m), Due(c, m) \in Objects
    PROVE  Read(c, r, r.seen[k], Due(c, m)) /\ r.seen[k] \in Values(Len(r.heap))
<1> DEFINE x == Due(c, m)
<1>1. /\ ReaderOK(r) /\ Len(r.seen) = m.known /\ SlotMatches(c, r, k)
      /\ Len(r.stack) = Len(m.stack)
      /\ \A d \in 1 .. Len(r.stack) : CallMatches(c, m, r, d, 0)
    BY DEF Matches
<1>2. r.seen[k] \in 1 .. Len(r.heap) \cup {Null}
    BY <1>1 DEF SlotMatches
<1>3. ASSUME k \in Pending(r) PROVE KnottedIn(c)
  <2>1. PICK d \in 1 .. Len(r.stack) : r.stack[d].slot = k /\ Kind[r.stack[d].type] \in Replaceable
      BY <1>3 DEF Pending
  <2>2. c.map[k] = m.stack[d].obj /\ r.stack[d].type = c.graph[m.stack[d].obj].type
      BY <1>1, <2>1 DEF CallMatches
  <2>3. OnCycleIn(c, x)
      BY <1>1, <2>2, OpenIsOnCycle
  <2>4. m \in Moments /\ m.known \in Nat /\ m.known <= Len(c.map)
      BY MomentFields DEF MomentOK
  <2>5. c.map \in Seq(Objects) /\ Len(c.map) \in Nat
      BY OutputFields
  <2>6. k \in DOMAIN c.map
      BY <2>4, <2>5
  <2>7. x \in Elements(c.map)
      BY <2>6 DEF Elements
  <2> QED BY <2>1, <2>2, <2>3, <2>7 DEF KnottedIn
<1>4. Read(c, r, r.seen[k], x)
    BY <1>1, <1>2, <1>3 DEF Read
<1> QED BY <1>2, <1>4 DEF Values

\* A field takes what is read for it, unless a cycle goes through a placeholder.
LEMMA ReadIsAccepted ==
    ASSUME NEW c \in Outputs, WellTyped(c.graph), ~KnottedIn(c),
           NEW r, \A k \in 1 .. Len(r.seen) : SlotMatches(c, r, k),
           NEW o \in Objects, NEW j \in 1 .. Len(Content(c, o)), NEW v,
           Read(c, r, v, Content(c, o)[j])
    PROVE  IsAccepted(v, c.graph[o].type, r.heap)
<1> DEFINE x == Content(c, o)[j]
           t == c.graph[o].type
<1>1. Content(c, o) \in Seq(Items) /\ Content(c, o) = c.graph[o].items
    BY OutputFields DEF Content
<1>2. Fills(c.graph, t, j, x)
  <2>1. j \in DOMAIN c.graph[o].items
      BY <1>1
  <2> QED BY <1>1, <2>1 DEF WellTyped
<1>3. CASE x \in Objects
  <2>1. x # Null /\ x \notin Strings
      BY <1>3, ValueAssumption
  <2>2. c.graph[x].type \in Accepts[t]
      BY <1>2, <1>3, <2>1 DEF Fills
  <2>3. PICK k \in (1 .. Len(r.seen)) \ Pending(r) : c.map[k] = x /\ v = r.seen[k]
      BY <1>3 DEF Read
  <2>4. r.heap[v].type = c.graph[x].type
      BY <2>3 DEF SlotMatches
  <2> QED BY <2>2, <2>4 DEF IsAccepted
<1>4. CASE x \notin Objects
  <2>1. v = x
      BY <1>4 DEF Read
  <2>2. x \in Strings \cup {Null}
      BY <1>2, <1>4 DEF Fills
  <2> QED BY <2>1, <2>2 DEF IsAccepted
<1> QED BY <1>3, <1>4

\* An object is never read where the class has a string.
LEMMA StringFieldsHoldStrings ==
    ASSUME NEW c \in Outputs, WellTyped(c.graph), NEW r,
           NEW o \in Objects, NEW j \in 1 .. Len(Content(c, o)), NEW v,
           Read(c, r, v, Content(c, o)[j]), v \in Nat
    PROVE  j \notin StringFields[c.graph[o].type]
<1> DEFINE x == Content(c, o)[j]
           t == c.graph[o].type
<1> SUFFICES ASSUME j \in StringFields[t] PROVE FALSE
    OBVIOUS
<1>1. Content(c, o) \in Seq(Items) /\ Content(c, o) = c.graph[o].items
    BY OutputFields DEF Content
<1>2. Fills(c.graph, t, j, x)
  <2>1. j \in DOMAIN c.graph[o].items
      BY <1>1
  <2> QED BY <1>1, <2>1 DEF WellTyped
<1>3. x \in Strings \cup {Null}
    BY <1>2 DEF Fills
<1>4. x \notin Objects
    BY <1>3, ValueAssumption
<1>5. v = x
    BY <1>4 DEF Read
<1>6. v \notin Int
    BY <1>3, <1>5, NotNumbers
<1> QED BY <1>6

--------------------------------------------------------------------------------
\* The two ends number the objects alike.
Aligned(c, r) ==
    /\ ReaderOK(r)
    /\ \A d \in 1 .. Len(r.stack) : \A j \in 1 .. Len(r.stack[d].got) :
         r.stack[d].got[j] \in Nat => j \notin StringFields[r.stack[d].type]
    /\ Len(r.seen) <= Len(c.map)
    /\ \A k \in 1 .. Len(r.seen) :
         \/ r.seen[k] \in 1 .. Len(r.heap) /\ r.heap[r.seen[k]].type = c.graph[c.map[k]].type
         \/ \E d \in 1 .. Len(r.stack) :
              r.stack[d].slot = k /\ r.stack[d].type = c.graph[c.map[k]].type

\* A reader that matches a moment is aligned with the output.
LEMMA MatchesAligned ==
    ASSUME NEW c \in Outputs, WellTyped(c.graph), NEW m, MomentOK(c, m),
           NEW r, NEW lag, Matches(c, m, r, lag)
    PROVE  Aligned(c, r)
<1>1. /\ ReaderOK(r) /\ Len(r.seen) = m.known /\ Len(r.stack) = Len(m.stack)
      /\ \A d \in 1 .. Len(r.stack) : CallMatches(c, m, r, d, lag)
      /\ \A k \in 1 .. Len(r.seen) : SlotMatches(c, r, k)
    BY DEF Matches
<1>2. m \in Moments /\ Len(r.seen) <= Len(c.map)
    BY <1>1 DEF MomentOK
<1>3. ASSUME NEW d \in 1 .. Len(r.stack), NEW j \in 1 .. Len(r.stack[d].got), r.stack[d].got[j] \in Nat
      PROVE  j \notin StringFields[r.stack[d].type]
  <2> DEFINE o == m.stack[d].obj
             got == r.stack[d].got
  <2>1. o \in Objects
      BY <1>1, <1>2, MomentFields
  <2>2. r.stack[d].type = c.graph[o].type /\ AllRead(c, r, got, o)
      BY <1>1 DEF CallMatches
  <2>3. Len(got) <= Len(Content(c, o)) /\ Read(c, r, got[j], Content(c, o)[j])
      BY <2>2 DEF AllRead
  <2>4. Len(Content(c, o)) \in Nat /\ got \in Seq(Values(Len(r.heap)))
      BY <1>1, <2>1, OutputFields, ReaderFields
  <2>5. Len(got) \in Nat
      BY <2>4
  <2>6. j \in 1 .. Len(Content(c, o))
      BY <2>3, <2>4, <2>5
  <2> QED BY <1>3, <2>1, <2>2, <2>3, <2>6, StringFieldsHoldStrings
<1>4. ASSUME NEW k \in 1 .. Len(r.seen)
      PROVE  \/ r.seen[k] \in 1 .. Len(r.heap) /\ r.heap[r.seen[k]].type = c.graph[c.map[k]].type
             \/ \E d \in 1 .. Len(r.stack) :
                  r.stack[d].slot = k /\ r.stack[d].type = c.graph[c.map[k]].type
  <2>1. CASE k \in Pending(r)
    <3>1. PICK d \in 1 .. Len(r.stack) : r.stack[d].slot = k
        BY <2>1 DEF Pending
    <3> QED BY <1>1, <3>1 DEF CallMatches
  <2>2. CASE k \notin Pending(r)
      BY <1>1, <2>2 DEF SlotMatches
  <2> QED BY <2>1, <2>2
<1> QED BY <1>1, <1>2, <1>3, <1>4 DEF Aligned

\* Aligned they stay when the heap grows or an index gets its object.
LEMMA AlignedStays ==
    ASSUME NEW c, NEW r, Aligned(c, r), NEW r2, ReaderOK(r2), r2.stack = r.stack,
           Len(r2.seen) = Len(r.seen), Len(r.heap) <= Len(r2.heap),
           \A h \in 1 .. Len(r.heap) : r2.heap[h].type = r.heap[h].type,
           \A k \in 1 .. Len(r.seen) :
               \/ r2.seen[k] = r.seen[k]
               \/ r2.seen[k] \in 1 .. Len(r2.heap) /\ r2.heap[r2.seen[k]].type = c.graph[c.map[k]].type
    PROVE  Aligned(c, r2)
<1>1. ReaderOK(r) /\ Len(r.heap) \in Nat /\ Len(r2.heap) \in Nat
    BY ReaderFields DEF Aligned
<1>2. \A h \in 1 .. Len(r.heap) : h \in 1 .. Len(r2.heap)
    BY <1>1
<1>3. \A d \in 1 .. Len(r2.stack) : \A j \in 1 .. Len(r2.stack[d].got) :
        r2.stack[d].got[j] \in Nat => j \notin StringFields[r2.stack[d].type]
    BY DEF Aligned
<1>4. Len(r2.seen) <= Len(c.map)
    BY DEF Aligned
<1>5. ASSUME NEW k \in 1 .. Len(r2.seen)
      PROVE  \/ r2.seen[k] \in 1 .. Len(r2.heap) /\ r2.heap[r2.seen[k]].type = c.graph[c.map[k]].type
             \/ \E d \in 1 .. Len(r2.stack) :
                  r2.stack[d].slot = k /\ r2.stack[d].type = c.graph[c.map[k]].type
  <2>1. k \in 1 .. Len(r.seen)
      OBVIOUS
  <2>2. CASE r2.seen[k] = r.seen[k]
    <3>1. CASE r.seen[k] \in 1 .. Len(r.heap) /\ r.heap[r.seen[k]].type = c.graph[c.map[k]].type
        BY <1>2, <2>2, <3>1
    <3>2. CASE \E d \in 1 .. Len(r.stack) :
                 r.stack[d].slot = k /\ r.stack[d].type = c.graph[c.map[k]].type
        BY <3>2
    <3> QED BY <2>1, <3>1, <3>2 DEF Aligned
  <2> QED BY <2>1, <2>2
<1> QED BY <1>3, <1>4, <1>5 DEF Aligned

--------------------------------------------------------------------------------
(* What is due: the tokens tell the reader which step the writer took.          *)

\* The same questions as MoreToRead, ItemsAreRead and StringIsDue ask, of a reader
MoreDue(r) == r.stack # <<>> => Len(Top(r.stack).got) < Top(r.stack).length
AllDone(r) == r.stack # <<>> /\ Len(Top(r.stack).got) = Top(r.stack).length
StringNext(r) == r.stack # <<>> /\ Len(Top(r.stack).got) + 1 \in StringFields[Top(r.stack).type]

\* The innermost call of each end
LEMMA TopCalls ==
    ASSUME NEW c \in Outputs, NEW m, MomentOK(c, m), NEW r, Matches(c, m, r, 0)
    PROVE  LET e == m.stack[Len(m.stack)]
               f == r.stack[Len(r.stack)]
           IN /\ m.stack = <<>> <=> r.stack = <<>>
              /\ Len(r.stack) = Len(m.stack) /\ m \in Moments /\ ReaderOK(r)
              /\ m.stack # <<>> =>
                   /\ Len(m.stack) \in 1 .. Len(m.stack) /\ Top(r.stack) = f
                   /\ e.obj \in Objects /\ e.next \in Nat \ {0}
                   /\ f.type = c.graph[e.obj].type /\ f.length = Len(Content(c, e.obj))
                   /\ Len(f.got) = e.next - 1 /\ AllRead(c, r, f.got, e.obj)
                   /\ Len(Content(c, e.obj)) \in Nat
<1>1. m \in Moments /\ ReaderOK(r) /\ Len(r.stack) = Len(m.stack)
    BY DEF MomentOK, Matches
<1>2. m.stack \in Seq(Frames) /\ r.stack \in Seq(Calls(Len(r.seen), Len(r.heap)))
    BY <1>1, MomentFields, ReaderFields
<1>3. m.stack = <<>> <=> r.stack = <<>>
    BY <1>1, <1>2
<1>4. ASSUME m.stack # <<>>
      PROVE  LET e == m.stack[Len(m.stack)]
                 f == r.stack[Len(r.stack)]
             IN /\ Len(m.stack) \in 1 .. Len(m.stack) /\ Top(r.stack) = f
                /\ e.obj \in Objects /\ e.next \in Nat \ {0}
                /\ f.type = c.graph[e.obj].type /\ f.length = Len(Content(c, e.obj))
                /\ Len(f.got) = e.next - 1 /\ AllRead(c, r, f.got, e.obj)
                /\ Len(Content(c, e.obj)) \in Nat
  <2>1. Len(m.stack) \in 1 .. Len(m.stack) /\ m.stack[Len(m.stack)].obj \in Objects
        /\ m.stack[Len(m.stack)].next \in Nat \ {0}
      BY <1>1, <1>4, MomentFields
  <2>2. CallMatches(c, m, r, Len(m.stack), 0)
      BY <1>1, <2>1 DEF Matches
  <2>3. Len(Content(c, m.stack[Len(m.stack)].obj)) \in Nat
      BY <2>1, OutputFields
  <2> QED BY <1>1, <2>1, <2>2, <2>3 DEF CallMatches, Top
<1> QED BY <1>1, <1>3, <1>4

\* When a value is due to the reader, the writer wrote one,
LEMMA ValueIsDue ==
    ASSUME NEW c \in Outputs, NEW m, MomentOK(c, m), NEW n, Wrote(c, m, n),
           NEW r, Matches(c, m, r, 0), MoreDue(r)
    PROVE  WroteValue(c, m, n) \/ WroteObject(c, m, n)
<1>1. ASSUME WroteEnd(c, m, n) PROVE FALSE
  <2>1. m.stack # <<>> /\ Top(m.stack).next > Len(Content(c, Top(m.stack).obj))
      BY <1>1 DEF WroteEnd
  <2>2. Top(m.stack) = m.stack[Len(m.stack)]
      BY DEF Top
  <2> QED BY <2>1, <2>2, TopCalls DEF MoreDue
<1> QED BY <1>1 DEF Wrote

\* and when all items are read it ended the object.
LEMMA EndIsDue ==
    ASSUME NEW c \in Outputs, NEW m, MomentOK(c, m), NEW n, Wrote(c, m, n),
           NEW r, Matches(c, m, r, 0), AllDone(r)
    PROVE  /\ WroteEnd(c, m, n) /\ m.stack # <<>>
           /\ m.stack[Len(m.stack)].next - 1 = Len(Content(c, m.stack[Len(m.stack)].obj))
<1>1. m.stack # <<>> /\ m.stack[Len(m.stack)].next - 1 = Len(Content(c, m.stack[Len(m.stack)].obj))
    BY TopCalls DEF AllDone
<1>2. m.sent # 0
    BY <1>1 DEF MomentOK
<1>3. ~HasMore(c, m)
    BY <1>1, <1>2, TopCalls DEF HasMore, Top
<1> QED BY <1>1, <1>3 DEF Wrote, WroteValue, WroteObject

\* Where the class has a string the writer wrote one, or null, and nowhere else.
LEMMA StringsAreDue ==
    ASSUME NEW c \in Outputs, WellTyped(c.graph), NEW m, MomentOK(c, m), HasMore(c, m),
           NEW r, Matches(c, m, r, 0)
    PROVE  IF StringNext(r) THEN Due(c, m) \notin Objects ELSE Due(c, m) \notin Strings
<1> DEFINE e == m.stack[Len(m.stack)]
           t == c.graph[e.obj].type
<1>1. CASE m.sent = 0
  <2>1. Due(c, m) = Root /\ Root \in Objects /\ m.stack = <<>>
      BY <1>1, DueIsItem
  <2>2. r.stack = <<>>
      BY <2>1, TopCalls
  <2> QED BY <2>1, <2>2, ValueAssumption DEF StringNext
<1>2. CASE m.sent # 0
  <2>1. m.stack # <<>> /\ e.next \in 1 .. Len(Content(c, e.obj))
        /\ Due(c, m) = Content(c, e.obj)[e.next]
      BY <1>2, DueIsItem
  <2>2. e.obj \in Objects /\ StringNext(r) <=> (r.stack # <<>> /\ e.next \in StringFields[t])
    <3>1. /\ r.stack # <<>> /\ Top(r.stack) = r.stack[Len(r.stack)] /\ e.obj \in Objects
          /\ r.stack[Len(r.stack)].type = t /\ Len(r.stack[Len(r.stack)].got) = e.next - 1
          /\ e.next \in Nat
        BY <2>1, TopCalls
    <3>2. Len(Top(r.stack).got) + 1 = e.next
        BY <3>1
    <3> QED BY <3>1, <3>2 DEF StringNext
  <2>3. r.stack # <<>> /\ e.obj \in Objects
      BY <2>1, TopCalls
  <2>4. Fills(c.graph, t, e.next, Due(c, m))
    <3>1. Content(c, e.obj) \in Seq(Items) /\ Content(c, e.obj) = c.graph[e.obj].items
        BY <2>3, OutputFields DEF Content
    <3>2. e.next \in DOMAIN c.graph[e.obj].items
        BY <2>1, <3>1
    <3> QED BY <2>1, <2>3, <3>1, <3>2 DEF WellTyped
  <2>5. CASE e.next \in StringFields[t]
      BY <2>2, <2>3, <2>4, <2>5, ValueAssumption DEF Fills
  <2>6. CASE e.next \notin StringFields[t]
      BY <2>2, <2>3, <2>4, <2>6, ValueAssumption DEF Fills
  <2> QED BY <2>5, <2>6
<1> QED BY <1>1, <1>2

\* What the token says is due, and what is read of it
LEMMA NullToken ==
    ASSUME NEW c \in Outputs, NEW m, MomentOK(c, m), NEW n, Wrote(c, m, n),
           NEW r, Matches(c, m, r, 0), MoreDue(r), c.tokens[m.sent + 1] = 0
    PROVE  /\ WroteValue(c, m, n) /\ Read(c, r, Null, Due(c, m))
           /\ Null \in Values(Len(r.heap))
<1>1. ~WroteObject(c, m, n)
    BY DEF WroteObject
<1>2. WroteValue(c, m, n)
    BY <1>1, ValueIsDue
<1>3. m.known \in Nat
    BY MomentFields DEF MomentOK
<1>4. Due(c, m) = Null
    BY <1>2, <1>3 DEF WroteValue
<1> QED BY <1>2, <1>4, ValueAssumption DEF Read, Values

\* A positive number where a string is due is the index of the string that was written.
LEMMA StringToken ==
    ASSUME NEW c \in Outputs, WellTyped(c.graph), NEW m, MomentOK(c, m), NEW n, Wrote(c, m, n),
           NEW r, Matches(c, m, r, 0), MoreDue(r), StringNext(r), c.tokens[m.sent + 1] > 0
    PROVE  LET v == c.table[c.tokens[m.sent + 1]]
           IN WroteValue(c, m, n) /\ Read(c, r, v, Due(c, m)) /\ v \in Values(Len(r.heap))
<1>1. WroteValue(c, m, n) \/ WroteObject(c, m, n)
    BY ValueIsDue
<1>2. HasMore(c, m)
    BY <1>1 DEF WroteValue, WroteObject
<1>3. Due(c, m) \notin Objects
    BY <1>2, StringsAreDue
<1>4. WroteValue(c, m, n)
    BY <1>1, <1>3 DEF WroteObject
<1>5. Due(c, m) \in Strings /\ c.table[c.tokens[m.sent + 1]] = Due(c, m)
    BY <1>3, <1>4 DEF WroteValue
<1> QED BY <1>3, <1>4, <1>5 DEF Read, Values

\* A negative number is the index of an object written before, and its copy is registered.
LEMMA BackReferenceToken ==
    ASSUME NEW c \in Outputs, NEW m, MomentOK(c, m), NEW n, Wrote(c, m, n),
           NEW r, Matches(c, m, r, 0), MoreDue(r), c.tokens[m.sent + 1] < 0
    PROVE  LET v == r.seen[-c.tokens[m.sent + 1]]
           IN WroteValue(c, m, n) /\ Read(c, r, v, Due(c, m)) /\ v \in Values(Len(r.heap))
<1> DEFINE k == -c.tokens[m.sent + 1]
<1>0. c.tokens \in Seq(Int) /\ Len(c.table) \in Nat
    BY OutputFields
<1>1. ~WroteObject(c, m, n)
    BY <1>0 DEF WroteObject
<1>2. WroteValue(c, m, n)
    BY <1>1, ValueIsDue
<1>3. Due(c, m) \in Objects /\ k \in 1 .. m.known /\ c.map[k] = Due(c, m) /\ HasMore(c, m)
    BY <1>0, <1>2 DEF WroteValue
<1>4. m.sent # 0
    BY <1>2, FirstIsObject
<1> HIDE DEF k
<1>5. Read(c, r, r.seen[k], Due(c, m)) /\ r.seen[k] \in Values(Len(r.heap))
    BY <1>3, <1>4, BackReferenceRead
<1> QED BY <1>2, <1>5 DEF k

\* A positive number where no string is due announces an object.
LEMMA ObjectToken ==
    ASSUME NEW c \in Outputs, WellTyped(c.graph), NEW m, MomentOK(c, m), NEW n, Wrote(c, m, n),
           NEW r, Matches(c, m, r, 0), MoreDue(r), ~StringNext(r), c.tokens[m.sent + 1] > 0
    PROVE  WroteObject(c, m, n)
<1>1. WroteValue(c, m, n) \/ WroteObject(c, m, n)
    BY ValueIsDue
<1>2. HasMore(c, m)
    BY <1>1 DEF WroteValue, WroteObject
<1>3. Due(c, m) \notin Strings
    BY <1>2, StringsAreDue
<1>4. m.known \in Nat /\ m.sent \in Nat
    BY MomentFields DEF MomentOK
<1>5. ASSUME WroteValue(c, m, n) PROVE FALSE
  <2>1. c.tokens \in Seq(Int) /\ n.sent = m.sent + 1 /\ n.sent <= Len(c.tokens)
      BY <1>5, OutputFields DEF WroteValue, Wrote
  <2>2. c.tokens[m.sent + 1] \in Int
      BY <1>4, <2>1
  <2> QED BY <1>3, <1>4, <1>5, <2>2 DEF WroteValue
<1> QED BY <1>1, <1>5

\* How many items follow an object that is announced after moment m
Following(c, m, type) ==
    CASE Kind[type] \in {"array", "list"} -> c.tokens[m.sent + 2]
      [] Kind[type] = "class" -> Arity[type]
      [] Kind[type] = "factory" -> 1
      [] OTHER -> 0

\* They are as many as the object has items.
LEMMA ItemsFollow ==
    ASSUME NEW c \in Outputs, WellTyped(c.graph), NEW m, MomentOK(c, m), NEW n, WroteObject(c, m, n)
    PROVE  Following(c, m, c.graph[Due(c, m)].type) = Len(Content(c, Due(c, m)))
<1> DEFINE x == Due(c, m)
           t == c.graph[x].type
<1>1. x \in Objects /\ t \in Types /\ Kind[t] \in Kinds
    BY OutputFields, TypeAssumption DEF WroteObject
<1>2. /\ Kind[t] = "class" => Len(Content(c, x)) = Arity[t]
      /\ Kind[t] = "factory" => Len(Content(c, x)) = 1
      /\ Kind[t] = "enum" => Len(Content(c, x)) = 0
    BY <1>1 DEF WellTyped, Content
<1>3. Kind[t] \in {"array", "list"} => c.tokens[m.sent + 2] = Len(Content(c, x))
    BY DEF WroteObject
<1> HIDE DEF x, t
<1>4. CASE Kind[t] \in {"array", "list"}
    BY <1>3, <1>4 DEF t, x, Following
<1>5. CASE Kind[t] = "class"
    BY <1>2, <1>5 DEF t, x, Following
<1>6. CASE Kind[t] = "factory"
    BY <1>2, <1>6 DEF t, x, Following
<1>7. CASE Kind[t] = "enum"
    BY <1>2, <1>7 DEF t, x, Following
<1> QED BY <1>1, <1>4, <1>5, <1>6, <1>7 DEF Kinds, t, x, Following

--------------------------------------------------------------------------------
(* The steps, between one moment and the next                                   *)

\* A value is read and returned to the innermost call.
LEMMA ValueIsRead ==
    ASSUME NEW c \in Outputs, WellTyped(c.graph), NEW m, MomentOK(c, m), NEW n \in Moments,
           Wrote(c, m, n), WroteValue(c, m, n), NEW r, Matches(c, m, r, 0),
           NEW v \in Values(Len(r.heap)), Read(c, r, v, Due(c, m)),
           NEW r2, r2.stack = Given(r.stack, v), r2.seen = r.seen, r2.heap = r.heap
    PROVE  /\ Matches(c, n, r2, 0) /\ n.sent = m.sent + 1 /\ n.stack # <<>> /\ r.stack # <<>>
           /\ ~KnottedIn(c) => IsAccepted(v, Top(r.stack).type, r.heap)
<1> DEFINE l == Len(m.stack)
           e == m.stack[l]
<1>1. /\ HasMore(c, m) /\ m.sent # 0
      /\ n.stack = Resumed(m.stack) /\ n.sent = m.sent + 1 /\ n.known = m.known
    BY FirstIsObject DEF WroteValue
<1>2. /\ m.stack # <<>> /\ e.next \in 1 .. Len(Content(c, e.obj))
      /\ Due(c, m) = Content(c, e.obj)[e.next]
    BY <1>1, DueIsItem
<1>3. m \in Moments
    BY DEF MomentOK
<1>4. Matches(c, n, r, 1)
    BY <1>1, <1>3, Asked
<1>5. /\ n.stack # <<>> /\ Len(n.stack) = l /\ n.stack[l].next > 1
      /\ n.stack[l].next - 1 = e.next /\ Content(c, n.stack[l].obj)[n.stack[l].next - 1] = Due(c, m)
      /\ n.stack[l].next <= Len(Content(c, n.stack[l].obj)) + 1 /\ n.stack[l].obj = e.obj
    BY <1>1, ResumedOK
<1>6. n.stack[l].next - 1 <= Len(Content(c, n.stack[l].obj))
    BY <1>2, <1>5
<1> HIDE DEF l, e
<1>7. Matches(c, n, r2, 0)
    BY <1>4, <1>5, <1>6, Returned
<1>8. ASSUME ~KnottedIn(c) PROVE IsAccepted(v, Top(r.stack).type, r.heap)
  <2>1. e.obj \in Objects /\ Top(r.stack).type = c.graph[e.obj].type
      BY <1>2, TopCalls DEF l, e
  <2>2. \A k \in 1 .. Len(r.seen) : SlotMatches(c, r, k)
      BY DEF Matches
  <2> QED BY <1>2, <1>8, <2>1, <2>2, ReadIsAccepted
<1>9. r.stack # <<>>
    BY <1>2, TopCalls
<1> QED BY <1>1, <1>5, <1>7, <1>8, <1>9

\* Between asking for an object and announcing it
Half(m) == [stack |-> Resumed(m.stack), sent |-> m.sent, known |-> m.known]

\* The reader matches that moment.
LEMMA HalfWay ==
    ASSUME NEW c \in Outputs, NEW m, MomentOK(c, m), NEW r, Matches(c, m, r, 0)
    PROVE  /\ Half(m) \in Moments /\ Half(m).stack = Resumed(m.stack) /\ Half(m).known = m.known
           /\ Half(m).stack \in Seq(Frames) /\ Matches(c, Half(m), r, 1)
<1>1. m \in Moments /\ m.stack \in Seq(Frames) /\ m.sent \in Nat /\ m.known \in Nat
    BY MomentFields DEF MomentOK
<1>2. Resumed(m.stack) \in Seq(Frames)
    BY <1>1, ResumedStack DEF Resumed
<1>3. Half(m) \in Moments /\ Half(m).stack = Resumed(m.stack) /\ Half(m).known = m.known
    BY <1>1, <1>2, MomentMade DEF Half
<1>4. Matches(c, Half(m), r, 1)
    BY <1>1, <1>3, Asked
<1> QED BY <1>2, <1>3, <1>4

\* A stack with a call on it is not empty.
LEMMA NotEmpty ==
    ASSUME NEW stack \in Seq(Frames), NEW x \in Objects
    PROVE  Append(stack, [obj |-> x, next |-> 1]) # <<>>
<1> DEFINE call == [obj |-> x, next |-> 1]
<1>1. call \in Frames
    BY DEF Frames
<1> HIDE DEF call
<1>2. Len(Append(stack, call)) = Len(stack) + 1 /\ Len(stack) \in Nat
    BY <1>1
<1>3. Append(stack, call) # <<>>
    BY <1>2
<1> QED BY <1>3 DEF call

\* The type that is announced after moment m, and how many tokens that takes
TypeAnnounced(c, m) == c.table[c.tokens[m.sent + 1]]
Step(type) == IF Kind[type] \in {"array", "list", "enum"} THEN 2 ELSE 1

\* An object is announced: an index is reserved and its items are next.
LEMMA ObjectIsRead ==
    ASSUME NEW c \in Outputs, WellTyped(c.graph), NEW m, MomentOK(c, m), NEW n \in Moments,
           WroteObject(c, m, n), NEW r, Matches(c, m, r, 0),
           NEW r2, Registers(r, r2, TypeAnnounced(c, m), Following(c, m, TypeAnnounced(c, m)))
    PROVE  Matches(c, n, r2, 0) /\ n.stack # <<>> /\ n.sent = m.sent + Step(TypeAnnounced(c, m))
<1> DEFINE x == Due(c, m)
           half == Half(m)
<1>1. /\ HasMore(c, m) /\ x \in Objects /\ TypeAnnounced(c, m) = c.graph[x].type
      /\ n.stack = Append(Resumed(m.stack), [obj |-> x, next |-> 1])
      /\ n.known = m.known + 1 /\ c.map[n.known] = x
      /\ n.sent = m.sent + Step(c.graph[x].type)
    BY DEF WroteObject, Step, TypeAnnounced
<1>2. /\ half \in Moments /\ half.stack = Resumed(m.stack) /\ half.known = m.known
      /\ half.stack \in Seq(Frames) /\ Matches(c, half, r, 1)
    BY HalfWay
<1>3. Following(c, m, TypeAnnounced(c, m)) = Len(Content(c, x))
    BY <1>1, ItemsFollow
<1>4. Registers(r, r2, c.graph[x].type, Len(Content(c, x)))
    BY <1>1, <1>3
<1> HIDE DEF half, x
<1>5. n.stack = Append(half.stack, [obj |-> x, next |-> 1]) /\ n.known = half.known + 1
    BY <1>1, <1>2
<1>6. Matches(c, n, r2, 0)
    BY <1>1, <1>2, <1>4, <1>5, Opened
<1>7. n.stack # <<>>
    BY <1>1, <1>2, <1>5, NotEmpty
<1> QED BY <1>1, <1>6, <1>7

\* An object is complete: it is returned to the call around it,
LEMMA ObjectIsReturned ==
    ASSUME NEW c \in Outputs, WellTyped(c.graph), NEW m, MomentOK(c, m), NEW n \in Moments,
           WroteEnd(c, m, n), NEW r, Matches(c, n, r, 1), n.stack # <<>>,
           NEW v \in 1 .. Len(r.heap), Read(c, r, v, m.stack[Len(m.stack)].obj),
           NEW r2, r2.stack = Given(r.stack, v), r2.seen = r.seen, r2.heap = r.heap
    PROVE  /\ Matches(c, n, r2, 0) /\ r.stack # <<>>
           /\ ~KnottedIn(c) => IsAccepted(v, Top(r.stack).type, r.heap)
<1> DEFINE l == Len(m.stack) - 1
           e == m.stack[l]
<1>1. m \in Moments /\ m.stack \in Seq(Frames) /\ m.stack # <<>> /\ n.stack = Pop(m.stack)
    BY MomentFields DEF MomentOK, WroteEnd
<1>2. Len(n.stack) = l /\ Len(m.stack) \in Nat \ {0} /\ n.stack \in Seq(Frames)
      /\ \A d \in 1 .. l : n.stack[d] = m.stack[d] /\ d \in 1 .. Len(m.stack)
  <2> DEFINE q == m.stack
  <2>1. /\ Len(q) \in Nat \ {0} /\ Pop(q) \in Seq(Frames) /\ Len(Pop(q)) = Len(q) - 1
        /\ \A d \in 1 .. Len(q) - 1 : Pop(q)[d] = q[d] /\ d \in 1 .. Len(q)
    <3> HIDE DEF q
    <3> QED BY <1>1, PoppedStack DEF q
  <2> QED BY <1>1, <2>1
<1>3. l \in 1 .. l /\ n.stack[l] = e /\ l + 1 = Len(m.stack) /\ l \in 1 .. Len(m.stack)
    BY <1>2
<1>4. /\ e.next <= Len(Content(c, e.obj)) + 1 /\ e.next > 1
      /\ Content(c, e.obj)[e.next - 1] = m.stack[l + 1].obj
    BY <1>3 DEF MomentOK
<1>5. e.obj \in Objects /\ e.next \in Nat
    BY <1>1, <1>3, MomentFields
<1>6. e.next - 1 \in 1 .. Len(Content(c, e.obj)) /\ e.next - 1 <= Len(Content(c, e.obj))
    BY <1>4, <1>5, OutputFields
<1>7. v \in Values(Len(r.heap))
    BY DEF Values
<1> DEFINE y == Content(c, e.obj)[e.next - 1]
<1>8. Read(c, r, v, y)
    BY <1>3, <1>4
<1> HIDE DEF l, e
<1>9. n.stack[Len(n.stack)] = e
    BY <1>2, <1>3
<1>10. Matches(c, n, r2, 0)
    BY <1>4, <1>6, <1>7, <1>8, <1>9, Returned
<1>11. ReaderOK(r) /\ Len(r.stack) = Len(n.stack) /\ CallMatches(c, n, r, l, 1)
       /\ \A k \in 1 .. Len(r.seen) : SlotMatches(c, r, k)
    BY <1>2, <1>3 DEF Matches
<1>12. r.stack # <<>> /\ Top(r.stack).type = c.graph[e.obj].type
  <2>1. r.stack \in Seq(Calls(Len(r.seen), Len(r.heap)))
      BY <1>11, ReaderFields
  <2>2. Len(r.stack) # 0
      BY <1>2, <1>3, <1>11
  <2>3. r.stack[l].type = c.graph[n.stack[l].obj].type
      BY <1>11 DEF CallMatches
  <2> QED BY <1>2, <1>3, <1>11, <2>1, <2>2, <2>3 DEF Top
<1>13. ASSUME ~KnottedIn(c) PROVE IsAccepted(v, Top(r.stack).type, r.heap)
    BY <1>5, <1>6, <1>8, <1>11, <1>12, <1>13, ReadIsAccepted
<1> QED BY <1>10, <1>12, <1>13

\* or it is the root and all is read.
LEMMA RootIsReturned ==
    ASSUME NEW c \in Outputs, NEW m, MomentOK(c, m), NEW n \in Moments,
           WroteEnd(c, m, n), NEW r, Matches(c, n, r, 1), n.stack = <<>>
    PROVE  Matches(c, n, r, 0) /\ r.stack = <<>> /\ m.stack[Len(m.stack)].obj = Root
<1>1. m \in Moments /\ m.stack \in Seq(Frames) /\ m.stack # <<>> /\ n.stack = Pop(m.stack)
    BY MomentFields DEF MomentOK, WroteEnd
<1>2. Len(n.stack) = Len(m.stack) - 1 /\ Len(m.stack) \in Nat \ {0}
    BY <1>1, PoppedStack
<1>3. Len(n.stack) = 0 /\ Len(m.stack) = 1
    BY <1>2
<1>4. m.stack[Len(m.stack)].obj = Root
    BY <1>1, <1>3 DEF MomentOK
<1>5. Len(r.stack) = 0 /\ ReaderOK(r)
    BY <1>3 DEF Matches
<1>6. r.stack = <<>> /\ 1 .. Len(r.stack) = {}
  <2>1. r.stack \in Seq(Calls(Len(r.seen), Len(r.heap)))
      BY <1>5, ReaderFields
  <2> QED BY <1>5, <2>1
<1>7. Matches(c, n, r, 0)
    BY <1>6 DEF Matches
<1> QED BY <1>4, <1>6, <1>7

\* The items of an array and what a factory reads are taken.
LEMMA ItemsAreTaken ==
    ASSUME NEW c \in Outputs, WellTyped(c.graph), ~KnottedIn(c), NEW m, MomentOK(c, m),
           NEW r, Matches(c, m, r, 0), m.stack # <<>>,
           NEW f, f = r.stack[Len(r.stack)], NEW j \in DOMAIN f.got
    PROVE  IsAccepted(f.got[j], f.type, r.heap)
<1> DEFINE o == m.stack[Len(m.stack)].obj
<1>1. /\ o \in Objects /\ f.type = c.graph[o].type /\ AllRead(c, r, f.got, o)
      /\ ReaderOK(r) /\ Len(Content(c, o)) \in Nat
      /\ Len(r.stack) \in 1 .. Len(r.stack)
    BY TopCalls
<1> HIDE DEF o
<1>2. f.got \in Seq(Values(Len(r.heap)))
    BY <1>1, ReaderFields
<1>3. j \in 1 .. Len(f.got) /\ Len(f.got) \in Nat
    BY <1>2
<1>4. j \in 1 .. Len(Content(c, o)) /\ Read(c, r, f.got[j], Content(c, o)[j])
    BY <1>1, <1>3 DEF AllRead
<1>5. \A k \in 1 .. Len(r.seen) : SlotMatches(c, r, k)
    BY DEF Matches
<1> QED BY <1>1, <1>4, <1>5, ReadIsAccepted

\* The run is over when no call is in progress.
LEMMA StageIsLast ==
    ASSUME NEW c \in Outputs, NEW w, NEW p, IsRun(c, w, p), p.stack = <<>>,
           NEW i \in 1 .. Len(w) - 1, w[i + 1].sent # 0
    PROVE  IF w[i + 1].stack = <<>> THEN w[i + 1] = p ELSE i + 1 \in 1 .. Len(w) - 1
<1>1. w \in Seq(Moments) /\ Len(w) \in Nat /\ w[Len(w)] = p
    BY DEF IsRun
<1>2. i + 1 = Len(w) \/ i + 1 \in 1 .. Len(w) - 1
    BY <1>1
<1>3. CASE i + 1 = Len(w)
    BY <1>1, <1>3
<1>4. CASE i + 1 \in 1 .. Len(w) - 1
  <2>1. Wrote(c, w[i + 1], w[(i + 1) + 1])
      BY <1>4 DEF IsRun
  <2>2. w[i + 1].stack # <<>>
      BY <2>1 DEF Wrote, WroteValue, WroteObject, WroteEnd, HasMore
  <2> QED BY <1>4, <2>2
<1> QED BY <1>2, <1>3, <1>4

--------------------------------------------------------------------------------
(* The actions of the reader                                                    *)

\* The reader after a step
LEMMA ReaderNow ==
    /\ Reader.stack = rstack /\ Reader.seen = seen /\ Reader.heap = heap
    /\ Reader'.stack = rstack' /\ Reader'.seen = seen' /\ Reader'.heap = heap'
BY DEF Reader

\* The writer is done and the reader is before the i-th step of its run w.
Stands(c, p, w, i) ==
    /\ c \in Outputs /\ WellTyped(c.graph)
    /\ IsRun(c, w, p) /\ p.stack = <<>> /\ p.sent = Len(c.tokens)
    /\ i \in 1 .. Len(w) - 1

\* The two moments of the step
LEMMA StandsFields ==
    ASSUME NEW c, NEW p, NEW w, NEW i, Stands(c, p, w, i)
    PROVE  /\ c \in Outputs /\ WellTyped(c.graph) /\ Len(c.tokens) \in Nat
           /\ w[i] \in Moments /\ w[i].sent \in Nat /\ MomentOK(c, w[i])
           /\ w[i + 1] \in Moments /\ w[i + 1].sent \in Nat /\ MomentOK(c, w[i + 1])
           /\ w[i + 1].sent <= Len(c.tokens)
           /\ Wrote(c, w[i], w[i + 1])
<1>1. w \in Seq(Moments) /\ Len(w) \in Nat /\ i \in 1 .. Len(w) - 1
    BY DEF Stands, IsRun
<1>2. i \in 1 .. Len(w) /\ i + 1 \in 1 .. Len(w)
    BY <1>1
<1>3. w[i] \in Moments /\ w[i + 1] \in Moments
    BY <1>1, <1>2
<1>4. MomentOK(c, w[i]) /\ MomentOK(c, w[i + 1]) /\ Wrote(c, w[i], w[i + 1])
    BY <1>1, <1>2 DEF Stands, IsRun
<1>5. w[i].sent \in Nat /\ w[i + 1].sent \in Nat
    BY <1>3, MomentFields
<1>6. Len(c.tokens) \in Nat
    BY OutputFields DEF Stands
<1> QED BY <1>3, <1>4, <1>5, <1>6 DEF Stands, MomentOK

\* What a step of the reader may come to
GoesOn(c, p) ==
    /\ status' = "reading" /\ result' = 0
    /\ \E w : IsRun(c, w, p) /\ \E i \in 1 .. Len(w) - 1 :
         pos' = w[i].sent + 1 /\ Matches(c, w[i], Reader', 0)
Arrives(c, p) ==
    /\ status' = "read" /\ pos' = Len(c.tokens) + 1 /\ Matches(c, p, Reader', 0)
    /\ rstack' = <<>> /\ result' \in 1 .. Len(heap') /\ Read(c, Reader', result', Root)
Fails(c) ==
    /\ status' = "failed" /\ result' = 0 /\ pos' \in 1 .. Len(c.tokens) + 1
    /\ Aligned(c, Reader')
    /\ ~KnottedIn(c) => \E o \in Elements(c.map) : c.graph[o].type \notin Loadable

\* A reader that matches the next moment is before the next step.
LEMMA GoOn ==
    ASSUME NEW c, NEW p, NEW w, NEW i, Stands(c, p, w, i), w[i + 1].sent # 0,
           w[i + 1].stack # <<>>, Matches(c, w[i + 1], Reader', 0),
           pos' = w[i + 1].sent + 1, status' = "reading", result' = 0
    PROVE  GoesOn(c, p)
<1>1. i + 1 \in 1 .. Len(w) - 1
    BY StageIsLast DEF Stands
<1>2. IsRun(c, w, p)
    BY DEF Stands
<1> QED BY <1>1, <1>2 DEF GoesOn

\* What Return does when there is a call to return to
LEMMA Returns ==
    ASSUME NEW stack, stack # <<>>, NEW v, NEW objects, Return(stack, v, objects)
    PROVE  \/ rstack' = Given(stack, v) /\ result' = result /\ status' = status
           \/ /\ ~IsAccepted(v, Top(stack).type, objects)
              /\ status' = "failed" /\ rstack' = rstack /\ result' = result
<1>1. CASE Takes(stack, v, objects)
    BY <1>1 DEF Return, Given
<1>2. CASE ~Takes(stack, v, objects)
    BY <1>2 DEF Return, Takes
<1> QED BY <1>1, <1>2

\* ReadNull, ReadString and ReadBackReference
LEMMA AfterValue ==
    ASSUME NEW c, NEW p, NEW w, NEW i, Stands(c, p, w, i), Matches(c, w[i], Reader, 0),
           pos = w[i].sent + 1, status = "reading", result = 0,
           WroteValue(c, w[i], w[i + 1]), NEW v \in Values(Len(heap)),
           Read(c, Reader, v, Due(c, w[i])),
           pos' = pos + 1, Return(rstack, v, heap), seen' = seen, heap' = heap
    PROVE  GoesOn(c, p) \/ Fails(c)
<1> DEFINE m == w[i]
           n == w[i + 1]
           r == Reader
           r2 == Reader'
           given == [stack |-> Given(rstack, v), seen |-> seen, heap |-> heap]
<1>1. /\ c \in Outputs /\ WellTyped(c.graph) /\ Len(c.tokens) \in Nat
      /\ m \in Moments /\ m.sent \in Nat /\ MomentOK(c, m)
      /\ n \in Moments /\ n.sent \in Nat /\ n.sent <= Len(c.tokens) /\ Wrote(c, m, n)
    BY StandsFields
<1>2. r.stack = rstack /\ r.seen = seen /\ r.heap = heap
      /\ r2.stack = rstack' /\ r2.seen = seen' /\ r2.heap = heap'
    BY ReaderNow
<1>3. given.stack = Given(r.stack, v) /\ given.seen = r.seen /\ given.heap = r.heap
    BY <1>2
<1>4. WroteValue(c, m, n) /\ Matches(c, m, r, 0) /\ v \in Values(Len(r.heap))
      /\ Read(c, r, v, Due(c, m)) /\ pos' = (m.sent + 1) + 1
    BY <1>2
<1> HIDE DEF m, n, r, r2, given
<1>5. /\ Matches(c, n, given, 0) /\ n.sent = m.sent + 1 /\ n.stack # <<>> /\ r.stack # <<>>
      /\ ~KnottedIn(c) => IsAccepted(v, Top(r.stack).type, r.heap)
    BY <1>1, <1>3, <1>4, ValueIsRead
<1>6. CASE rstack' = Given(rstack, v) /\ result' = result /\ status' = status
  <2>1. r2 = given
      BY <1>6 DEF r2, given, Reader
  <2> QED BY <1>1, <1>4, <1>5, <1>6, <2>1, GoOn DEF n, r2
<1>7. CASE /\ ~IsAccepted(v, Top(rstack).type, heap)
           /\ status' = "failed" /\ rstack' = rstack /\ result' = result
  <2>1. r2 = r
      BY <1>7 DEF r2, r, Reader
  <2>2. Aligned(c, r2)
      BY <1>1, <1>4, <2>1, MatchesAligned
  <2>3. pos' \in 1 .. Len(c.tokens) + 1
      BY <1>1, <1>4, <1>5, SMTT(30)
  <2> QED BY <1>2, <1>5, <1>7, <2>2, <2>3 DEF Fails, r2
<1> QED BY <1>2, <1>5, <1>6, <1>7, Returns

\* EndInstance and EndReplacement, when the object is returned
LEMMA AfterEnd ==
    ASSUME NEW c, NEW p, NEW w, NEW i, Stands(c, p, w, i),
           pos = w[i].sent + 1, status = "reading", result = 0,
           WroteEnd(c, w[i], w[i + 1]),
           NEW r, r = [stack |-> Pop(rstack), seen |-> seen', heap |-> heap'],
           Matches(c, w[i + 1], r, 1), NEW v \in 1 .. Len(heap'),
           Read(c, r, v, w[i].stack[Len(w[i].stack)].obj),
           NEW objects, objects[v].type = heap'[v].type,
           Return(Pop(rstack), v, objects), pos' = pos,
           Aligned(c, [stack |-> rstack, seen |-> seen', heap |-> heap'])
    PROVE  GoesOn(c, p) \/ Arrives(c, p) \/ Fails(c)
<1> DEFINE m == w[i]
           n == w[i + 1]
           r2 == Reader'
           given == [stack |-> Given(Pop(rstack), v), seen |-> seen', heap |-> heap']
<1>1. /\ c \in Outputs /\ WellTyped(c.graph) /\ Len(c.tokens) \in Nat
      /\ m \in Moments /\ m.sent \in Nat /\ MomentOK(c, m)
      /\ n \in Moments /\ n.sent \in Nat /\ n.sent <= Len(c.tokens) /\ Wrote(c, m, n)
    BY StandsFields
<1>2. r2.stack = rstack' /\ r2.seen = seen' /\ r2.heap = heap'
      /\ r.stack = Pop(rstack) /\ r.seen = seen' /\ r.heap = heap'
      /\ given.stack = Given(r.stack, v) /\ given.seen = r.seen /\ given.heap = r.heap
    BY ReaderNow
<1>3. WroteEnd(c, m, n) /\ Matches(c, n, r, 1) /\ v \in 1 .. Len(r.heap)
      /\ Read(c, r, v, m.stack[Len(m.stack)].obj) /\ pos' = m.sent + 1
    BY <1>2
<1>4. n.sent = m.sent /\ m.sent # 0
    BY <1>3 DEF WroteEnd
<1>5. p.stack = <<>> /\ p.sent = Len(c.tokens) /\ IsRun(c, w, p)
    BY DEF Stands
<1> HIDE DEF m, n, r2, given
<1>6. CASE n.stack = <<>>
  <2>1. Matches(c, n, r, 0) /\ r.stack = <<>> /\ m.stack[Len(m.stack)].obj = Root
      BY <1>1, <1>3, <1>6, RootIsReturned
  <2>2. rstack' = <<>> /\ result' = v /\ status' = "read"
      BY <1>2, <2>1 DEF Return, Takes
  <2>3. r2 = r
      BY <1>2, <2>1, <2>2 DEF r2, Reader
  <2>4. n = p
      BY <1>1, <1>4, <1>5, <1>6, StageIsLast DEF n, Stands
  <2> QED BY <1>2, <1>3, <1>4, <1>5, <2>1, <2>2, <2>3, <2>4 DEF Arrives, r2
<1>7. CASE n.stack # <<>>
  <2>1. /\ Matches(c, n, given, 0) /\ r.stack # <<>>
        /\ ~KnottedIn(c) => IsAccepted(v, Top(r.stack).type, r.heap)
      BY <1>1, <1>2, <1>3, <1>7, ObjectIsReturned, SMTT(30)
  <2>2. CASE rstack' = Given(Pop(rstack), v) /\ result' = result /\ status' = status
    <3>1. r2 = given
        BY <2>2 DEF r2, given, Reader
    <3> QED BY <1>1, <1>3, <1>4, <1>7, <2>1, <2>2, <3>1, GoOn DEF n, r2
  <2>3. CASE /\ ~IsAccepted(v, Top(Pop(rstack)).type, objects)
             /\ status' = "failed" /\ rstack' = rstack /\ result' = result
    <3>1. Aligned(c, r2)
        BY <2>3 DEF r2, Reader
    <3>2. pos' \in 1 .. Len(c.tokens) + 1
        BY <1>1, <1>3, <1>4
    <3>3. KnottedIn(c)
        BY <1>2, <2>1, <2>3 DEF IsAccepted
    <3> QED BY <2>3, <3>1, <3>2, <3>3 DEF Fails, r2
  <2> QED BY <1>2, <2>1, <2>2, <2>3, Returns
<1> QED BY <1>6, <1>7

\* The reader is before the i-th step of the run, which is what the payload holds.
At(c, p, w, i) ==
    /\ Stands(c, p, w, i) /\ Matches(c, w[i], Reader, 0)
    /\ status = "reading" /\ pos = w[i].sent + 1 /\ result = 0
    /\ c.tokens = tokens /\ c.table = stringTable

\* What is due at the i-th step is what the state of the reader says is due.
LEMMA AtFields ==
    ASSUME NEW c, NEW p, NEW w, NEW i, At(c, p, w, i)
    PROVE  /\ c \in Outputs /\ WellTyped(c.graph)
           /\ MomentOK(c, w[i]) /\ w[i].sent \in Nat /\ w[i + 1] \in Moments
           /\ Wrote(c, w[i], w[i + 1])
           /\ Stands(c, p, w, i) /\ Matches(c, w[i], Reader, 0)
           /\ Token = c.tokens[w[i].sent + 1]
           /\ MoreToRead => MoreDue(Reader)
           /\ StringIsDue <=> StringNext(Reader)
           /\ ItemsAreRead => AllDone(Reader)
BY StandsFields, ReaderNow
   DEF At, Token, MoreToRead, MoreDue, StringIsDue, StringNext, ItemsAreRead, AllDone

\* readObject or readString of a null goes on, or fails on a cycle,
LEMMA StepNull ==
    ASSUME NEW c, NEW p, NEW w, NEW i, At(c, p, w, i), ReadNull
    PROVE  GoesOn(c, p) \/ Fails(c)
<1>1. /\ c \in Outputs /\ MomentOK(c, w[i]) /\ Wrote(c, w[i], w[i + 1])
      /\ Matches(c, w[i], Reader, 0) /\ MoreDue(Reader) /\ c.tokens[w[i].sent + 1] = 0
    BY AtFields DEF ReadNull
<1>2. /\ WroteValue(c, w[i], w[i + 1]) /\ Read(c, Reader, Null, Due(c, w[i]))
      /\ Null \in Values(Len(heap))
    BY <1>1, NullToken, ReaderNow
<1> QED BY <1>2, AfterValue DEF At, ReadNull

\* so does readString,
LEMMA StepString ==
    ASSUME NEW c, NEW p, NEW w, NEW i, At(c, p, w, i), ReadString
    PROVE  GoesOn(c, p) \/ Fails(c)
<1> DEFINE v == stringTable[Token]
<1>1. /\ c \in Outputs /\ WellTyped(c.graph) /\ MomentOK(c, w[i]) /\ Wrote(c, w[i], w[i + 1])
      /\ Matches(c, w[i], Reader, 0) /\ MoreDue(Reader) /\ StringNext(Reader)
      /\ c.tokens[w[i].sent + 1] > 0 /\ v = c.table[c.tokens[w[i].sent + 1]]
    BY AtFields DEF ReadString, At
<1>2. /\ WroteValue(c, w[i], w[i + 1]) /\ Read(c, Reader, v, Due(c, w[i]))
      /\ v \in Values(Len(heap))
    BY <1>1, StringToken, ReaderNow
<1>3. Return(rstack, v, heap) /\ pos' = pos + 1 /\ seen' = seen /\ heap' = heap
    BY DEF ReadString
<1> HIDE DEF v
<1> QED BY <1>2, <1>3, AfterValue DEF At

\* and readObject of an object registered before.
LEMMA StepBackReference ==
    ASSUME NEW c, NEW p, NEW w, NEW i, At(c, p, w, i), ReadBackReference
    PROVE  GoesOn(c, p) \/ Fails(c)
<1> DEFINE v == seen[-Token]
<1>1. /\ c \in Outputs /\ MomentOK(c, w[i]) /\ Wrote(c, w[i], w[i + 1])
      /\ Matches(c, w[i], Reader, 0) /\ MoreDue(Reader)
      /\ c.tokens[w[i].sent + 1] < 0 /\ v = Reader.seen[-c.tokens[w[i].sent + 1]]
    BY AtFields, ReaderNow DEF ReadBackReference
<1>2. /\ WroteValue(c, w[i], w[i + 1]) /\ Read(c, Reader, v, Due(c, w[i]))
      /\ v \in Values(Len(heap))
    BY <1>1, BackReferenceToken, ReaderNow
<1>3. Return(rstack, v, heap) /\ pos' = pos + 1 /\ seen' = seen /\ heap' = heap
    BY DEF ReadBackReference
<1> HIDE DEF v
<1> QED BY <1>2, <1>3, AfterValue DEF At

\* deserialize goes on, whatever the kind of the object.
LEMMA StepObject ==
    ASSUME NEW c, NEW p, NEW w, NEW i, At(c, p, w, i), ReadObject
    PROVE  GoesOn(c, p)
<1> DEFINE m == w[i]
           n == w[i + 1]
           r == Reader
           r2 == Reader'
           type == TypeAnnounced(c, m)
           following == Following(c, m, type)
<1>1. /\ c \in Outputs /\ WellTyped(c.graph) /\ MomentOK(c, m) /\ m.sent \in Nat
      /\ n \in Moments /\ Wrote(c, m, n)
      /\ Matches(c, m, r, 0) /\ MoreDue(r) /\ ~StringNext(r) /\ c.tokens[m.sent + 1] > 0
    BY AtFields DEF ReadObject
<1>2. r.stack = rstack /\ r.seen = seen /\ r.heap = heap
      /\ r2.stack = rstack' /\ r2.seen = seen' /\ r2.heap = heap'
    BY ReaderNow
<1>3. TypeRead = type
    BY DEF At, TypeRead, Token, TypeAnnounced
<1>4. pos + 1 = m.sent + 2
    BY <1>1 DEF At
<1>5. ItemsDue = following
    BY <1>3, <1>4 DEF ItemsDue, At, Following
<1> HIDE DEF following, type
<1>6. /\ heap' = IF Kind[type] = "factory" THEN heap
                  ELSE Append(heap, [type |-> NewType(type), items |-> <<>>])
      /\ seen' = Append(seen, IF Kind[type] = "factory" THEN Null
                              ELSE IF Kind[type] = "factory" THEN 0 ELSE Len(heap) + 1)
      /\ rstack' = Append(rstack, [type |-> type, slot |-> Len(seen) + 1,
                            self |-> IF Kind[type] = "factory" THEN 0 ELSE Len(heap) + 1,
                            length |-> following, got |-> <<>>])
  <2>1. /\ heap' = IF Kind[TypeRead] = "factory" THEN heap
                    ELSE Append(heap, [type |-> NewType(TypeRead), items |-> <<>>])
        /\ seen' = Append(seen, IF Kind[TypeRead] = "factory" THEN Null
                                ELSE IF Kind[TypeRead] = "factory" THEN 0 ELSE Len(heap) + 1)
        /\ rstack' = Append(rstack, [type |-> TypeRead, slot |-> Len(seen) + 1,
                              self |-> IF Kind[TypeRead] = "factory" THEN 0 ELSE Len(heap) + 1,
                              length |-> ItemsDue, got |-> <<>>])
      BY Zenon DEF ReadObject, NewType
  <2> QED BY <1>3, <1>5, <2>1
<1>7. Registers(r, r2, type, following)
    BY <1>2, <1>6 DEF Registers, Self
<1>8. pos' = pos + Step(type) /\ status' = status /\ result' = result
  <2>1. pos' = pos + Step(TypeRead) /\ status' = status /\ result' = result
      BY DEF ReadObject, Step
  <2> QED BY <1>3, <2>1
<1> HIDE DEF m, n, r, r2
<1>9. Matches(c, n, r2, 0) /\ n.stack # <<>> /\ n.sent = m.sent + Step(type)
  <2>1. WroteObject(c, m, n)
      BY <1>1, ObjectToken
  <2> QED BY <1>1, <1>7, <2>1, ObjectIsRead DEF type, following
<1>10. pos' = n.sent + 1 /\ n.sent # 0
  <2>1. Step(type) \in {1, 2} /\ pos = m.sent + 1
      BY DEF Step, At, m
  <2> QED BY <1>1, <1>8, <1>9, <2>1
<1> QED BY <1>8, <1>9, <1>10, GoOn DEF At, n, r2

\* A type that is rejected is one that the reader does not have.
LEMMA StepRejectType ==
    ASSUME NEW c, NEW p, NEW w, NEW i, At(c, p, w, i), RejectType
    PROVE  Fails(c)
<1> DEFINE m == w[i]
           n == w[i + 1]
           r == Reader
           x == Due(c, m)
<1>1. /\ c \in Outputs /\ WellTyped(c.graph) /\ MomentOK(c, m) /\ m.sent \in Nat
      /\ n \in Moments /\ Wrote(c, m, n)
      /\ Matches(c, m, r, 0) /\ MoreDue(r) /\ ~StringNext(r) /\ c.tokens[m.sent + 1] > 0
    BY AtFields DEF RejectType
<1>2. TypeRead = c.table[c.tokens[m.sent + 1]]
    BY DEF At, TypeRead, Token
<1> HIDE DEF m, n, r
<1>3. WroteObject(c, m, n)
    BY <1>1, ObjectToken
<1>4. /\ x \in Objects /\ TypeRead = c.graph[x].type /\ c.map[n.known] = x
      /\ n.known <= Len(c.map) /\ n.known = m.known + 1 /\ n.sent >= m.sent + 1
    BY <1>1, <1>2, <1>3 DEF WroteObject
<1>5. x \in Elements(c.map)
  <2>1. c.map \in Seq(Objects) /\ m.known \in Nat
      BY <1>1, OutputFields, MomentFields DEF MomentOK
  <2>2. n.known \in DOMAIN c.map
      BY <1>4, <2>1
  <2> QED BY <1>4, <2>2 DEF Elements
<1>6. pos' \in 1 .. Len(c.tokens) + 1
  <2>1. pos' = (m.sent + 1) + 1
      BY DEF RejectType, At, m
  <2>2. n.sent <= Len(c.tokens) /\ n.sent \in Nat /\ Len(c.tokens) \in Nat
      BY <1>1, OutputFields, MomentFields DEF Wrote
  <2> QED BY <1>1, <1>4, <2>1, <2>2
<1>7. Aligned(c, r)
    BY <1>1, MatchesAligned
<1>8. Reader' = Reader /\ status' = "failed" /\ result' = 0 /\ TypeRead \notin Loadable
    BY DEF RejectType, Reader, At
<1> HIDE DEF x
<1> QED BY <1>4, <1>5, <1>6, <1>7, <1>8 DEF Fails, r

\* The call that ends, at both ends
LEMMA AtEnd ==
    ASSUME NEW c, NEW p, NEW w, NEW i, At(c, p, w, i), ItemsAreRead
    PROVE  LET m == w[i]
               n == w[i + 1]
           IN /\ c \in Outputs /\ WellTyped(c.graph) /\ MomentOK(c, m) /\ m \in Moments /\ n \in Moments
              /\ Matches(c, m, Reader, 0) /\ WroteEnd(c, m, n) /\ m.stack # <<>>
              /\ n.stack = Pop(m.stack) /\ n.known = m.known
              /\ m.stack[Len(m.stack)].next - 1 = Len(Content(c, m.stack[Len(m.stack)].obj))
              /\ Reader.stack = rstack /\ Reader.seen = seen /\ Reader.heap = heap
              /\ Top(rstack) = Reader.stack[Len(Reader.stack)]
              /\ Aligned(c, Reader)
<1>1. /\ c \in Outputs /\ WellTyped(c.graph) /\ MomentOK(c, w[i]) /\ w[i] \in Moments
      /\ w[i + 1] \in Moments
      /\ Wrote(c, w[i], w[i + 1]) /\ Matches(c, w[i], Reader, 0) /\ AllDone(Reader)
    BY AtFields DEF MomentOK
<1>2. WroteEnd(c, w[i], w[i + 1]) /\ w[i].stack # <<>>
      /\ w[i].stack[Len(w[i].stack)].next - 1 = Len(Content(c, w[i].stack[Len(w[i].stack)].obj))
    BY <1>1, EndIsDue
<1>3. Aligned(c, Reader)
    BY <1>1, MatchesAligned
<1>4. Reader.stack = rstack /\ Reader.seen = seen /\ Reader.heap = heap
      /\ Top(rstack) = Reader.stack[Len(Reader.stack)]
    BY ReaderNow DEF Top
<1> QED BY <1>1, <1>2, <1>3, <1>4 DEF WroteEnd

\* An instance that has its fields is returned, or the reader fails on a cycle.
LEMMA StepEndInstance ==
    ASSUME NEW c, NEW p, NEW w, NEW i, At(c, p, w, i), EndInstance
    PROVE  GoesOn(c, p) \/ Arrives(c, p) \/ Fails(c)
<1> DEFINE m == w[i]
           n == w[i + 1]
           r == Reader
           f == Top(rstack)
           r2 == [stack |-> Pop(rstack), seen |-> seen', heap |-> heap']
           kept == [stack |-> rstack, seen |-> seen', heap |-> heap']
           x == m.stack[Len(m.stack)].obj
<1>1. /\ c \in Outputs /\ WellTyped(c.graph) /\ MomentOK(c, m) /\ m \in Moments /\ n \in Moments
      /\ Matches(c, m, r, 0) /\ WroteEnd(c, m, n) /\ m.stack # <<>>
      /\ n.stack = Pop(m.stack) /\ n.known = m.known
      /\ m.stack[Len(m.stack)].next - 1 = Len(Content(c, x))
      /\ r.stack = rstack /\ r.seen = seen /\ r.heap = heap /\ f = r.stack[Len(r.stack)]
      /\ Aligned(c, r)
    BY AtEnd DEF EndInstance
<1>2. Kind[f.type] \notin Replaceable
    BY DEF EndInstance, Replaceable
<1>3. r2.stack = Pop(rstack) /\ r2.seen = seen' /\ r2.heap = heap'
      /\ kept.stack = rstack /\ kept.seen = seen' /\ kept.heap = heap'
    OBVIOUS
<1>4. heap' = Filled(heap, f.self, f.got) /\ seen' = seen /\ pos' = pos
      /\ Return(Pop(rstack), f.self, heap)
    BY DEF EndInstance, Filled
<1> HIDE DEF m, n, r, r2, kept, f
<1>5. EndedInstance(r, r2)
    BY <1>1, <1>3, <1>4 DEF EndedInstance
<1>6. /\ Matches(c, n, r2, 1) /\ Read(c, r2, f.self, x)
      /\ f.self \in 1 .. Len(r2.heap) /\ Len(r2.heap) = Len(r.heap)
      /\ \A h \in 1 .. Len(r.heap) : r2.heap[h].type = r.heap[h].type
    BY <1>1, <1>2, <1>5, ClosedInstance
<1>7. Aligned(c, kept)
  <2>1. ReaderOK(r) /\ ReaderOK(r2)
      BY <1>1, <1>6 DEF Matches
  <2>2. Len(r.heap) \in Nat
      BY <2>1, ReaderFields
  <2>3. ReaderOK(kept)
      BY <1>1, <1>3, <1>4, <1>6, <2>1 DEF ReaderOK
  <2>4. /\ kept.stack = r.stack /\ Len(kept.seen) = Len(r.seen) /\ Len(r.heap) <= Len(kept.heap)
        /\ \A h \in 1 .. Len(r.heap) : kept.heap[h].type = r.heap[h].type
        /\ \A k \in 1 .. Len(r.seen) : kept.seen[k] = r.seen[k]
      BY <1>1, <1>3, <1>4, <1>6, <2>2
  <2> QED BY <1>1, <2>3, <2>4, AlignedStays
<1>8. /\ f.self \in 1 .. Len(heap') /\ heap[f.self].type = heap'[f.self].type
    BY <1>1, <1>3, <1>6
<1>9. Stands(c, p, w, i) /\ pos = w[i].sent + 1 /\ status = "reading" /\ result = 0
    BY DEF At
<1> DEFINE v == f.self
<1>10. v \in 1 .. Len(heap') /\ heap[v].type = heap'[v].type /\ Return(Pop(rstack), v, heap)
       /\ Read(c, r2, v, x)
    BY <1>4, <1>6, <1>8
<1> HIDE DEF v
<1> QED BY <1>1, <1>4, <1>6, <1>7, <1>9, <1>10, AfterEnd DEF r2, kept, m, n

\* An array or what a factory makes takes its place and is returned, or the reader fails
\* on a cycle.
LEMMA StepEndReplacement ==
    ASSUME NEW c, NEW p, NEW w, NEW i, At(c, p, w, i), EndReplacement
    PROVE  GoesOn(c, p) \/ Arrives(c, p) \/ Fails(c)
<1> DEFINE m == w[i]
           n == w[i + 1]
           r == Reader
           f == Top(rstack)
           r2 == [stack |-> Pop(rstack), seen |-> seen', heap |-> heap']
           kept == [stack |-> rstack, seen |-> seen', heap |-> heap']
           x == m.stack[Len(m.stack)].obj
           v == Len(heap) + 1
           taken == \A j \in DOMAIN f.got : IsAccepted(f.got[j], f.type, heap)
<1>1. /\ c \in Outputs /\ WellTyped(c.graph) /\ MomentOK(c, m) /\ m \in Moments /\ n \in Moments
      /\ Matches(c, m, r, 0) /\ WroteEnd(c, m, n) /\ m.stack # <<>>
      /\ n.stack = Pop(m.stack) /\ n.known = m.known
      /\ m.stack[Len(m.stack)].next - 1 = Len(Content(c, x))
      /\ r.stack = rstack /\ r.seen = seen /\ r.heap = heap /\ f = r.stack[Len(r.stack)]
      /\ Aligned(c, r)
    BY AtEnd DEF EndReplacement
<1>2. Kind[f.type] \in Replaceable
    BY SMTT(30) DEF EndReplacement, Replaceable
<1>3. r2.stack = Pop(rstack) /\ r2.seen = seen' /\ r2.heap = heap'
      /\ kept.stack = rstack /\ kept.seen = seen' /\ kept.heap = heap'
    OBVIOUS
<1>4. Stands(c, p, w, i) /\ pos = w[i].sent + 1 /\ status = "reading" /\ result = 0
    BY DEF At
<1>5. CASE taken
  <2>1. heap' = Created(heap, f.type, f.got) /\ seen' = Replaced(seen, f.slot, v) /\ pos' = pos
        /\ Return(Pop(rstack), v, heap')
      BY <1>5 DEF EndReplacement, Created, Replaced
  <2> HIDE DEF m, n, r, r2, kept, f
  <2>2. EndedReplacement(r, r2)
      BY <1>1, <1>3, <2>1 DEF EndedReplacement
  <2>3. /\ Matches(c, n, r2, 1) /\ Read(c, r2, Len(r.heap) + 1, x)
        /\ Len(r2.heap) = Len(r.heap) + 1
        /\ \A h \in 1 .. Len(r.heap) : r2.heap[h] = r.heap[h]
        /\ Len(r2.seen) = Len(r.seen) /\ r2.seen[f.slot] = Len(r.heap) + 1
        /\ r2.heap[Len(r.heap) + 1].type = c.graph[c.map[f.slot]].type
        /\ \A k \in 1 .. Len(r.seen) : k # f.slot => r2.seen[k] = r.seen[k]
    <3>1. /\ c \in Outputs /\ m \in Moments /\ n \in Moments /\ Matches(c, m, r, 0)
          /\ m.stack # <<>> /\ n.stack = Pop(m.stack) /\ n.known = m.known
          /\ m.stack[Len(m.stack)].next - 1 = Len(Content(c, m.stack[Len(m.stack)].obj))
          /\ f = r.stack[Len(r.stack)] /\ Kind[f.type] \in Replaceable
        BY <1>1, <1>2
    <3> QED BY <2>2, <3>1, ClosedReplacement, SMTT(60)
  <2>4. Aligned(c, kept)
    <3>1. ReaderOK(r) /\ ReaderOK(r2)
        BY <1>1, <2>3 DEF Matches
    <3>2. Len(r.heap) \in Nat /\ Len(r.seen) \in Nat /\ Len(r.heap) + 1 \in Nat
          /\ Len(r.heap) <= Len(r.heap) + 1
          /\ r.stack \in Seq(Calls(Len(r.seen), Len(r.heap)))
        BY <3>1, ReaderFields
    <3>3. r.stack \in Seq(Calls(Len(r.seen), Len(r.heap) + 1))
        BY <3>2, MoreCalls
    <3>4. kept.stack = r.stack /\ kept.seen = r2.seen /\ kept.heap = r2.heap
        BY <1>1, <1>3
    <3>5. ReaderOK(kept)
        BY <2>3, <3>1, <3>3, <3>4 DEF ReaderOK
    <3>6. /\ Len(kept.seen) = Len(r.seen) /\ Len(r.heap) <= Len(kept.heap)
          /\ \A h \in 1 .. Len(r.heap) : kept.heap[h].type = r.heap[h].type
        BY <2>3, <3>2, <3>4
    <3>7. \A k \in 1 .. Len(r.seen) :
             \/ kept.seen[k] = r.seen[k]
             \/ kept.seen[k] \in 1 .. Len(kept.heap)
                /\ kept.heap[kept.seen[k]].type = c.graph[c.map[k]].type
      <4>1. Len(r.heap) + 1 \in 1 .. Len(kept.heap)
          BY <2>3, <3>2, <3>4
      <4>2. /\ kept.seen[f.slot] = Len(r.heap) + 1
            /\ kept.heap[Len(r.heap) + 1].type = c.graph[c.map[f.slot]].type
            /\ \A k \in 1 .. Len(r.seen) : k # f.slot => kept.seen[k] = r.seen[k]
          BY <2>3, <3>4
      <4> HIDE DEF kept, r, f
      <4> QED BY <4>1, <4>2
    <3> QED BY <1>1, <3>4, <3>5, <3>6, <3>7, AlignedStays, ZenonT(40)
  <2>5. v = Len(r.heap) + 1 /\ v \in 1 .. Len(heap')
    <3>1. Len(r.heap) \in Nat
        BY <1>1, ReaderFields DEF Matches
    <3> QED BY <1>1, <1>3, <2>3, <3>1
  <2> HIDE DEF v
  <2>6. Read(c, r2, v, x)
      BY <2>3, <2>5
  <2> QED BY <1>1, <1>4, <2>1, <2>3, <2>4, <2>5, <2>6, AfterEnd, Zenon DEF r2, kept, m, n
<1>6. CASE ~taken
  <2>1. /\ status' = "failed" /\ result' = result /\ pos' = pos
        /\ heap' = heap /\ seen' = seen /\ rstack' = rstack
      BY <1>6 DEF EndReplacement
  <2>2. Reader' = Reader
      BY <2>1 DEF Reader
  <2>3. KnottedIn(c)
    <3>1. PICK j \in DOMAIN f.got : ~IsAccepted(f.got[j], f.type, heap)
        BY <1>6
    <3> HIDE DEF f, m, r
    <3> QED BY <1>1, <3>1, ItemsAreTaken
  <2>4. pos' \in 1 .. Len(c.tokens) + 1
    <3>1. m.sent <= Len(c.tokens) /\ m.sent \in Nat /\ Len(c.tokens) \in Nat
        BY <1>1, OutputFields, MomentFields DEF MomentOK
    <3> QED BY <1>4, <2>1, <3>1
  <2> QED BY <1>1, <1>4, <2>1, <2>2, <2>3, <2>4 DEF Fails
<1> QED BY <1>5, <1>6

--------------------------------------------------------------------------------
(* The invariant of both ends, and what follows from it                         *)

\* The reader is where the writer was, until it has the graph or fails.
HasStarted == rstack = <<>> /\ pos = 1 /\ seen = <<>> /\ heap = <<>> /\ result = 0
IsReading(c, p) ==
    /\ result = 0
    /\ \E w : IsRun(c, w, p) /\ \E i \in 1 .. Len(w) - 1 :
         pos = w[i].sent + 1 /\ Matches(c, w[i], Reader, 0)
HasRead(c, p) ==
    /\ pos = Len(c.tokens) + 1 /\ Matches(c, p, Reader, 0)
    /\ rstack = <<>> /\ result \in 1 .. Len(heap) /\ Read(c, Reader, result, Root)
HasFailed(c) ==
    /\ result = 0 /\ pos \in 1 .. Len(c.tokens) + 1
    /\ Aligned(c, Reader)
    /\ ~KnottedIn(c) => \E o \in Elements(c.map) : c.graph[o].type \notin Loadable

ReaderInv ==
    /\ RunInv
    /\ status \in {"writing", "refused"} => HasStarted
    /\ status = "reading" => IsReading(Output, Present)
    /\ status = "read" => HasRead(Output, Present)
    /\ status = "failed" => HasFailed(Output)

\* The reader begins with nothing read.
LEMMA InitReader == Init => ReaderInv
BY InitRun DEF Init, ReaderInv, HasStarted

\* Nothing is read yet.
LEMMA NothingRead ==
    ASSUME HasStarted
    PROVE  ReaderOK(Reader) /\ Reader.stack = <<>> /\ Reader.seen = <<>> /\ Reader.heap = <<>>
BY DEF HasStarted, Reader, ReaderOK

\* The transmission begins the run.
LEMMA StepTransmit ==
    ASSUME ReaderInv, Transmit
    PROVE  IsReading(Output, Present)
<1>1. RunInv /\ HasStarted /\ status = "writing" /\ tokens # <<>> /\ wstack = <<>>
    BY DEF ReaderInv, Transmit
<1>2. PICK w : IsRun(Output, w, Present)
    BY <1>1 DEF RunInv
<1>3. /\ w \in Seq(Moments) /\ w # <<>> /\ w[1] = Start /\ w[Len(w)] = Present /\ Len(w) \in Nat
    BY <1>2 DEF IsRun
<1>4. Present.sent # 0 /\ Start.sent = 0 /\ Start.known = 0 /\ Start.stack = <<>>
  <2>1. tokens \in Seq(Int) /\ Present.sent = Len(tokens)
      BY <1>1, WriterOutput DEF RunInv, WriterInv, WriterTypeOK
  <2> QED BY <1>1, <2>1 DEF Start
<1>5. Len(w) # 1 /\ Len(w) # 0 /\ Len(w) \in Nat
    BY <1>3, <1>4
<1>6. 1 \in 1 .. Len(w) - 1
  <2> DEFINE l == Len(w)
  <2>1. l # 1 /\ l # 0 /\ l \in Nat
      BY <1>5
  <2> HIDE DEF l
  <2>2. 1 \in 1 .. l - 1
      BY <2>1
  <2> QED BY <2>2 DEF l
<1>7. Matches(Output, Start, Reader, 0)
  <2>1. ReaderOK(Reader) /\ Len(Reader.seen) = 0 /\ Len(Reader.stack) = 0
      BY <1>1, NothingRead
  <2>2. Len(Start.stack) = 0
      BY <1>4
  <2> QED BY <1>4, <2>1, <2>2 DEF Matches
<1>8. pos = Start.sent + 1 /\ result = 0
    BY <1>1, <1>4 DEF HasStarted
<1> QED BY <1>2, <1>3, <1>6, <1>7, <1>8 DEF IsReading

\* A step of the reader
Reads ==
    \/ ReadNull \/ ReadString \/ ReadBackReference \/ ReadObject \/ RejectType
    \/ EndInstance \/ EndReplacement

\* Every step of the reader follows the run.
LEMMA StepReads ==
    ASSUME ReaderInv, Reads
    PROVE  /\ UNCHANGED <<graph, writerVars>>
           /\ GoesOn(Output, Present) \/ Arrives(Output, Present) \/ Fails(Output)
<1>1. status = "reading" /\ UNCHANGED <<graph, writerVars>>
    BY DEF Reads, ReadNull, ReadString, ReadBackReference, ReadObject, RejectType,
           EndInstance, EndReplacement, MoreToRead, ItemsAreRead
<1>2. PICK w : IsRun(Output, w, Present) /\ \E i \in 1 .. Len(w) - 1 :
         pos = w[i].sent + 1 /\ Matches(Output, w[i], Reader, 0)
    BY <1>1 DEF ReaderInv, IsReading
<1>3. PICK i \in 1 .. Len(w) - 1 : pos = w[i].sent + 1 /\ Matches(Output, w[i], Reader, 0)
    BY <1>2
<1>4. RunInv /\ WriterInv /\ result = 0
    BY <1>1 DEF ReaderInv, RunInv, IsReading
<1>5. /\ Output \in Outputs /\ Output.graph = graph /\ Output.tokens = tokens
      /\ Output.table = stringTable /\ Present.stack = wstack /\ Present.sent = Len(tokens)
    BY <1>4, WriterOutput
<1>6. wstack = <<>> /\ WellTyped(graph)
    BY <1>1, <1>4 DEF RunInv, WriterInv, WriterTypeOK
<1> DEFINE c == Output
           p == Present
<1>7. At(c, p, w, i)
    BY <1>1, <1>2, <1>3, <1>4, <1>5, <1>6 DEF At, Stands
<1> HIDE DEF c, p
<1>8. GoesOn(c, p) \/ Arrives(c, p) \/ Fails(c)
  <2>1. CASE ReadNull
      BY <1>7, <2>1, StepNull
  <2>2. CASE ReadString
      BY <1>7, <2>2, StepString
  <2>3. CASE ReadBackReference
      BY <1>7, <2>3, StepBackReference
  <2>4. CASE ReadObject
      BY <1>7, <2>4, StepObject
  <2>5. CASE RejectType
      BY <1>7, <2>5, StepRejectType
  <2>6. CASE EndInstance
      BY <1>7, <2>6, StepEndInstance
  <2>7. CASE EndReplacement
      BY <1>7, <2>7, StepEndReplacement
  <2> QED BY <2>1, <2>2, <2>3, <2>4, <2>5, <2>6, <2>7 DEF Reads
<1> QED BY <1>1, <1>8 DEF c, p

\* Every step of the two ends keeps the invariant.
LEMMA NextReader == ReaderInv /\ [Next]_vars => ReaderInv'
<1> SUFFICES ASSUME ReaderInv, [Next]_vars PROVE ReaderInv'
    OBVIOUS
<1>1. RunInv'
    BY NextRun DEF ReaderInv
<1>2. CASE \/ WriteNull \/ WriteString \/ WriteBackReference \/ WriteObject \/ Refuse \/ EndObject
  <2>1. status = "writing" /\ status' \in {"writing", "refused"} /\ UNCHANGED readerVars
      BY <1>2 DEF WriteNull, WriteString, WriteBackReference, WriteObject, Refuse, EndObject,
                  MoreToWrite
  <2>2. HasStarted'
      BY <2>1 DEF ReaderInv, HasStarted, readerVars
  <2> QED BY <1>1, <2>1, <2>2 DEF ReaderInv
<1>3. CASE Transmit
  <2>1. IsReading(Output, Present)
      BY <1>3, StepTransmit
  <2>2. UNCHANGED <<graph, writerVars, readerVars>> /\ status' = "reading"
      BY <1>3 DEF Transmit
  <2>3. Output' = Output /\ Present' = Present /\ Reader' = Reader /\ pos' = pos /\ result' = result
      BY <2>2 DEF Output, Present, Reader, writerVars, readerVars
  <2>4. IsReading(Output, Present)'
      BY <2>1, <2>3 DEF IsReading
  <2> QED BY <1>1, <2>2, <2>4 DEF ReaderInv
<1>4. CASE Reads
  <2>1. UNCHANGED <<graph, writerVars>>
        /\ (GoesOn(Output, Present) \/ Arrives(Output, Present) \/ Fails(Output))
      BY <1>4, StepReads
  <2>2. Output' = Output /\ Present' = Present
      BY <2>1 DEF Output, Present, writerVars
  <2>3. CASE GoesOn(Output, Present)
    <3>1. IsReading(Output, Present)' /\ status' = "reading"
        BY <2>2, <2>3 DEF GoesOn, IsReading
    <3> QED BY <1>1, <3>1 DEF ReaderInv
  <2>4. CASE Arrives(Output, Present)
    <3>1. HasRead(Output, Present)' /\ status' = "read"
        BY <2>2, <2>4 DEF Arrives, HasRead
    <3> QED BY <1>1, <3>1 DEF ReaderInv
  <2>5. CASE Fails(Output)
    <3>1. HasFailed(Output)' /\ status' = "failed"
        BY <2>2, <2>5 DEF Fails, HasFailed
    <3> QED BY <1>1, <3>1 DEF ReaderInv
  <2> QED BY <2>1, <2>3, <2>4, <2>5
<1>5. CASE Finished \/ UNCHANGED vars
  <2>1. UNCHANGED <<graph, status, writerVars, readerVars>>
      BY <1>5 DEF Finished, vars
  <2>2. /\ Output' = Output /\ Present' = Present /\ Reader' = Reader /\ pos' = pos
        /\ result' = result /\ rstack' = rstack /\ seen' = seen /\ heap' = heap /\ status' = status
      BY <2>1 DEF Output, Present, Reader, writerVars, readerVars
  <2>3. /\ HasStarted => HasStarted'
        /\ IsReading(Output, Present) => IsReading(Output, Present)'
        /\ HasRead(Output, Present) => HasRead(Output, Present)'
        /\ HasFailed(Output) => HasFailed(Output)'
      BY <2>2 DEF HasStarted, IsReading, HasRead, HasFailed
  <2> QED BY <1>1, <2>2, <2>3 DEF ReaderInv
<1> QED BY <1>2, <1>3, <1>4, <1>5 DEF Next, Reads

\* What the reader has keeps to what the writer sent, in every state.
LEMMA ReaderIsAligned ==
    ASSUME ReaderInv
    PROVE  Aligned(Output, Reader) /\ pos \in 1 .. Len(tokens) + 1 /\ result \in 0 .. Len(heap)
<1>1. /\ Output \in Outputs /\ Output.graph = graph /\ Output.tokens = tokens
      /\ Output.map = objectMap /\ Len(tokens) \in Nat /\ Len(objectMap) \in Nat
      /\ WellTyped(Output.graph) /\ Present.sent = Len(tokens)
    BY WriterOutput DEF ReaderInv, RunInv, WriterInv, WriterTypeOK
<1>2. status \in {"writing", "reading", "read", "failed", "refused"}
    BY DEF ReaderInv, RunInv, WriterInv, WriterTypeOK, Ends
<1>3. Aligned(Output, Reader) /\ result = 0 => result \in 0 .. Len(heap)
    BY ReaderNow, ReaderFields DEF Aligned
<1>4. CASE status \in {"writing", "refused"}
  <2>1. HasStarted
      BY <1>4 DEF ReaderInv
  <2>2. ReaderOK(Reader) /\ Len(Reader.stack) = 0 /\ Len(Reader.seen) = 0
      BY <2>1, NothingRead
  <2>3. Aligned(Output, Reader)
      BY <1>1, <2>2 DEF Aligned
  <2> QED BY <1>1, <1>3, <2>1, <2>3 DEF HasStarted
<1>5. CASE status = "reading"
  <2>1. IsReading(Output, Present)
      BY <1>5 DEF ReaderInv
  <2>2. PICK w : IsRun(Output, w, Present) /\ \E i \in 1 .. Len(w) - 1 :
         pos = w[i].sent + 1 /\ Matches(Output, w[i], Reader, 0)
      BY <2>1 DEF IsReading
  <2>3. PICK i \in 1 .. Len(w) - 1 : pos = w[i].sent + 1 /\ Matches(Output, w[i], Reader, 0)
      BY <2>2
  <2>4. w \in Seq(Moments) /\ i \in 1 .. Len(w)
      BY <2>2 DEF IsRun
  <2>5. MomentOK(Output, w[i])
      BY <2>2, <2>4 DEF IsRun
  <2>6. w[i].sent \in Nat /\ w[i].sent <= Len(tokens)
      BY <1>1, <2>5, MomentFields DEF MomentOK
  <2>7. Aligned(Output, Reader)
      BY <1>1, <2>3, <2>5, MatchesAligned
  <2> QED BY <1>1, <1>3, <2>1, <2>3, <2>6, <2>7, SMTT(30) DEF IsReading
<1>6. CASE status = "read"
  <2>1. HasRead(Output, Present)
      BY <1>6 DEF ReaderInv
  <2>2. PICK w : IsRun(Output, w, Present)
      BY <1>6 DEF ReaderInv, RunInv
  <2>3. Len(w) \in 1 .. Len(w) /\ w[Len(w)] = Present
      BY <2>2 DEF IsRun
  <2>4. MomentOK(Output, Present)
      BY <2>2, <2>3 DEF IsRun
  <2>5. Aligned(Output, Reader)
      BY <1>1, <2>1, <2>4, MatchesAligned DEF HasRead
  <2> QED BY <1>1, <2>1, <2>5 DEF HasRead
<1>7. CASE status = "failed"
  <2>1. HasFailed(Output)
      BY <1>7 DEF ReaderInv
  <2> QED BY <1>1, <1>3, <2>1 DEF HasFailed
<1> QED BY <1>2, <1>4, <1>5, <1>6, <1>7

\* What is aligned has its types, and its registered values have those that were sent.
LEMMA ReaderTyped ==
    ASSUME ReaderInv
    PROVE  SlotsAligned
<1>1. Aligned(Output, Reader) /\ pos \in 1 .. Len(tokens) + 1 /\ result \in 0 .. Len(heap)
    BY ReaderIsAligned
<1>2. Reader.stack = rstack /\ Reader.seen = seen /\ Reader.heap = heap
      /\ Output.graph = graph /\ Output.map = objectMap /\ WriterTypeOK
    BY ReaderNow, WriterOutput DEF ReaderInv, RunInv, WriterInv
<1>3. /\ seen \in Seq(Values(Len(heap))) /\ heap \in Seq(Cells(Len(heap)))
      /\ rstack \in Seq(Calls(Len(seen), Len(heap)))
      /\ Len(heap) \in Nat
      /\ \A d \in 1 .. Len(rstack) : rstack[d].got \in Seq(Values(Len(heap)))
    BY <1>1, <1>2, ReaderFields DEF Aligned
<1>4. /\ DOMAIN seen = 1 .. Len(seen) /\ DOMAIN heap = 1 .. Len(heap)
      /\ DOMAIN rstack = 1 .. Len(rstack)
    BY <1>3
<1>5. ASSUME NEW d \in DOMAIN rstack, NEW j \in DOMAIN rstack[d].got,
             rstack[d].got[j] \in 1 .. Len(heap)
      PROVE  j \notin StringFields[rstack[d].type]
  <2>1. rstack[d].got \in Seq(Values(Len(heap)))
      BY <1>3, <1>4
  <2>2. j \in 1 .. Len(rstack[d].got) /\ rstack[d].got[j] \in Nat
      BY <1>3, <1>5, <2>1
  <2> QED BY <1>1, <1>2, <1>4, <2>2 DEF Aligned
<1>6. ReaderTypeOK
  <2>1. HeapValues = Values(Len(heap))
      BY DEF HeapValues, Values
  <2>2. /\ [type : Types, items : Seq(HeapValues)] = Cells(Len(heap))
        /\ [type : Types, slot : 1 .. Len(seen), self : 0 .. Len(heap), length : Nat,
            got : Seq(HeapValues)] = Calls(Len(seen), Len(heap))
      BY <2>1 DEF Cells, Calls
  <2> QED BY <1>1, <1>3, <1>5, <2>1, <2>2 DEF ReaderTypeOK
<1>7. ASSUME NEW k \in DOMAIN seen
      PROVE  /\ k <= Len(objectMap)
             /\ LET type == graph[objectMap[k]].type
                IN \/ seen[k] \in DOMAIN heap /\ heap[seen[k]].type = type
                   \/ status # "read" /\ \E d \in DOMAIN rstack :
                        rstack[d].slot = k /\ rstack[d].type = type
  <2>1. k <= Len(objectMap)
    <3>1. Len(seen) <= Len(objectMap) /\ Len(seen) \in Nat /\ k \in 1 .. Len(seen)
        BY <1>1, <1>2, <1>3, <1>4 DEF Aligned
    <3>2. Len(objectMap) \in Nat
        BY <1>2 DEF WriterTypeOK
    <3> QED BY <3>1, <3>2
  <2>2. \/ seen[k] \in 1 .. Len(heap) /\ heap[seen[k]].type = graph[objectMap[k]].type
        \/ \E d \in 1 .. Len(rstack) :
             rstack[d].slot = k /\ rstack[d].type = graph[objectMap[k]].type
      BY <1>1, <1>2, <1>4 DEF Aligned
  <2>3. status = "read" => rstack = <<>>
      BY DEF ReaderInv, HasRead
  <2>4. status = "read" => 1 .. Len(rstack) = {}
      BY <2>3
  <2> QED BY <1>4, <2>1, <2>2, <2>4
<1> QED BY <1>2, <1>6, <1>7 DEF SlotsAligned, TypeOK

\* What was read for a value is the copy that ReadBack asks for.
LEMMA ReadIsCopy ==
    ASSUME NEW v, NEW x, Read(Output, Reader, v, x), ~KnottedIn(Output),
           WriterInv, Len(seen) = Len(objectMap)
    PROVE  IsCopy(v, x)
<1>1. Output.map = objectMap /\ Reader.seen = seen
    BY ReaderNow, WriterOutput
<1>2. CASE x \in Objects
  <2>1. PICK k \in (1 .. Len(seen)) \ Pending(Reader) : objectMap[k] = x /\ v = seen[k]
      BY <1>1, <1>2 DEF Read
  <2>2. objectMap \in Seq(Objects) /\ k \in DOMAIN objectMap
      BY <2>1 DEF WriterInv, WriterTypeOK
  <2>3. \A y \in DOMAIN objectMap : objectMap[y] = x => y = k
      BY <2>1, <2>2 DEF WriterInv
  <2>4. IndexOf(objectMap, x) = k
      BY <2>1, <2>2, <2>3 DEF IndexOf
  <2> QED BY <1>2, <2>1, <2>4 DEF IsCopy
<1>3. CASE x \notin Objects
    BY <1>3 DEF Read, IsCopy
<1> QED BY <1>2, <1>3

\* The knots of the graph are those of the output.
LEMMA SameKnots == Knotted <=> KnottedIn(Output)
<1>1. Output.map = objectMap /\ Output.graph = graph
    BY DEF Output
<1>2. \A o : Targets(o) = TargetsIn(Output, o)
    BY <1>1 DEF Targets, TargetsIn
<1>3. \A o : OnCycle(o) <=> OnCycleIn(Output, o)
    BY <1>2 DEF OnCycle, OnCycleIn
<1> QED BY <1>1, <1>3 DEF Knotted, KnottedIn, Replaceable

\* A reader that is done, with no knot, has the graph.
LEMMA GraphIsRead ==
    ASSUME ReaderInv, ~Knotted, status = "read"
    PROVE  IsGraphRead
<1>1. /\ Matches(Output, Present, Reader, 0) /\ rstack = <<>> /\ Read(Output, Reader, result, Root)
      /\ WriterInv /\ ~KnottedIn(Output)
    BY SameKnots DEF ReaderInv, RunInv, HasRead
<1>2. /\ Output.map = objectMap /\ Output.graph = graph /\ Present.known = Len(objectMap)
      /\ Reader.stack = rstack /\ Reader.seen = seen /\ Reader.heap = heap
    BY <1>1, ReaderNow, WriterOutput
<1>3. /\ Len(seen) = Len(objectMap)
      /\ \A k \in 1 .. Len(seen) : SlotMatches(Output, Reader, k)
      /\ \A k, l \in 1 .. Len(seen) : k # l /\ seen[k] \in Nat => seen[k] # seen[l]
      /\ seen \in Seq(Values(Len(heap))) /\ heap \in Seq(Cells(Len(heap)))
    BY <1>1, <1>2, ReaderFields DEF Matches
<1>4. 1 .. Len(rstack) = {} /\ Pending(Reader) = {}
    BY <1>1, <1>2 DEF Pending
<1>5. DOMAIN seen = 1 .. Len(seen)
    BY <1>3
<1>6. \A k \in 1 .. Len(seen) :
         /\ seen[k] \in 1 .. Len(heap)
         /\ heap[seen[k]].type = graph[objectMap[k]].type
         /\ Len(heap[seen[k]].items) = Len(graph[objectMap[k]].items)
         /\ AllRead(Output, Reader, heap[seen[k]].items, objectMap[k])
    BY <1>2, <1>3, <1>4 DEF SlotMatches
<1>7. \A k, l \in DOMAIN seen : k # l => seen[k] # seen[l]
  <2>1. \A k \in 1 .. Len(seen) : seen[k] \in Nat
      BY <1>6
  <2> QED BY <1>3, <1>5, <2>1
<1>8. IsCopy(result, Root)
    BY <1>1, <1>3, ReadIsCopy
<1>9. ASSUME NEW k \in DOMAIN seen
      PROVE  LET sent == graph[objectMap[k]]
                 copy == heap[seen[k]]
             IN /\ copy.type = sent.type
                /\ Len(copy.items) = Len(sent.items)
                /\ \A j \in DOMAIN sent.items : IsCopy(copy.items[j], sent.items[j])
  <2> DEFINE sent == graph[objectMap[k]]
             copy == heap[seen[k]]
  <2>1. /\ copy.type = sent.type /\ Len(copy.items) = Len(sent.items)
        /\ AllRead(Output, Reader, copy.items, objectMap[k])
      BY <1>5, <1>6
  <2>2. sent.items \in Seq(Items)
    <3>1. objectMap \in Seq(Objects) /\ k \in DOMAIN objectMap
        BY <1>1, <1>3, <1>5 DEF WriterInv, WriterTypeOK
    <3>2. objectMap[k] \in Objects
        BY <3>1
    <3> QED BY <1>1, <3>2 DEF WriterInv, WriterTypeOK
  <2>3. ASSUME NEW j \in DOMAIN sent.items PROVE IsCopy(copy.items[j], sent.items[j])
    <3>1. j \in 1 .. Len(copy.items)
        BY <2>1, <2>2
    <3>2. Read(Output, Reader, copy.items[j], sent.items[j])
        BY <1>2, <2>1, <3>1 DEF AllRead, Content
    <3> QED BY <1>1, <1>3, <3>2, ReadIsCopy
  <2> QED BY <2>1, <2>3
<1> QED BY <1>3, <1>7, <1>8, <1>9 DEF IsGraphRead

\* The reader follows the run of the writer, in every behaviour of the two ends.
THEOREM ReaderInvariant == Spec => []ReaderInv
BY InitReader, NextReader, PTL DEF Spec

\* The two ends number the objects alike: every registered value, or the call that will
\* replace it, has the type of the object with that index, for every graph.
THEOREM SlotsAreAligned == Spec => []SlotsAligned
<1>1. ReaderInv => SlotsAligned
    BY ReaderTyped
<1> QED BY <1>1, ReaderInvariant, PTL

\* Without a cycle through an array or a factory, what readObject returns is the graph that
\* was written, with its sharing and its cycles, and deserialize fails only on a missing type.
THEOREM GraphIsReadBack == Spec => []ReadBack
<1>1. ASSUME ReaderInv PROVE ReadBack
  <2>1. CASE status = "failed"
    <3>1. ~Knotted => \E o \in Elements(objectMap) : graph[o].type \notin Loadable
      <4>1. Output.graph = graph /\ Output.map = objectMap
          BY DEF Output
      <4> QED BY <1>1, <2>1, <4>1, SameKnots DEF ReaderInv, HasFailed
    <3> QED BY <2>1, <3>1 DEF ReadBack
  <2>2. CASE status # "failed"
      BY <1>1, <2>2, GraphIsRead DEF ReadBack
  <2> QED BY <2>1, <2>2
<1>2. ReaderInv => ReadBack
    BY <1>1
<1> QED BY <1>2, ReaderInvariant, PTL
================================================================================
