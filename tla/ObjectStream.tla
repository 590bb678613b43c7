---------------------------------- MODULE ObjectStream ----------------------------------
(*******************************************************************************)
(* An object graph through the stream: the writer of one end, the reader of the *)
(* other (JClientSerializationStreamWriter and JClientSerializationStreamReader; *)
(* the GWT servlet has its own copies of both).                                  *)
(*                                                                              *)
(* Both are recursive: writeObject writes the fields of an object by further    *)
(* calls of writeObject, readObject reads them by further calls of readObject.  *)
(* Here a step handles one value and the calls in progress are an explicit      *)
(* stack.  An object met again is written as a back reference, a negative       *)
(* number, so graphs with sharing and cycles end.  The reader must register an  *)
(* object before it reads its fields, when it does not always have it yet:      *)
(*   - for an array it registers a BoundedList, a LinkedList, and replaces it   *)
(*     when all elements have been read;                                        *)
(*   - for a class whose custom serializer instantiates by reading, nothing.    *)
(*                                                                              *)
(* Values are objects, strings and null; a class has its inherited fields       *)
(* among its own, as both ends write and read them in the same order.  Numbers  *)
(* are left out but for array lengths and enumeration ordinals.                 *)
(*******************************************************************************)
EXTENDS Integers, Sequences, FiniteSets

CONSTANTS
    Objects,        \* the objects of the sender
    Root,           \* the one that is sent
    Strings,        \* the values of string fields
    Null,
    Types,          \* the types, "LinkedList" among them
    Kind,           \* type -> "class", "array", "list", "factory" or "enum"
    Accepts,        \* type -> the types its fields or elements may hold
    Arity,          \* class -> its number of fields
    StringFields,   \* type -> the positions of its string fields
    Serializable,   \* the types the policy of the writer lets through
    Loadable,       \* the types the reader finds, with the signature it was sent
    Graphs          \* the graphs to send: object -> its type and its items

Kinds == {"class", "array", "list", "factory", "enum"}
Items == Objects \cup Strings \cup {Null}

ASSUME ValueAssumption ==
    /\ Root \in Objects
    /\ Null \notin Objects \cup Strings
    /\ Objects \cap Strings = {}
    /\ \A x \in Items : x \notin Int
    /\ Types \cap Strings = {}

ASSUME TypeAssumption ==
    /\ "LinkedList" \in Types
    /\ Kind \in [Types -> Kinds] /\ Kind["LinkedList"] = "list"
    /\ Accepts \in [Types -> SUBSET Types]
    /\ Arity \in [Types -> Nat]
    /\ StringFields \in [Types -> SUBSET Nat]
    /\ \A t \in Types : Kind[t] # "class" => StringFields[t] = {}
    /\ Serializable \subseteq Types /\ Loadable \subseteq Types

\* A string field holds a string, any other field or element an object of a type it accepts.
Fills(g, t, j, x) ==
    \/ x = Null
    \/ IF j \in StringFields[t] THEN x \in Strings
                               ELSE x \in Objects /\ g[x].type \in Accepts[t]

WellTyped(g) ==
    \A o \in Objects :
        LET t == g[o].type
            items == g[o].items
        IN /\ Kind[t] = "class" => Len(items) = Arity[t]
           /\ Kind[t] = "factory" => Len(items) = 1 /\ items[1] # Null
           /\ Kind[t] = "enum" => Len(items) = 0
           /\ \A j \in DOMAIN items : Fills(g, t, j, items[j])

ASSUME GraphAssumption ==
    \A g \in Graphs : /\ g \in [Objects -> [type : Types, items : Seq(Items)]]
                      /\ WellTyped(g)

VARIABLES
    graph,          \* the graph that is sent
    status,         \* "writing", "reading", or how it ended
    wstack,         \* the writer's calls of serialize in progress
    objectMap,      \* the objects written, in the order of their indices
    stringTable,    \* the strings written, in the order of their indices
    tokens,         \* the payload
    rstack,         \* the reader's calls of deserialize in progress
    pos,            \* the next token
    seen,           \* the registered values, in the order of their indices
    heap,           \* the objects the reader created
    result          \* what the outer readObject returned, 0 before that

writerVars == <<wstack, objectMap, stringTable, tokens>>
readerVars == <<rstack, pos, seen, heap, result>>
vars == <<graph, status, writerVars, readerVars>>

Top(stack) == stack[Len(stack)]
Pop(stack) == SubSeq(stack, 1, Len(stack) - 1)
Elements(seq) == {seq[k] : k \in DOMAIN seq}
IndexOf(seq, x) == CHOOSE k \in DOMAIN seq : seq[k] = x

Init ==
    /\ graph \in Graphs
    /\ status = "writing"
    /\ wstack = <<>> /\ objectMap = <<>> /\ stringTable = <<>> /\ tokens = <<>>
    /\ rstack = <<>> /\ pos = 1 /\ seen = <<>> /\ heap = <<>> /\ result = 0

--------------------------------------------------------------------------------
(* The writer                                                                   *)

\* The value whose turn it is: the root, or the next item of the innermost object.
MoreToWrite ==
    /\ status = "writing"
    /\ tokens # <<>> => /\ wstack # <<>>
                       /\ Top(wstack).next <= Len(graph[Top(wstack).obj].items)
ToWrite == IF tokens = <<>> THEN Root ELSE graph[Top(wstack).obj].items[Top(wstack).next]
\* The stack when the value has been written
Resumed(stack) ==
    IF stack = <<>> THEN stack ELSE [stack EXCEPT ![Len(stack)].next = @ + 1]

\* addString
WithString(table, s) == IF s \in Elements(table) THEN table ELSE Append(table, s)

\* writeString(null) and writeObject(null)
WriteNull ==
    /\ MoreToWrite /\ ToWrite = Null
    /\ tokens' = Append(tokens, 0)
    /\ wstack' = Resumed(wstack)
    /\ UNCHANGED <<graph, status, objectMap, stringTable, readerVars>>

WriteString ==
    /\ MoreToWrite /\ ToWrite \in Strings
    /\ stringTable' = WithString(stringTable, ToWrite)
    /\ tokens' = Append(tokens, IndexOf(stringTable', ToWrite))
    /\ wstack' = Resumed(wstack)
    /\ UNCHANGED <<graph, status, objectMap, readerVars>>

WriteBackReference ==
    /\ MoreToWrite /\ ToWrite \in Elements(objectMap)
    /\ tokens' = Append(tokens, -IndexOf(objectMap, ToWrite))
    /\ wstack' = Resumed(wstack)
    /\ UNCHANGED <<graph, status, objectMap, stringTable, readerVars>>

\* The number serializeImpl writes before the items: a length, or an ordinal, whose value
\* is data
Prologue(o) ==
    CASE Kind[graph[o].type] \in {"array", "list"} -> <<Len(graph[o].items)>>
      [] Kind[graph[o].type] = "enum" -> <<0>>
      [] OTHER -> <<>>

\* Mutant: an array is not saved
WriteObjectUnsaved ==
    /\ MoreToWrite /\ ToWrite \in Objects \ Elements(objectMap)
    /\ graph[ToWrite].type \in Serializable
    /\ objectMap' = IF Kind[graph[ToWrite].type] = "array" THEN objectMap
                     ELSE Append(objectMap, ToWrite)
    /\ stringTable' = WithString(stringTable, graph[ToWrite].type)
    /\ tokens' = Append(tokens, IndexOf(stringTable', graph[ToWrite].type)) \o Prologue(ToWrite)
    /\ wstack' = Append(Resumed(wstack), [obj |-> ToWrite, next |-> 1])
    /\ UNCHANGED <<graph, status, readerVars>>

\* saveIndexForObject, then writeString of the type's signature, then what follows it
Announce(object, prologue) ==
    /\ objectMap' = Append(objectMap, object)
    /\ stringTable' = WithString(stringTable, graph[object].type)
    /\ tokens' = Append(tokens, IndexOf(stringTable', graph[object].type)) \o prologue

WriteObject ==
    /\ MoreToWrite /\ ToWrite \in Objects \ Elements(objectMap)
    /\ graph[ToWrite].type \in Serializable
    /\ Announce(ToWrite, Prologue(ToWrite))
    /\ wstack' = Append(Resumed(wstack), [obj |-> ToWrite, next |-> 1])
    /\ UNCHANGED <<graph, status, readerVars>>

\* validateSerialize throws through every call in progress, wstack keeps which.
Refuse ==
    /\ MoreToWrite /\ ToWrite \in Objects \ Elements(objectMap)
    /\ graph[ToWrite].type \notin Serializable
    /\ Announce(ToWrite, <<>>)
    /\ status' = "refused"
    /\ UNCHANGED <<graph, wstack, readerVars>>

EndObject ==
    /\ status = "writing" /\ wstack # <<>>
    /\ Top(wstack).next > Len(graph[Top(wstack).obj].items)
    /\ wstack' = Pop(wstack)
    /\ UNCHANGED <<graph, status, objectMap, stringTable, tokens, readerVars>>

Transmit ==
    /\ status = "writing" /\ tokens # <<>> /\ wstack = <<>>
    /\ status' = "reading"
    /\ UNCHANGED <<graph, writerVars, readerVars>>

--------------------------------------------------------------------------------
(* The reader                                                                   *)

\* A value is due: the root's, or the next item of the innermost object.
MoreToRead ==
    /\ status = "reading"
    /\ rstack # <<>> => Len(Top(rstack).got) < Top(rstack).length
Token == tokens[pos]
StringIsDue == rstack # <<>> /\ Len(Top(rstack).got) + 1 \in StringFields[Top(rstack).type]

\* What a field of type t, an array of type t or the cast of a factory takes
IsAccepted(v, t, objects) == v \in Strings \cup {Null} \/ objects[v].type \in Accepts[t]
\* A field is set, and a factory casts, as soon as the value is read; the elements of an
\* array are set when all have been read, and a collection takes anything.
Takes(stack, v, objects) ==
    stack # <<>> /\ Kind[Top(stack).type] \in {"class", "factory"} =>
        IsAccepted(v, Top(stack).type, objects)

\* readObject or readString returns v to the call that is on the top of the stack.
Return(stack, v, objects) ==
    IF Takes(stack, v, objects)
      THEN /\ rstack' = IF stack = <<>> THEN stack
                        ELSE [stack EXCEPT ![Len(stack)].got = Append(@, v)]
           /\ result' = IF stack = <<>> THEN v ELSE result
           /\ status' = IF stack = <<>> THEN "read" ELSE status
      ELSE /\ status' = "failed"
           /\ UNCHANGED <<rstack, result>>

ReadNull ==
    /\ MoreToRead /\ Token = 0
    /\ pos' = pos + 1
    /\ Return(rstack, Null, heap)
    /\ UNCHANGED <<graph, writerVars, seen, heap>>

ReadString ==
    /\ MoreToRead /\ StringIsDue /\ Token > 0
    /\ pos' = pos + 1
    /\ Return(rstack, stringTable[Token], heap)
    /\ UNCHANGED <<graph, writerVars, seen, heap>>

\* getDecodedObject: whatever is registered by now
ReadBackReference ==
    /\ MoreToRead /\ ~StringIsDue /\ Token < 0
    /\ pos' = pos + 1
    /\ Return(rstack, seen[-Token], heap)
    /\ UNCHANGED <<graph, writerVars, seen, heap>>

TypeRead == stringTable[Token]
\* How many items follow: what a length says, or what the class says
ItemsDue ==
    CASE Kind[TypeRead] \in {"array", "list"} -> tokens[pos + 1]
      [] Kind[TypeRead] = "class" -> Arity[TypeRead]
      [] Kind[TypeRead] = "factory" -> 1
      [] OTHER -> 0

\* Mutant: an object of a class is not registered before its fields are read
ReadObjectUnregistered ==
    /\ MoreToRead /\ ~StringIsDue /\ Token > 0 /\ TypeRead \in Loadable
    /\ LET kind == Kind[TypeRead]
           new == IF kind = "array" THEN "LinkedList" ELSE TypeRead
           self == IF kind = "factory" THEN 0 ELSE Len(heap) + 1
       IN /\ heap' = IF kind = "factory" THEN heap ELSE Append(heap, [type |-> new, items |-> <<>>])
          /\ seen' = Append(seen, IF kind \in {"factory", "class"} THEN Null ELSE self)
          /\ rstack' = Append(rstack, [type |-> TypeRead, slot |-> Len(seen) + 1, self |-> self,
                                      length |-> ItemsDue, got |-> <<>>])
          /\ pos' = pos + (IF kind \in {"array", "list", "enum"} THEN 2 ELSE 1)
    /\ UNCHANGED <<graph, status, writerVars, result>>

\* deserialize: an index is reserved, then the object instantiated, a BoundedList in the
\* place of an array, then registered.  A factory reads first: its index keeps a null.
ReadObject ==
    /\ MoreToRead /\ ~StringIsDue /\ Token > 0 /\ TypeRead \in Loadable
    /\ LET kind == Kind[TypeRead]
           new == IF kind = "array" THEN "LinkedList" ELSE TypeRead
           self == IF kind = "factory" THEN 0 ELSE Len(heap) + 1
       IN /\ heap' = IF kind = "factory" THEN heap ELSE Append(heap, [type |-> new, items |-> <<>>])
          /\ seen' = Append(seen, IF kind = "factory" THEN Null ELSE self)
          /\ rstack' = Append(rstack, [type |-> TypeRead, slot |-> Len(seen) + 1, self |-> self,
                                      length |-> ItemsDue, got |-> <<>>])
          /\ pos' = pos + (IF kind \in {"array", "list", "enum"} THEN 2 ELSE 1)
    /\ UNCHANGED <<graph, status, writerVars, result>>

\* Class.forName or validateTypeVersions throws through every call in progress, before an
\* index is reserved.
RejectType ==
    /\ MoreToRead /\ ~StringIsDue /\ Token > 0 /\ TypeRead \notin Loadable
    /\ pos' = pos + 1
    /\ status' = "failed"
    /\ UNCHANGED <<graph, writerVars, rstack, seen, heap, result>>

ItemsAreRead == status = "reading" /\ rstack # <<>> /\ Len(Top(rstack).got) = Top(rstack).length

\* The object keeps what was read, and is returned.
EndInstance ==
    /\ ItemsAreRead /\ Kind[Top(rstack).type] \in {"class", "list", "enum"}
    /\ heap' = [heap EXCEPT ![Top(rstack).self].items = Top(rstack).got]
    /\ Return(Pop(rstack), Top(rstack).self, heap)
    /\ UNCHANGED <<graph, writerVars, pos, seen>>

\* Mutant: the replacement is not registered
EndReplacementForgets ==
    /\ ItemsAreRead /\ Kind[Top(rstack).type] \in {"array", "factory"}
    /\ LET f == Top(rstack)
           new == Len(heap) + 1
           taken == \A j \in DOMAIN f.got : IsAccepted(f.got[j], f.type, heap)
       IN IF taken
            THEN /\ heap' = Append(heap, [type |-> f.type, items |-> f.got])
                 /\ Return(Pop(rstack), new, heap')
            ELSE /\ status' = "failed"
                 /\ UNCHANGED <<heap, rstack, result>>
    /\ UNCHANGED <<graph, writerVars, pos, seen>>

\* The object is made of what was read, and registered in its reserved place: toArray,
\* which empties the BoundedList and may meet an element that the array does not take, or
\* the factory.
EndReplacement ==
    /\ ItemsAreRead /\ Kind[Top(rstack).type] \in {"array", "factory"}
    /\ LET f == Top(rstack)
           new == Len(heap) + 1
           taken == \A j \in DOMAIN f.got : IsAccepted(f.got[j], f.type, heap)
       IN IF taken
            THEN /\ heap' = Append(heap, [type |-> f.type, items |-> f.got])
                 /\ seen' = [seen EXCEPT ![f.slot] = new]
                 /\ Return(Pop(rstack), new, heap')
            ELSE /\ status' = "failed"
                 /\ UNCHANGED <<heap, seen, rstack, result>>
    /\ UNCHANGED <<graph, writerVars, pos>>

--------------------------------------------------------------------------------
Ends == {"read", "failed", "refused"}
Finished == status \in Ends /\ UNCHANGED vars

Next ==
    \/ WriteNull \/ WriteString \/ WriteBackReference \/ WriteObject \/ Refuse
    \/ EndObject \/ Transmit
    \/ ReadNull \/ ReadString \/ ReadBackReference \/ ReadObject \/ RejectType
    \/ EndInstance \/ EndReplacement
    \/ Finished

Spec == Init /\ [][Next]_vars

--------------------------------------------------------------------------------
HeapValues == 1 .. Len(heap) \cup Strings \cup {Null}

WriterTypeOK ==
    /\ graph \in [Objects -> [type : Types, items : Seq(Items)]] /\ WellTyped(graph)
    /\ status \in {"writing", "reading"} \cup Ends
    /\ wstack \in Seq([obj : Objects, next : Nat \ {0}])
    /\ objectMap \in Seq(Objects) /\ stringTable \in Seq(Strings \cup Types)
    /\ tokens \in Seq(Int) /\ \A k \in DOMAIN tokens : tokens[k] >= -Len(objectMap)

ReaderTypeOK ==
    /\ pos \in 1 .. Len(tokens) + 1
    /\ seen \in Seq(HeapValues)
    /\ heap \in Seq([type : Types, items : Seq(HeapValues)])
    /\ rstack \in Seq([type : Types, slot : 1 .. Len(seen), self : 0 .. Len(heap),
                       length : Nat, got : Seq(HeapValues)])
    /\ \A d \in DOMAIN rstack : \A j \in DOMAIN rstack[d].got :
         rstack[d].got[j] \in 1 .. Len(heap) => j \notin StringFields[rstack[d].type]
    /\ result \in 0 .. Len(heap)

TypeOK == WriterTypeOK /\ ReaderTypeOK

\* An object is never written inside itself: the recursion of the writer is no deeper
\* than the graph has objects, whatever cycles it has.
NeverNested ==
    \A d, e \in DOMAIN wstack : d # e => wstack[d].obj # wstack[e].obj

\* The two ends number the objects alike at every moment, although the reader registers
\* placeholders, replaces them later and instantiates some objects only after reading. So
\* tokens are indices of strings, of objects written before or numbers, and the string
\* fields of what is being read hold strings.
SlotsAligned ==
    /\ TypeOK
    /\ \A k \in DOMAIN seen :
         /\ k <= Len(objectMap)
         /\ LET type == graph[objectMap[k]].type
            IN \/ seen[k] \in DOMAIN heap /\ heap[seen[k]].type = type
               \/ status # "read" /\ \E d \in DOMAIN rstack :
                    rstack[d].slot = k /\ rstack[d].type = type

Targets(o) == Elements(graph[o].items) \cap Objects
\* Every set of objects that holds what o points to, and what its members point to, holds o.
OnCycle(o) ==
    \A S \in SUBSET Objects :
        Targets(o) \subseteq S /\ (\A x \in S : Targets(x) \subseteq S) => o \in S
\* A cycle passes through an object that is replaced after it was registered.
Knotted ==
    \E o \in Elements(objectMap) : Kind[graph[o].type] \in {"array", "factory"} /\ OnCycle(o)

\* v is the copy of x.
IsCopy(v, x) == v = IF x \in Objects THEN seen[IndexOf(objectMap, x)] ELSE x

IsGraphRead ==
    /\ Len(seen) = Len(objectMap)
    /\ IsCopy(result, Root)
    /\ \A k, l \in DOMAIN seen : k # l => seen[k] # seen[l]
    /\ \A k \in DOMAIN seen :
         LET sent == graph[objectMap[k]]
             copy == heap[seen[k]]
         IN /\ copy.type = sent.type
            /\ Len(copy.items) = Len(sent.items)
            /\ \A j \in DOMAIN sent.items : IsCopy(copy.items[j], sent.items[j])

\* What is read is the graph that was sent, the same sharing and the same cycles
\* included, unless a cycle passes through an array or a factory, and the reader fails
\* only on a type it does not have or on such a cycle.
ReadBack ==
    ~Knotted =>
        /\ status = "read" => IsGraphRead
        /\ status = "failed" => \E o \in Elements(objectMap) : graph[o].type \notin Loadable
================================================================================
