---------------------------------- MODULE MCObjectStream ----------------------------------
(*******************************************************************************)
(* An instance of ObjectStream for TLC: a root and two other objects.           *)
(*******************************************************************************)
EXTENDS ObjectStream, TLC, SequencesExt

CONSTANTS root, o1, o2, text

MCObjects == {root, o1, o2}
MCStrings == {text}

\* Pair, Node and Holder are classes: Pair has two fields of type Serializable, Node one
\* and a string, Holder a Node[].  AsList is java.util.Arrays.ArrayList, whose custom
\* serializer reads the array it wraps when it instantiates.  The writer's policy refuses
\* Secret, the reader does not have Gone.
AnyType == {"Pair", "Node", "Holder", "Color", "Node[]", "Serializable[]", "ArrayList",
            "AsList", "LinkedList", "Secret", "Gone"}
MCKind ==
    [t \in AnyType |->
        CASE t \in {"Pair", "Node", "Holder", "Secret", "Gone"} -> "class"
          [] t = "Color" -> "enum"
          [] t \in {"Node[]", "Serializable[]"} -> "array"
          [] t = "AsList" -> "factory"
          [] OTHER -> "list"]
MCAccepts ==
    [t \in AnyType |->
        CASE t = "Holder" -> {"Node[]"}
          [] t = "Node[]" -> {"Node"}
          [] t = "AsList" -> {"Node[]", "Serializable[]"}
          [] OTHER -> AnyType]
MCArity == [t \in AnyType |-> CASE t \in {"Pair", "Node"} -> 2 [] t = "Holder" -> 1 [] OTHER -> 0]
MCStringFields == [t \in AnyType |-> IF t = "Node" THEN {2} ELSE {}]
MCSerializable == AnyType \ {"Secret"}
MCLoadable == AnyType \ {"Gone"}

\* The root has up to two items, an array or list that is not the root at most one; only
\* the root is a Pair, no list of the sender is a LinkedList, and an object that the root
\* does not reach is a Color.
Typings ==
    {typing \in [MCObjects -> AnyType \ {"LinkedList"}] : "Pair" \notin {typing[o1], typing[o2]}}
ItemsOf(typing, o, max) ==
    LET t == typing[o]
        fillers == {x \in MCObjects : typing[x] \in Accepts[t]} \cup {Null}
        size == IF Kind[t] = "factory" THEN {1} ELSE IF Kind[t] = "class" THEN {Arity[t]}
                ELSE IF Kind[t] = "enum" THEN {0} ELSE 0 .. max
    IN IF t = "Node"
         THEN {<<x, y>> : x \in fillers, y \in {text, Null}}
         ELSE UNION {[1 .. n -> IF Kind[t] = "factory" THEN fillers \ {Null} ELSE fillers] : n \in size}
GraphsOf(typing) ==
    {(root :> [type |-> typing[root], items |-> r]) @@
     (o1 :> [type |-> typing[o1], items |-> a]) @@
     (o2 :> [type |-> typing[o2], items |-> b]) :
        r \in ItemsOf(typing, root, 2), a \in ItemsOf(typing, o1, 1), b \in ItemsOf(typing, o2, 1)}
PointsTo(g, x, y) == y \in ToSet(g[x].items)
IsReached(g, x, other) ==
    PointsTo(g, root, x) \/ (PointsTo(g, root, other) /\ PointsTo(g, other, x))
MCGraphs ==
    UNION {{g \in GraphsOf(typing) : /\ IsReached(g, o1, o2) \/ typing[o1] = "Color"
                                     /\ IsReached(g, o2, o1) \/ typing[o2] = "Color"} :
           typing \in Typings}

MCSymmetry == Permutations({o1, o2})
================================================================================
