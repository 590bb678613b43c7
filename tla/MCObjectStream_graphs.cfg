SPECIFICATION Spec
CONSTANTS
    root = root
    o1 = o1
    o2 = o2
    text = text
    Null = Null
    Objects <- MCObjects
    Root = root
    Strings <- MCStrings
    Types <- AnyType
    Kind <- MCKind
    Accepts <- MCAccepts
    Arity <- MCArity
    StringFields <- MCStringFields
    Serializable <- MCSerializable
    Loadable <- MCLoadable
    Graphs <- MCGraphs
SYMMETRY MCSymmetry
INVARIANTS
    NeverNested
    SlotsAligned
    ReadBack
