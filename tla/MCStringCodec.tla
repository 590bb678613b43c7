---------------------------------- MODULE MCStringCodec ----------------------------------
(*******************************************************************************)
(* Instances of StringCodec for TLC.                                            *)
(*******************************************************************************)
EXTENDS StringCodec

\* The characters that the two encodings could take for each other's delimiters
Core == {"a", "\\", "quote", "|", "comma", "]", "u", "d800"}

\* No string, every string of at most two characters, every string of three core
\* characters, and every pair of strings of at most two core characters
MCTables ==
    {<<>>} \cup {<<s>> : s \in BoundedSeq(Characters, 2)}
      \cup {<<s>> : s \in TupleOf(Core, 3)}
      \cup {<<s, t>> : s, t \in BoundedSeq(Core, 2)}
================================================================================
