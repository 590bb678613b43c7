-------------------------------- MODULE MCWorkflow --------------------------------
(*******************************************************************************)
(* Instances of Workflow for TLC.                                               *)
(*******************************************************************************)
EXTENDS Workflow, TLC

\* Lists of elements: a sequence in a sequence, a gateway that returns to a service or
\* falls through, a user's task without a place to go when it is cancelled, tasks
\* after the sequence that are reached by name only.
Lists ==
    [kids |-> ("process" :> <<"seq", "alt", "out">>) @@ ("seq" :> <<"log", "svc", "inner", "gate">>)
              @@ ("inner" :> <<"scr", "usr">>)
              @@ [e \in {"alt", "out", "log", "svc", "gate", "scr", "usr"} |-> <<>>],
     sequenced |-> {},
     kind |-> ("seq" :> "list") @@ ("inner" :> "list") @@ ("log" :> "script")
              @@ ("svc" :> "service")
              @@ ("gate" :> "gate") @@ ("scr" :> "script") @@ ("usr" :> "user")
              @@ ("alt" :> "async") @@ ("out" :> "user"),
     next |-> ("alt" :> "out") @@ [e \in {"seq", "inner", "log", "svc", "gate", "scr", "usr", "out"} |-> None],
     exits |-> ("gate" :> {"alt", "svc", None}) @@ ("usr" :> {None}) @@ ("out" :> {"inner"})
               @@ [e \in {"seq", "inner", "log", "svc", "scr", "alt"} |-> {}]]

\* Sequences: the second one is reached by name, from a gateway or past one that falls
\* through; one element's list is called sequences and another names nobody.
Named ==
    [kids |-> ("process" :> <<"first", "second">>) @@ ("first" :> <<"usr", "parts", "never">>)
              @@ ("parts" :> <<"part">>) @@ ("part" :> <<"scr", "gate">>)
              @@ ("second" :> <<"tail", "alt">>) @@ ("tail" :> <<"svc", "last">>)
              @@ [e \in {"usr", "never", "scr", "gate", "svc", "last", "alt"} |-> <<>>],
     sequenced |-> {"process", "parts"},
     kind |-> [e \in {"first", "parts", "part", "second", "tail"} |-> "list"]
              @@ ("usr" :> "user") @@ ("never" :> "script") @@ ("scr" :> "script")
              @@ ("gate" :> "gate") @@ ("svc" :> "service") @@ ("last" :> "gate")
              @@ ("alt" :> "async"),
     next |-> ("gate" :> "second") @@ ("first" :> "second") @@ ("tail" :> "usr") @@ ("alt" :> "nobody")
              @@ [e \in {"parts", "part", "second", "usr", "never", "scr", "svc", "last"} |-> None],
     exits |-> ("usr" :> {"never"}) @@ ("gate" :> {"usr", None}) @@ ("last" :> {"first", None})
               @@ [e \in {"first", "parts", "part", "second", "tail", "never", "scr", "svc", "alt"} |-> {}]]

MCDefinitions == {Lists, Named}
================================================================================
