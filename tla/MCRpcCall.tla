---------------------------------- MODULE MCRpcCall ----------------------------------
(*******************************************************************************)
(* Instances of RpcCall for TLC.                                                *)
(*******************************************************************************)
EXTENDS RpcCall, TLC

CONSTANTS s1, s2, a1, t1, w1, w2

\* An executor of two threads and one client: two synchronous calls, which may be
\* issued from inside the callback of the third, an asynchronous one.
MixedCalls == {s1, s2, a1}
MixedSync == {s1, s2}
\* One call of each kind, for liveness
PairCalls == {s1, a1}
PairSync == {s1}

MCClients == {t1}
MCWorkers == {w1, w2}

WorkerSymmetry == Permutations(MCWorkers)
MixedSymmetry == Permutations({s1, s2}) \cup WorkerSymmetry
================================================================================
