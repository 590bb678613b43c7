-------------------------------- MODULE MCCookieJar --------------------------------
(*******************************************************************************)
(* Instances of CookieJar for TLC: two threads, with a manager each or one for   *)
(* both.                                                                        *)
(*******************************************************************************)
EXTENDS CookieJar, TLC

CONSTANTS t1, t2, m1, m2, sid, lang, v1, v2

MCThreads == {t1, t2}
TwoManagers == {m1, m2}
MCNames == {sid, lang}
MCValues == {v1, v2}

MCSymmetry == Permutations(MCThreads) \cup Permutations(TwoManagers)
              \cup Permutations(MCNames) \cup Permutations(MCValues)
================================================================================
