------------------------------- MODULE MCCookieStore -------------------------------
(*******************************************************************************)
(* Instances of CookieStore for TLC: one session cookie, one language cookie.   *)
(*******************************************************************************)
EXTENDS CookieStore

CONSTANTS sid, lang, v1, v2, www, ex, org, com, app

MCNames == {sid, lang}
MCValues == {v1, v2}
\* www.ex.org and ex.org share a domain, ex.com does not
MCHosts == {<<www, ex, org>>, <<ex, org>>, <<ex, com>>}

Root == <<Slash>>
AppDir == <<Slash, app, Slash>>  \* /app/
CleanPaths == {Root, AppDir}

H(n, v, p, e, pad) ==
    [name |-> n, cookie |-> [value |-> v, path |-> p, expires |-> e], padded |-> pad]

CleanResponses ==
    {<<H(sid, v1, AppDir, NoAttr, FALSE), H(lang, v1, NoAttr, 1, FALSE)>>,
     <<H(sid, v2, Root, 1, FALSE), H(sid, v1, NoAttr, NoAttr, FALSE)>>,
     <<H(lang, v2, NoAttr, BadDate, FALSE), Malformed, H(sid, v2, NoAttr, NoAttr, FALSE)>>}
SomeAdditions ==
    {[value |-> v1, path |-> NoAttr, expires |-> NoAttr],
     [value |-> v2, path |-> AppDir, expires |-> 1]}
================================================================================
