-------------------------------- MODULE CookieStore --------------------------------
(*******************************************************************************)
(* gwtrpc4j's CookieManager used by one thread: what it keeps of the Set-Cookie *)
(* headers of a response, and which cookies it puts on a request.               *)
(*                                                                             *)
(* Beside the store of the code, the ghost variable `promised` keeps what the   *)
(* headers said, and each request records the cookies that were due: the        *)
(* unexpired ones whose path is the path of the request or contains it.         *)
(* A host is a sequence of labels, a path a sequence of parts with Slash as one *)
(* of them, and an expiry date an hour of one day.                              *)
(*******************************************************************************)
EXTENDS Naturals, Sequences

CONSTANTS Names,      \* cookie names
          Values,     \* cookie values
          Hosts,      \* hosts the client talks to: sequences of labels
          Paths,      \* paths of cookies and requests
          Slash,      \* the "/" of a path
          Expiries,   \* hours at which cookies expire
          LastHour,   \* the clock stops there
          Responses,  \* the Set-Cookie headers of a response: sequences of Header
          Additions,  \* the cookies the application adds itself
          Malformed,  \* a header without "="
          NoAttr,     \* Java's null for an attribute or a value
          BadDate,    \* an expiry that does not parse with the date format
          NoCookie    \* no entry for this name

ASSUME HoursAssumption == Expiries \subseteq 0..23 /\ LastHour \in 0..23
ASSUME NullAssumption == NoAttr \notin Values

VARIABLES store,     \* the cookies kept for each domain
          promised,  \* ghost: the cookies as the headers describe them
          now,       \* the hour
          request    \* the request being prepared: the cookies sent, and those due

vars == <<store, promised, now, request>>

--------------------------------------------------------------------------------
CookieOf(values) == [value   : values,
                     path    : Paths \cup {NoAttr},
                     expires : Expiries \cup {NoAttr, BadDate}]
Cookie == CookieOf(Values \cup {NoAttr})

\* `padded`: the attributes follow "; " and not ";", as most servers write them.
Header == [name : Names, cookie : CookieOf(Values), padded : BOOLEAN]

ASSUME ResponsesAssumption == Responses \subseteq Seq(Header \cup {Malformed})
ASSUME AdditionsAssumption == Additions \subseteq CookieOf(Values)

\* getDomainFromHost: a host of more than two labels loses the first
DomainOf(host) == IF Len(host) > 2 THEN Tail(host) ELSE host
Domains == {DomainOf(h) : h \in Hosts}

IsPrefixOf(p, q) == Len(p) <= Len(q) /\ SubSeq(q, 1, Len(p)) = p

\* comparePaths: a prefix of characters, whatever follows
ComparePaths(cookiePath, target) ==
    \/ cookiePath = NoAttr
    \/ cookiePath = <<Slash>>
    \/ IsPrefixOf(cookiePath, target)

\* The "hh" of the date format counts 12 hours: 12:30 is read as half past midnight.
ParsedHour(h) == IF h = 12 THEN 0 ELSE h

\* Mutant: a cookie is expired at the very hour it expires.
IsNotExpiredStrict(expires, t) ==
    expires = NoAttr \/ (expires # BadDate /\ t < ParsedHour(expires))

\* isNotExpired: a date that does not parse counts as expired.
IsNotExpired(expires, t) ==
    expires = NoAttr \/ (expires # BadDate /\ t <= ParsedHour(expires))

\* The keys of padded attributes keep their blank: nobody looks them up.
Kept(h) ==
    IF h.padded THEN [value |-> h.cookie.value, path |-> NoAttr, expires |-> NoAttr]
    ELSE h.cookie

\* A header without "=" raises an exception: the headers before it are kept.
Readable(hs) == {i \in DOMAIN hs : \A j \in 1..i : hs[j] # Malformed}
Mentions(hs, n) == {i \in Readable(hs) : hs[i].name = n}
LastMention(hs, n) == CHOOSE i \in Mentions(hs, n) : \A j \in Mentions(hs, n) : j <= i

\* setCookies: the cookies of the domain that pass both tests
Sent(jar, path, t) ==
    {[name |-> n, value |-> jar[n].value] :
        n \in {m \in Names : /\ jar[m] # NoCookie
                             /\ ComparePaths(jar[m].path, path)
                             /\ IsNotExpired(jar[m].expires, t)}}

\* What the comment on setCookies promises
PathCovers(cookiePath, target) ==
    \/ cookiePath = NoAttr
    \/ cookiePath = target
    \/ /\ IsPrefixOf(cookiePath, target)
       /\ \/ cookiePath[Len(cookiePath)] = Slash
          \/ target[Len(cookiePath) + 1] = Slash

Unexpired(expires, t) == expires = NoAttr \/ (expires # BadDate /\ t <= expires)

Due(jar, path, t) ==
    {[name |-> n, value |-> jar[n].value] :
        n \in {m \in Names : /\ jar[m] # NoCookie
                             /\ PathCovers(jar[m].path, path)
                             /\ Unexpired(jar[m].expires, t)}}

--------------------------------------------------------------------------------
EmptyCookie == [value |-> NoAttr, path |-> NoAttr, expires |-> NoAttr]
NoRequest == [sent |-> {}, due |-> {}]
NoJar == [n \in Names |-> NoCookie]

Init ==
    /\ store = [d \in Domains |-> NoJar]
    /\ promised = [d \in Domains |-> NoJar]
    /\ now = 0
    /\ request = NoRequest

StoreCookies(host, hs) ==
    LET d == DomainOf(host) IN
    /\ store' = [store EXCEPT ![d] =
            [n \in Names |-> IF Mentions(hs, n) # {} THEN Kept(hs[LastMention(hs, n)])
                             ELSE @[n]]]
    /\ promised' = [promised EXCEPT ![d] =
            [n \in Names |-> IF Mentions(hs, n) # {} THEN hs[LastMention(hs, n)].cookie
                             ELSE @[n]]]
    /\ request' = NoRequest
    /\ UNCHANGED now

SetCookies(host, path) ==
    LET d == DomainOf(host) IN
    /\ request' = [sent |-> Sent(store[d], path, now), due |-> Due(promised[d], path, now)]
    /\ UNCHANGED <<store, promised, now>>

\* addCookie fills the entry it finds, or a new one; a null attribute keeps the old.
Merged(old, new) ==
    IF old = NoCookie THEN new
    ELSE [value   |-> new.value,
          path    |-> IF new.path = NoAttr THEN old.path ELSE new.path,
          expires |-> IF new.expires = NoAttr THEN old.expires ELSE new.expires]

AddCookie(d, n, c) ==
    /\ store' = [store EXCEPT ![d][n] = Merged(@, c)]
    /\ promised' = [promised EXCEPT ![d][n] =
            IF @ = NoCookie THEN c
            ELSE [value   |-> c.value,
                  path    |-> IF c.path = NoAttr THEN @.path ELSE c.path,
                  expires |-> IF c.expires = NoAttr THEN @.expires ELSE c.expires]]
    /\ request' = NoRequest
    /\ UNCHANGED now

\* getCookie enters an empty cookie when there is none.
GetCookie(d, n) ==
    /\ store' = [store EXCEPT ![d][n] =
            IF @ = NoCookie THEN EmptyCookie ELSE @]
    /\ request' = NoRequest
    /\ UNCHANGED <<promised, now>>

Clear ==
    /\ store' = [d \in Domains |-> NoJar]
    /\ promised' = [d \in Domains |-> NoJar]
    /\ request' = NoRequest
    /\ UNCHANGED now

\* Time passes.
Tick ==
    /\ now < LastHour
    /\ now' = now + 1
    /\ request' = NoRequest
    /\ UNCHANGED <<store, promised>>

Next ==
    \/ \E host \in Hosts, hs \in Responses : StoreCookies(host, hs)
    \/ \E host \in Hosts, path \in Paths : SetCookies(host, path)
    \/ \E d \in Domains, n \in Names, c \in Additions : AddCookie(d, n, c)
    \/ \E d \in Domains, n \in Names : GetCookie(d, n)
    \/ Clear
    \/ Tick

Spec == Init /\ [][Next]_vars

--------------------------------------------------------------------------------
TypeOK ==
    /\ store \in [Domains -> [Names -> Cookie \cup {NoCookie}]]
    /\ promised \in [Domains -> [Names -> CookieOf(Values) \cup {NoCookie}]]
    /\ now \in 0..LastHour
    /\ request \in [sent : SUBSET [name : Names, value : Values \cup {NoAttr}],
                    due  : SUBSET [name : Names, value : Values \cup {NoAttr}]]

\* Headers without padded attributes, dates without the hour of noon and paths that end
\* where a part ends: what the date format, the tokenizer and the prefix test handle.
CleanInputs ==
    /\ \A hs \in Responses : \A i \in DOMAIN hs : hs[i] # Malformed => ~hs[i].padded
    /\ 12 \notin Expiries
    /\ \A p, q \in Paths : ComparePaths(p, q) = PathCovers(p, q)

\* On clean inputs a request carries the cookies that are due and no other, beside the
\* empty ones that getCookie leaves behind: after any sequence of responses, merges,
\* look-ups, clears and hours.
SentIsDue == {s \in request.sent : s.value # NoAttr} = request.due

\* The invariant behind it: the store differs from what the headers said by the empty
\* cookies only.
StoreIsPromised ==
    \A d \in Domains, n \in Names :
        \/ store[d][n] = promised[d][n]
        \/ /\ promised[d][n] = NoCookie
           /\ store[d][n] = EmptyCookie
================================================================================
