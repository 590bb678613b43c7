-------------------------------- MODULE CookieProofs --------------------------------
(*******************************************************************************)
(* Theorems about the cookie manager. First CookieStore, for any names, hosts,   *)
(* paths, responses and hours; then CookieJar, for any threads, managers and     *)
(* calls, and last for threads that have managers of their own.                  *)
(*******************************************************************************)
EXTENDS CookieStore, CookieJar, WellFoundedInduction, TLAPS

--------------------------------------------------------------------------------
\* A bounded set of numbers that is not empty has a greatest one.
LEMMA BoundedMax ==
    ASSUME NEW b \in Nat, NEW S, S \subseteq 1..b, S # {}
    PROVE  \E i \in S : \A j \in S : j <= i
<1> DEFINE R == OpToRel(<, Nat)
           T == {b - i : i \in S}
<1>1. \A m, n \in Nat : n < m => <<n, m>> \in R
    BY DEF OpToRel
<1>2. \A i \in S : i \in 1..b /\ b - i \in Nat
  <2>1. \A i \in 1..b : b - i \in Nat
      OBVIOUS
  <2> QED
      BY <2>1
<1>3. PICK x \in T : \A y \in T : <<y, x>> \notin R
  <2>1. T \subseteq Nat /\ T # {}
      BY <1>2
  <2> HIDE DEF T, R
  <2> QED
      BY <2>1, NatLessThanWellFounded, WFMin DEF R
<1> HIDE DEF R
<1>4. PICK i \in S : x = b - i
    OBVIOUS
<1>5. ASSUME NEW j \in S PROVE j <= i
  <2>1. ~(b - j < b - i)
      BY <1>1, <1>2, <1>3, <1>4
  <2> QED
      BY <1>2, <2>1
<1> QED
    BY <1>5

\* The last header that names a cookie exists, however long the response.
LEMMA LastMentionIsHeader ==
    ASSUME NEW hs \in Responses, NEW n \in Names, Mentions(hs, n) # {}
    PROVE  /\ LastMention(hs, n) \in DOMAIN hs
           /\ hs[LastMention(hs, n)] # Malformed
           /\ hs[LastMention(hs, n)] \in Header
<1>1. /\ hs \in Seq(Header \cup {Malformed})
      /\ Len(hs) \in Nat
      /\ DOMAIN hs = 1..Len(hs)
    BY ResponsesAssumption
<1>2. Mentions(hs, n) \subseteq 1..Len(hs)
    BY <1>1 DEF Mentions, Readable
<1>3. \E i \in Mentions(hs, n) : \A j \in Mentions(hs, n) : j <= i
    BY <1>1, <1>2, BoundedMax
<1>4. LastMention(hs, n) \in Mentions(hs, n)
    BY <1>3 DEF LastMention
<1>5. \A i \in Mentions(hs, n) : i \in DOMAIN hs /\ hs[i] # Malformed
    BY <1>1 DEF Mentions, Readable
<1>6. \A i \in DOMAIN hs : hs[i] \in Header \cup {Malformed}
    BY <1>1
<1> QED
    BY <1>4, <1>5, <1>6

\* Every host has a domain.
LEMMA DomainOfHost == \A host \in Hosts : DomainOf(host) \in Domains
    BY DEF Domains

--------------------------------------------------------------------------------
\* What a request carries are names with their values.
LEMMA SentType ==
    ASSUME NEW jar \in [Names -> Cookie \cup {NoCookie}], NEW path, NEW t
    PROVE  Sent(jar, path, t) \subseteq [name : Names, value : Values \cup {NoAttr}]
    BY DEF Sent, Cookie, CookieOf

\* What a request should carry are names with their values.
LEMMA DueType ==
    ASSUME NEW jar \in [Names -> CookieOf(Values) \cup {NoCookie}], NEW path, NEW t
    PROVE  Due(jar, path, t) \subseteq [name : Names, value : Values \cup {NoAttr}]
    BY DEF Due, CookieOf

\* What is kept of a header is a cookie.
LEMMA KeptType ==
    ASSUME NEW h \in Header
    PROVE  Kept(h) \in Cookie /\ h.cookie \in CookieOf(Values)
    BY DEF Kept, Header, Cookie, CookieOf

\* storeCookies keeps the types.
LEMMA TypeStoreCookies ==
    ASSUME TypeOK, NEW host \in Hosts, NEW hs \in Responses, StoreCookies(host, hs)
    PROVE  TypeOK'
<1> DEFINE d == DomainOf(host)
<1>1. \A n \in Names : Mentions(hs, n) # {} =>
        /\ Kept(hs[LastMention(hs, n)]) \in Cookie
        /\ hs[LastMention(hs, n)].cookie \in CookieOf(Values)
    BY LastMentionIsHeader, KeptType
<1>2. d \in Domains
    BY DomainOfHost
<1>3. store' \in [Domains -> [Names -> Cookie \cup {NoCookie}]]
    BY <1>1, <1>2 DEF TypeOK, StoreCookies
<1>4. promised' \in [Domains -> [Names -> CookieOf(Values) \cup {NoCookie}]]
    BY <1>1, <1>2 DEF TypeOK, StoreCookies
<1> QED
    BY <1>3, <1>4 DEF TypeOK, StoreCookies, NoRequest

\* Nothing the manager does leaves the shape of its maps: every entry is a cookie.
THEOREM TypeCorrect == Spec => []TypeOK
<1>1. Init => TypeOK
    BY HoursAssumption DEF Init, TypeOK, NoJar, NoRequest
<1>2. TypeOK /\ [Next]_vars => TypeOK'
  <2> SUFFICES ASSUME TypeOK, [Next]_vars PROVE TypeOK'
      OBVIOUS
  <2>1. CASE \E host \in Hosts, hs \in Responses : StoreCookies(host, hs)
      BY <2>1, TypeStoreCookies
  <2>2. CASE \E host \in Hosts, path \in Paths : SetCookies(host, path)
    <3>1. PICK host \in Hosts, path \in Paths : SetCookies(host, path)
        BY <2>2
    <3>2. DomainOf(host) \in Domains
        BY DomainOfHost
    <3>3. /\ store[DomainOf(host)] \in [Names -> Cookie \cup {NoCookie}]
          /\ promised[DomainOf(host)] \in [Names -> CookieOf(Values) \cup {NoCookie}]
        BY <3>2 DEF TypeOK
    <3> QED
        BY <3>1, <3>3, SentType, DueType DEF TypeOK, SetCookies
  <2>3. CASE \E d \in Domains, n \in Names, c \in Additions : AddCookie(d, n, c)
    <3>1. PICK d \in Domains, n \in Names, c \in Additions : AddCookie(d, n, c)
        BY <2>3
    <3>2. c \in CookieOf(Values)
        BY AdditionsAssumption
    <3>3. /\ store[d][n] \in Cookie \cup {NoCookie}
          /\ promised[d][n] \in CookieOf(Values) \cup {NoCookie}
        BY DEF TypeOK
    <3>4. Merged(store[d][n], c) \in Cookie
        BY <3>2, <3>3 DEF Merged, Cookie, CookieOf
    <3>5. (IF promised[d][n] = NoCookie THEN c
           ELSE [value   |-> c.value,
                 path    |-> IF c.path = NoAttr THEN promised[d][n].path ELSE c.path,
                 expires |-> IF c.expires = NoAttr THEN promised[d][n].expires
                             ELSE c.expires]) \in CookieOf(Values)
        BY <3>2, <3>3 DEF CookieOf
    <3> QED
        BY <3>1, <3>4, <3>5 DEF TypeOK, AddCookie, NoRequest
  <2>4. CASE \E d \in Domains, n \in Names : GetCookie(d, n)
    <3>1. EmptyCookie \in Cookie
        BY DEF EmptyCookie, Cookie, CookieOf
    <3> QED
        BY <2>4, <3>1 DEF TypeOK, GetCookie, NoRequest
  <2>5. CASE Clear
      BY <2>5 DEF TypeOK, Clear, NoJar, NoRequest
  <2>6. CASE Tick
      BY <2>6, HoursAssumption DEF TypeOK, Tick, NoRequest
  <2>7. CASE UNCHANGED vars
      BY <2>7 DEF TypeOK, vars
  <2> QED
      BY <2>1, <2>2, <2>3, <2>4, <2>5, <2>6, <2>7 DEF Next
<1> QED
    BY <1>1, <1>2, PTL DEF Spec

--------------------------------------------------------------------------------
\* On clean inputs the store is what the headers said, but for empty cookies.

\* Clean headers are stored as they are described.
LEMMA CleanStoreCookies ==
    ASSUME CleanInputs, TypeOK, StoreIsPromised,
           NEW host \in Hosts, NEW hs \in Responses, StoreCookies(host, hs)
    PROVE  StoreIsPromised'
<1> DEFINE d == DomainOf(host)
<1>1. ASSUME NEW n \in Names, Mentions(hs, n) # {}
      PROVE  Kept(hs[LastMention(hs, n)]) = hs[LastMention(hs, n)].cookie
    BY <1>1, LastMentionIsHeader DEF CleanInputs, Kept
<1>2. d \in Domains
    BY DomainOfHost
<1>3. ASSUME NEW e \in Domains, NEW n \in Names
      PROVE  \/ store'[e][n] = promised'[e][n]
             \/ promised'[e][n] = NoCookie /\ store'[e][n] = EmptyCookie
  <2>1. CASE e = d /\ Mentions(hs, n) # {}
      BY <1>1, <1>2, <2>1 DEF TypeOK, StoreCookies
  <2>2. CASE ~(e = d /\ Mentions(hs, n) # {})
    <3>1. store'[e][n] = store[e][n] /\ promised'[e][n] = promised[e][n]
        BY <1>2, <2>2 DEF TypeOK, StoreCookies
    <3> QED
        BY <3>1 DEF StoreIsPromised
  <2> QED
      BY <2>1, <2>2
<1> QED
    BY <1>3 DEF StoreIsPromised

\* addCookie stores what it is given.
LEMMA CleanAddCookie ==
    ASSUME TypeOK, StoreIsPromised,
           NEW d \in Domains, NEW n \in Names, NEW c \in Additions, AddCookie(d, n, c)
    PROVE  StoreIsPromised'
<1>1. c \in CookieOf(Values)
    BY AdditionsAssumption
<1>2. Merged(EmptyCookie, c) = c
    BY <1>1 DEF Merged, EmptyCookie, CookieOf
<1>3. store'[d][n] = promised'[d][n]
  <2>1. CASE store[d][n] = promised[d][n]
      BY <2>1 DEF TypeOK, AddCookie, Merged
  <2>2. CASE promised[d][n] = NoCookie /\ store[d][n] = EmptyCookie
      BY <1>2, <2>2 DEF TypeOK, AddCookie
  <2> QED
      BY <2>1, <2>2 DEF StoreIsPromised
<1>4. ASSUME NEW e \in Domains, NEW m \in Names, e # d \/ m # n
      PROVE  store'[e][m] = store[e][m] /\ promised'[e][m] = promised[e][m]
    BY <1>4 DEF TypeOK, AddCookie
<1> QED
    BY <1>3, <1>4 DEF StoreIsPromised

\* getCookie adds an empty cookie at most.
LEMMA CleanGetCookie ==
    ASSUME TypeOK, StoreIsPromised,
           NEW d \in Domains, NEW n \in Names, GetCookie(d, n)
    PROVE  StoreIsPromised'
<1>1. promised' = promised
    BY DEF GetCookie
<1>2. \A e \in Domains, m \in Names :
        \/ store'[e][m] = store[e][m]
        \/ store[e][m] = NoCookie /\ store'[e][m] = EmptyCookie
    BY DEF TypeOK, GetCookie
<1> QED
    BY <1>1, <1>2 DEF StoreIsPromised

\* With clean headers, every step keeps the store as promised.
LEMMA CleanStep ==
    ASSUME CleanInputs, TypeOK, StoreIsPromised, [Next]_vars
    PROVE  StoreIsPromised'
<1>1. CASE \E host \in Hosts, hs \in Responses : StoreCookies(host, hs)
    BY <1>1, CleanStoreCookies
<1>2. CASE \E host \in Hosts, path \in Paths : SetCookies(host, path)
    BY <1>2 DEF StoreIsPromised, SetCookies
<1>3. CASE \E d \in Domains, n \in Names, c \in Additions : AddCookie(d, n, c)
    BY <1>3, CleanAddCookie
<1>4. CASE \E d \in Domains, n \in Names : GetCookie(d, n)
    BY <1>4, CleanGetCookie
<1>5. CASE Clear
    BY <1>5 DEF StoreIsPromised, Clear
<1>6. CASE Tick
    BY <1>6 DEF StoreIsPromised, Tick
<1>7. CASE UNCHANGED vars
    BY <1>7 DEF StoreIsPromised, vars
<1> QED
    BY <1>1, <1>2, <1>3, <1>4, <1>5, <1>6, <1>7 DEF Next

\* Over any sequence of responses, merges, look-ups and clears, the maps hold what the
\* headers said; the entries nobody stored are the empty ones of getCookie.
THEOREM StoreFollowsHeaders == CleanInputs => (Spec => []StoreIsPromised)
<1> SUFFICES ASSUME CleanInputs PROVE Spec => []StoreIsPromised
    OBVIOUS
<1>1. Init => StoreIsPromised
    BY DEF Init, StoreIsPromised
<1>2. TypeOK /\ StoreIsPromised /\ [Next]_vars => StoreIsPromised'
    BY CleanStep
<1> QED
    BY <1>1, <1>2, TypeCorrect, PTL DEF Spec

--------------------------------------------------------------------------------
\* The date of a clean header is compared as it is meant.
LEMMA CleanDates ==
    ASSUME CleanInputs, NEW e \in Expiries \cup {NoAttr, BadDate}, NEW t
    PROVE  IsNotExpired(e, t) <=> Unexpired(e, t)
    BY DEF CleanInputs, IsNotExpired, Unexpired, ParsedHour

\* The path of a clean header is compared as it is meant.
LEMMA CleanPaths ==
    ASSUME CleanInputs, NEW p \in Paths \cup {NoAttr}, NEW q \in Paths
    PROVE  ComparePaths(p, q) <=> PathCovers(p, q)
<1>1. CASE p = NoAttr
    BY <1>1 DEF ComparePaths, PathCovers
<1>2. CASE p \in Paths
    BY <1>2 DEF CleanInputs, ComparePaths, PathCovers
<1> QED
    BY <1>1, <1>2

\* From a store that is as promised, a request carries what is due.
LEMMA CleanRequest ==
    ASSUME CleanInputs, TypeOK, StoreIsPromised,
           NEW host \in Hosts, NEW path \in Paths, SetCookies(host, path)
    PROVE  SentIsDue'
<1> DEFINE d == DomainOf(host)
           sendable == {m \in Names : /\ store[d][m] # NoCookie
                                      /\ ComparePaths(store[d][m].path, path)
                                      /\ IsNotExpired(store[d][m].expires, now)}
           wanted == {m \in Names : /\ promised[d][m] # NoCookie
                                    /\ PathCovers(promised[d][m].path, path)
                                    /\ Unexpired(promised[d][m].expires, now)}
<1>1. d \in Domains
    BY DomainOfHost
<1>2. /\ request'.sent = {[name |-> n, value |-> store[d][n].value] : n \in sendable}
      /\ request'.due = {[name |-> n, value |-> promised[d][n].value] : n \in wanted}
    BY DEF SetCookies, Sent, Due
<1>3. ASSUME NEW n \in Names, promised[d][n] # NoCookie
      PROVE  /\ store[d][n] = promised[d][n]
             /\ store[d][n].value # NoAttr
             /\ n \in sendable <=> n \in wanted
  <2>1. promised[d][n] \in CookieOf(Values)
      BY <1>1, <1>3 DEF TypeOK
  <2>2. store[d][n] = promised[d][n]
      BY <1>1, <1>3 DEF StoreIsPromised
  <2>3. /\ promised[d][n].path \in Paths \cup {NoAttr}
        /\ promised[d][n].expires \in Expiries \cup {NoAttr, BadDate}
        /\ promised[d][n].value \in Values
      BY <2>1 DEF CookieOf
  <2> QED
      BY <1>3, <2>2, <2>3, CleanDates, CleanPaths, NullAssumption
<1>4. ASSUME NEW n \in Names, promised[d][n] = NoCookie, n \in sendable
      PROVE  store[d][n].value = NoAttr
    BY <1>1, <1>4 DEF StoreIsPromised, EmptyCookie
<1>5. ASSUME NEW n \in wanted
      PROVE  promised[d][n] # NoCookie
    OBVIOUS
<1> HIDE DEF sendable, wanted
<1>6. sendable \subseteq Names /\ wanted \subseteq Names
    BY DEF sendable, wanted
<1>7. ASSUME NEW s \in request'.sent, s.value # NoAttr
      PROVE  s \in request'.due
  <2>1. PICK n \in sendable : s = [name |-> n, value |-> store[d][n].value]
      BY <1>2
  <2>2. promised[d][n] # NoCookie
      BY <1>4, <1>6, <1>7, <2>1
  <2> QED
      BY <1>2, <1>3, <1>6, <2>1, <2>2
<1>8. ASSUME NEW s \in request'.due
      PROVE  s \in request'.sent /\ s.value # NoAttr
  <2>1. PICK n \in wanted : s = [name |-> n, value |-> promised[d][n].value]
      BY <1>2
  <2> QED
      BY <1>2, <1>3, <1>5, <1>6, <2>1
<1> QED
    BY <1>7, <1>8 DEF SentIsDue

\* A request carries the unexpired cookies whose path covers it and no other, but for the
\* empty ones: setCookies does what its comment says, on inputs it can handle.
THEOREM RequestsCarryWhatIsDue == CleanInputs => (Spec => []SentIsDue)
<1> SUFFICES ASSUME CleanInputs PROVE Spec => []SentIsDue
    OBVIOUS
<1>1. Init => SentIsDue
    BY DEF Init, SentIsDue, NoRequest
<1>2. TypeOK /\ StoreIsPromised /\ SentIsDue /\ [Next]_vars => SentIsDue'
  <2> SUFFICES ASSUME TypeOK, StoreIsPromised, SentIsDue, [Next]_vars PROVE SentIsDue'
      OBVIOUS
  <2>1. CASE \E host \in Hosts, path \in Paths : SetCookies(host, path)
      BY <2>1, CleanRequest
  <2>2. CASE request' = NoRequest
      BY <2>2 DEF SentIsDue, NoRequest
  <2>3. CASE UNCHANGED vars
      BY <2>3 DEF SentIsDue, vars
  <2> QED
      BY <2>1, <2>2, <2>3 DEF Next, StoreCookies, AddCookie, GetCookie, Clear, Tick
<1> QED
    BY <1>1, <1>2, TypeCorrect, StoreFollowsHeaders, PTL DEF Spec
--------------------------------------------------------------------------------
(* CookieJar *)

\* A thread about to store has a header, a thread in a map holds one.
HandsFull ==
    \A t \in Threads :
        /\ pc[t] \in {"put", "fill"} => header[t] \in SetCookieHeader
        /\ pc[t] \in {"scan", "put", "fill"} => mine[t] \in Threads

Shape == JarTypeOK /\ HandsFull

Step(t) ==
    \/ SettingCookies(t)
    \/ \E h \in SetCookieHeader \cup {NoHeader} : Answer(t, h)
    \/ StoringCookies(t)

\* Every step is a step of one thread.
LEMMA Steps == ASSUME [JarNext]_jarVars
               PROVE  (\E t \in Threads : Step(t)) \/ UNCHANGED jarVars
    BY DEF JarNext, Step

--------------------------------------------------------------------------------
\* setCookies keeps the shape of the maps, whoever shares them.
LEMMA ShapeSetCookies ==
    ASSUME Shape, NEW t \in Threads, SettingCookies(t)
    PROVE  Shape'
<1>1. manager[t] \in Managers
    BY DEF Shape, JarTypeOK
<1>2. CASE BeginRequest(t)
  <2>1. MyMap(t) \in Threads \cup {NoMap} /\ Keys(MyMap(t)) \subseteq CookieNames
      BY <1>1 DEF Shape, JarTypeOK, MyMap, Keys
  <2>2. calls[t] + 1 \in 0..Calls
      BY <1>2, CallsAssumption DEF Shape, JarTypeOK, BeginRequest
  <2>3. JarTypeOK'
      BY <1>2, <2>1, <2>2 DEF Shape, JarTypeOK, BeginRequest
  <2>4. HandsFull'
      BY <1>2, <2>1 DEF Shape, JarTypeOK, HandsFull, BeginRequest
  <2> QED
      BY <2>3, <2>4 DEF Shape
<1>3. CASE \E n \in CookieNames : Visit(t, n)
  <2>1. PICK n \in CookieNames : Visit(t, n)
      BY <1>3
  <2>2. mine[t] \in Threads
      BY <2>1 DEF Visit, Shape, HandsFull
  <2>3. maps[mine[t]][n] \in Entry
      BY <2>1, <2>2 DEF Shape, JarTypeOK, Visit, Keys
  <2>4. maps[mine[t]][n].value \in CookieValues \cup {Null}
      BY <2>3 DEF Entry
  <2> QED
      BY <2>1, <2>4 DEF Shape, JarTypeOK, HandsFull, Visit
<1>4. CASE ConcurrentModification(t)
    BY <1>4 DEF Shape, JarTypeOK, HandsFull, ConcurrentModification
<1>5. CASE EndScan(t)
    BY <1>5 DEF Shape, JarTypeOK, HandsFull, EndScan
<1> QED
    BY <1>2, <1>3, <1>4, <1>5 DEF SettingCookies

\* A map with another entry is a map.
LEMMA MapUpdate ==
    ASSUME NEW f \in [Threads -> [CookieNames -> Entry \cup {NoEntry}]],
           NEW m \in Threads, NEW n \in CookieNames, NEW e \in Entry
    PROVE  [f EXCEPT ![m][n] = e] \in [Threads -> [CookieNames -> Entry \cup {NoEntry}]]
    OBVIOUS

\* storeCookies keeps the shape of the maps, whoever shares them.
LEMMA ShapeStoreCookies ==
    ASSUME Shape, NEW t \in Threads, StoringCookies(t)
    PROVE  Shape'
<1>1. manager[t] \in Managers /\ t \in Threads
    BY DEF Shape, JarTypeOK
<1>2. /\ AfterLookUp(t) \in {"idle", "put"}
      /\ AfterLookUp(t) = "put" => header[t] \in SetCookieHeader
    BY DEF AfterLookUp, Shape, JarTypeOK
<1>3. CASE LookUp(t)
  <2>1. MyMap(t) \in Threads \cup {NoMap}
      BY <1>1 DEF Shape, JarTypeOK, MyMap
  <2> QED
    <3>1. CASE MyMap(t) # NoMap
        BY <1>2, <1>3, <2>1, <3>1 DEF Shape, JarTypeOK, HandsFull, LookUp
    <3>2. CASE MyMap(t) = NoMap
        BY <1>3, <3>2 DEF Shape, JarTypeOK, HandsFull, LookUp
    <3> QED
        BY <3>1, <3>2
<1>4. CASE Create(t)
    BY <1>1, <1>2, <1>4 DEF Shape, JarTypeOK, HandsFull, Create
<1>5. CASE Put(t)
  <2>1. header[t] \in SetCookieHeader /\ mine[t] \in Threads
      BY <1>5 DEF Put, Shape, HandsFull
  <2>2. header[t].name \in CookieNames /\ header[t].value \in CookieValues
      BY <2>1 DEF SetCookieHeader
  <2>3. [by |-> t, value |-> Null] \in Entry
      BY <1>1 DEF Entry
  <2>4. maps' \in [Threads -> [CookieNames -> Entry \cup {NoEntry}]]
    <3>1. maps' = maps \/ maps' = [maps EXCEPT ![mine[t]][header[t].name] =
                                        [by |-> t, value |-> Null]]
        BY <1>5 DEF Put
    <3>2. maps \in [Threads -> [CookieNames -> Entry \cup {NoEntry}]]
        BY DEF Shape, JarTypeOK
    <3>3. [maps EXCEPT ![mine[t]][header[t].name] = [by |-> t, value |-> Null]]
            \in [Threads -> [CookieNames -> Entry \cup {NoEntry}]]
        BY <2>1, <2>2, <2>3, <3>2, MapUpdate
    <3> QED
        BY <3>1, <3>2, <3>3
  <2>5. latest' \in [Managers -> [CookieNames -> CookieValues \cup {Null}]]
      BY <1>1, <1>5, <2>2 DEF Shape, JarTypeOK, Put
  <2> QED
      BY <1>5, <2>4, <2>5 DEF Shape, JarTypeOK, HandsFull, Put
<1>6. CASE Fill(t)
  <2>1. header[t] \in SetCookieHeader /\ mine[t] \in Threads
      BY <1>6 DEF Fill, Shape, HandsFull
  <2>2. header[t].name \in CookieNames /\ header[t].value \in CookieValues
      BY <2>1 DEF SetCookieHeader
  <2>3. maps[mine[t]][header[t].name] = [by |-> t, value |-> Null] =>
            [maps[mine[t]][header[t].name] EXCEPT !.value = header[t].value] \in Entry
      BY <1>1, <2>2 DEF Entry
  <2>4. maps' \in [Threads -> [CookieNames -> Entry \cup {NoEntry}]]
      BY <1>6, <2>1, <2>2, <2>3 DEF Shape, JarTypeOK, Fill
  <2> QED
      BY <1>6, <2>4 DEF Shape, JarTypeOK, HandsFull, Fill
<1> QED
    BY <1>3, <1>4, <1>5, <1>6 DEF StoringCookies

\* Every step keeps the shape of the maps.
LEMMA ShapeStep == ASSUME Shape, [JarNext]_jarVars PROVE Shape'
<1>1. CASE UNCHANGED jarVars
    BY <1>1 DEF Shape, JarTypeOK, HandsFull, jarVars
<1>2. ASSUME NEW t \in Threads, Step(t) PROVE Shape'
  <2>1. CASE \E h \in SetCookieHeader \cup {NoHeader} : Answer(t, h)
      BY <2>1 DEF Shape, JarTypeOK, HandsFull, Answer
  <2> QED
      BY <1>2, <2>1, ShapeSetCookies, ShapeStoreCookies DEF Step
<1> QED
    BY <1>1, <1>2, Steps

\* The shape of the maps at the start
LEMMA ShapeInit == ASSUME JarInit PROVE Shape
<1>1. maps \in [Threads -> [CookieNames -> Entry \cup {NoEntry}]]
    BY DEF JarInit, Entry
<1>2. stores \in [Managers -> Threads \cup {NoMap}]
    BY DEF JarInit
<1> QED
    BY <1>1, <1>2, CallsAssumption DEF JarInit, Shape, JarTypeOK, HandsFull

\* The maps always have their shape, however managers are shared.
LEMMA ShapeAlways == JarSpec => []Shape
    BY ShapeInit, ShapeStep, PTL DEF JarSpec

\* The maps keep the type of maps of cookies, whoever shares them.
THEOREM MapsTypeCorrect == JarSpec => []JarTypeOK
<1>1. Shape => JarTypeOK
    BY DEF Shape
<1> QED
    BY <1>1, ShapeAlways, PTL

--------------------------------------------------------------------------------
\* Half-filled cookies, whoever shares the manager.

\* An entry without a value is one that a thread is filling, after every step.
LEMMA HalfFilledStep ==
    ASSUME Shape, HalfFilledIsInProgress, NEW t \in Threads, Step(t)
    PROVE  HalfFilledIsInProgress'
<1>1. CASE pc[t] # "fill" /\ maps' = maps /\ header' = header /\ pc'[t] # "fill"
  <2>1. \A u \in Threads : pc[u] = "fill" => /\ pc'[u] = "fill"
                                            /\ mine'[u] = mine[u]
      BY <1>1 DEF Step, SettingCookies, StoringCookies, BeginRequest, Visit, EndScan,
           ConcurrentModification, Answer, LookUp, Create, Put, Fill, Shape, JarTypeOK
  <2> QED
      BY <1>1, <2>1 DEF HalfFilledIsInProgress
<1>2. CASE \E h \in SetCookieHeader \cup {NoHeader} : Answer(t, h)
    BY <1>2 DEF Answer, HalfFilledIsInProgress, Shape, JarTypeOK
<1>3. CASE Create(t)
    BY <1>3 DEF Create, HalfFilledIsInProgress, Shape, JarTypeOK, AfterLookUp
<1>4. CASE Put(t)
  <2>1. header[t] \in SetCookieHeader /\ mine[t] \in Threads
      BY <1>4 DEF Put, Shape, HandsFull
  <2>2. header[t].name \in CookieNames
      BY <2>1 DEF SetCookieHeader
  <2>3. ASSUME NEW m \in Threads, NEW n \in CookieNames,
               maps'[m][n] # NoEntry, maps'[m][n].value = Null
        PROVE  \E u \in Threads : /\ maps'[m][n].by = u
                                  /\ pc'[u] = "fill"
                                  /\ mine'[u] = m
                                  /\ header'[u].name = n
    <3>1. CASE maps'[m][n] = maps[m][n]
        BY <1>4, <2>3, <3>1 DEF HalfFilledIsInProgress, Put, Shape, JarTypeOK
    <3>2. CASE maps'[m][n] # maps[m][n]
      <4>1. m = mine[t] /\ n = header[t].name /\ maps'[m][n] = [by |-> t, value |-> Null]
        <5>1. maps' = [maps EXCEPT ![mine[t]][header[t].name] = [by |-> t, value |-> Null]]
            BY <1>4, <3>2 DEF Put
        <5> QED
            BY <2>1, <2>2, <3>2, <5>1 DEF Shape, JarTypeOK
      <4> QED
          BY <1>4, <4>1 DEF Put, Shape, JarTypeOK
    <3> QED
        BY <3>1, <3>2
  <2> QED
      BY <2>3 DEF HalfFilledIsInProgress
<1>5. CASE Fill(t)
  <2>1. header[t] \in SetCookieHeader /\ mine[t] \in Threads
      BY <1>5 DEF Fill, Shape, HandsFull
  <2>2. header[t].name \in CookieNames /\ header[t].value \in CookieValues
      BY <2>1 DEF SetCookieHeader
  <2>3. ASSUME NEW m \in Threads, NEW n \in CookieNames,
               maps'[m][n] # NoEntry, maps'[m][n].value = Null
        PROVE  \E u \in Threads : /\ maps'[m][n].by = u
                                  /\ pc'[u] = "fill"
                                  /\ mine'[u] = m
                                  /\ header'[u].name = n
    <3>1. maps'[m][n] = maps[m][n]
      <4>1. ASSUME maps'[m][n] # maps[m][n] PROVE FALSE
        <5>1. /\ m = mine[t] /\ n = header[t].name
              /\ maps[m][n] = [by |-> t, value |-> Null]
              /\ maps'[m][n] = [maps[m][n] EXCEPT !.value = header[t].value]
            BY <1>5, <2>1, <2>2, <4>1 DEF Fill, Shape, JarTypeOK
        <5>2. maps'[m][n].value = header[t].value
            BY <5>1
        <5> QED
            BY <2>2, <2>3, <5>2, NoValueAssumption
      <4> QED
          BY <4>1
    <3>2. PICK u \in Threads : /\ maps[m][n].by = u
                               /\ pc[u] = "fill"
                               /\ mine[u] = m
                               /\ header[u].name = n
        BY <2>3, <3>1 DEF HalfFilledIsInProgress
    <3>3. u # t
      <4>1. ASSUME u = t PROVE FALSE
        <5>1. maps[m][n] \in Entry
            BY <2>3, <3>1 DEF Shape, JarTypeOK
        <5>2. maps[m][n] = [by |-> t, value |-> Null]
            BY <2>3, <3>1, <3>2, <4>1, <5>1 DEF Entry
        <5>3. maps'[m][n].value = header[t].value
            BY <1>5, <2>1, <3>2, <4>1, <5>2 DEF Fill, Shape, JarTypeOK
        <5> QED
            BY <2>2, <2>3, <5>3, NoValueAssumption
      <4> QED
          BY <4>1
    <3> QED
        BY <1>5, <3>1, <3>2, <3>3 DEF Fill, Shape, JarTypeOK
  <2> QED
      BY <2>3 DEF HalfFilledIsInProgress
<1> QED
    BY <1>1, <1>2, <1>3, <1>4, <1>5
    DEF Step, SettingCookies, StoringCookies, BeginRequest, Visit, EndScan,
        ConcurrentModification, LookUp, AfterLookUp, Shape, JarTypeOK

\* However calls overlap on one manager, no cookie stays without its value.
THEOREM NoneStaysHalfFilled == JarSpec => []HalfFilledIsInProgress
<1>1. JarInit => HalfFilledIsInProgress
    BY NoValueAssumption DEF JarInit, HalfFilledIsInProgress
<1>2. Shape /\ HalfFilledIsInProgress /\ [JarNext]_jarVars => HalfFilledIsInProgress'
  <2>1. HalfFilledIsInProgress /\ UNCHANGED jarVars => HalfFilledIsInProgress'
      BY DEF HalfFilledIsInProgress, jarVars
  <2> QED
      BY <2>1, HalfFilledStep, Steps
<1> QED
    BY <1>1, <1>2, ShapeAlways, PTL DEF JarSpec

--------------------------------------------------------------------------------
\* Each thread has its own manager.

\* Threads are not shared between managers.
OwnMap == \A t \in Threads : MyMap(t) \in {NoMap, t}

ThreadOK(t) ==
    /\ pc[t] # "failed"
    /\ pc[t] \in {"scan", "put", "fill"} => mine[t] = MyMap(t)
    /\ pc[t] = "create" => MyMap(t) = NoMap
    /\ pc[t] = "scan" =>
          /\ expected[t] = Keys(mine[t])
          /\ visited[t] \subseteq Keys(mine[t])
          /\ sent[t] = {[name |-> n, value |-> latest[manager[t]][n]] : n \in visited[t]}
    /\ pc[t] = "fill" =>
          /\ latest[manager[t]][header[t].name] = header[t].value
          /\ maps[mine[t]][header[t].name] = [by |-> t, value |-> Null]

\* What the manager of t holds and what was stored last.
EntryOK(t, n) ==
    /\ latest[manager[t]][n] = Null <=> (MyMap(t) = NoMap \/ maps[MyMap(t)][n] = NoEntry)
    /\ latest[manager[t]][n] # Null =>
          \/ maps[MyMap(t)][n].value = latest[manager[t]][n]
          \/ pc[t] = "fill" /\ header[t] = [name |-> n, value |-> latest[manager[t]][n]]

\* A manager no thread works on stays empty.
IdleOK(m) == stores[m] = NoMap /\ \A n \in CookieNames : latest[m][n] = Null

JarInv ==
    /\ Confined
    /\ OwnMap
    /\ \A t \in Threads : ThreadOK(t) /\ \A n \in CookieNames : EntryOK(t, n)
    /\ SentIsLatest
    /\ \A m \in Managers : (\A t \in Threads : manager[t] # m) => IdleOK(m)

\* A thread's step touches its manager, its variables and the map it holds.
Confinement(t) ==
    /\ manager' = manager
    /\ \A u \in Threads \ {t} :
          /\ pc'[u] = pc[u] /\ mine'[u] = mine[u] /\ expected'[u] = expected[u]
          /\ visited'[u] = visited[u] /\ sent'[u] = sent[u] /\ header'[u] = header[u]
    /\ \A m \in Managers \ {manager[t]} : stores'[m] = stores[m] /\ latest'[m] = latest[m]
    /\ \A m \in Threads \ {t, MyMap(t)} : maps'[m] = maps[m]

\* With a manager each, a step of a thread stays within what is its own.
LEMMA StepConfined ==
    ASSUME Shape, JarInv, NEW t \in Threads, Step(t)
    PROVE  Confinement(t)
<1>1. manager[t] \in Managers /\ t \in Threads
    BY DEF Shape, JarTypeOK
<1>2. CASE BeginRequest(t)
    BY <1>2 DEF BeginRequest, Confinement, Shape, JarTypeOK
<1>3. CASE \E n \in CookieNames : Visit(t, n)
    BY <1>3 DEF Visit, Confinement, Shape, JarTypeOK
<1>4. CASE ConcurrentModification(t) \/ EndScan(t)
    BY <1>4 DEF ConcurrentModification, EndScan, Confinement, Shape, JarTypeOK
<1>5. CASE \E h \in SetCookieHeader \cup {NoHeader} : Answer(t, h)
    BY <1>5 DEF Answer, Confinement, Shape, JarTypeOK
<1>6. CASE LookUp(t)
    BY <1>6 DEF LookUp, Confinement, Shape, JarTypeOK
<1>7. CASE Create(t)
    BY <1>1, <1>7 DEF Create, Confinement, Shape, JarTypeOK
<1>8. CASE Put(t)
  <2>1. mine[t] = MyMap(t)
      BY <1>8 DEF Put, JarInv, ThreadOK
  <2> QED
      BY <1>1, <1>8, <2>1 DEF Put, Confinement, Shape, JarTypeOK
<1>9. CASE Fill(t)
  <2>1. mine[t] = MyMap(t)
      BY <1>9 DEF Fill, JarInv, ThreadOK
  <2> QED
      BY <1>1, <1>9, <2>1 DEF Fill, Confinement, Shape, JarTypeOK
<1> QED
    BY <1>2, <1>3, <1>4, <1>5, <1>6, <1>7, <1>8, <1>9 DEF Step, SettingCookies, StoringCookies

\* What a step of t preserves of the others.
LEMMA OthersKept ==
    ASSUME Shape, JarInv, NEW t \in Threads, Confinement(t),
           NEW u \in Threads \ {t}
    PROVE  /\ MyMap(u)' = MyMap(u)
           /\ MyMap(u) # NoMap => maps'[MyMap(u)] = maps[MyMap(u)]
           /\ latest'[manager[u]] = latest[manager[u]]
           /\ MyMap(u)' \in {NoMap, u}
           /\ ThreadOK(u)'
           /\ \A n \in CookieNames : EntryOK(u, n)'
<1>0. manager' = manager
    BY DEF Confinement
<1>1. /\ manager[t] \in Managers /\ manager[u] \in Managers /\ manager[u] # manager[t]
      /\ t \in Threads /\ u \in Threads
    BY DEF JarInv, Confined, Shape, JarTypeOK
<1>2. MyMap(u)' = MyMap(u) /\ latest'[manager[u]] = latest[manager[u]]
    BY <1>1 DEF Confinement, MyMap
<1>3. MyMap(u) \in {NoMap, u} /\ MyMap(t) \in {NoMap, t}
    BY DEF JarInv, OwnMap
<1>4. MyMap(u) # NoMap => MyMap(u) \in Threads \ {t, MyMap(t)}
    BY <1>1, <1>3, MapsAssumption
<1>5. MyMap(u) # NoMap => maps'[MyMap(u)] = maps[MyMap(u)]
    BY <1>4 DEF Confinement
<1>6. MyMap(u) # NoMap => Keys(MyMap(u))' = Keys(MyMap(u))
    BY <1>2, <1>5 DEF Keys
<1>7. /\ pc'[u] = pc[u] /\ mine'[u] = mine[u] /\ expected'[u] = expected[u]
      /\ visited'[u] = visited[u] /\ sent'[u] = sent[u] /\ header'[u] = header[u]
    BY DEF Confinement
<1>8. ThreadOK(u) /\ \A n \in CookieNames : EntryOK(u, n)
    BY DEF JarInv
<1>9. pc[u] \in {"scan", "put", "fill"} => mine[u] # NoMap
    BY MapsAssumption DEF Shape, HandsFull
<1>10. ThreadOK(u)'
    BY <1>0, <1>2, <1>5, <1>6, <1>7, <1>8, <1>9 DEF ThreadOK, Keys
<1>11. \A n \in CookieNames : EntryOK(u, n)'
    BY <1>0, <1>2, <1>5, <1>7, <1>8 DEF EntryOK
<1> QED
    BY <1>2, <1>3, <1>5, <1>10, <1>11

\* With a manager each, setCookies keeps the invariant of its thread and sends the latest.
LEMMA JarSetCookies ==
    ASSUME Shape, JarInv, NEW t \in Threads, SettingCookies(t)
    PROVE  /\ MyMap(t)' \in {NoMap, t}
           /\ ThreadOK(t)'
           /\ \A n \in CookieNames : EntryOK(t, n)'
           /\ pc'[t] = "sent" =>
                sent'[t] = {[name |-> n, value |-> latest'[manager[t]][n]] :
                              n \in {m \in CookieNames : latest'[manager[t]][m] # Null}}
<1>1. ThreadOK(t) /\ (\A n \in CookieNames : EntryOK(t, n)) /\ MyMap(t) \in {NoMap, t}
    BY DEF JarInv, OwnMap
<1>2. /\ manager' = manager /\ stores' = stores /\ maps' = maps
      /\ latest' = latest /\ header' = header
    BY DEF SettingCookies, BeginRequest, Visit, ConcurrentModification, EndScan
<1>3. MyMap(t)' = MyMap(t) /\ Keys(MyMap(t))' = Keys(MyMap(t))
    BY <1>2 DEF MyMap, Keys
<1>4. pc[t] # "fill" /\ pc'[t] # "fill"
    BY DEF SettingCookies, BeginRequest, Visit, ConcurrentModification, EndScan, Shape, JarTypeOK
<1>5. \A n \in CookieNames : EntryOK(t, n)'
    BY <1>1, <1>2, <1>3, <1>4 DEF EntryOK
<1>6. CASE BeginRequest(t)
  <2>1. ThreadOK(t)'
      BY <1>2, <1>3, <1>6 DEF BeginRequest, ThreadOK, Shape, JarTypeOK, Keys
  <2>2. pc'[t] = "sent" => MyMap(t) = NoMap /\ sent'[t] = {}
      BY <1>6 DEF BeginRequest, Shape, JarTypeOK
  <2>3. MyMap(t) = NoMap => \A n \in CookieNames : latest[manager[t]][n] = Null
      BY <1>1 DEF EntryOK
  <2> QED
      BY <1>1, <1>2, <1>3, <1>5, <2>1, <2>2, <2>3
<1>7. CASE \E n \in CookieNames : Visit(t, n)
  <2>1. PICK n \in CookieNames : Visit(t, n)
      BY <1>7
  <2>2. mine[t] = MyMap(t) /\ mine[t] # NoMap
      BY <2>1, <1>1, MapsAssumption DEF Visit, ThreadOK, Shape, HandsFull
  <2>3. maps[mine[t]][n].value = latest[manager[t]][n]
      BY <1>1, <1>4, <2>1, <2>2 DEF Visit, Keys, EntryOK
  <2>4. /\ pc'[t] = "scan" /\ pc[t] = "scan"
        /\ mine'[t] = mine[t] /\ expected'[t] = expected[t]
        /\ visited'[t] = visited[t] \cup {n}
        /\ sent'[t] = sent[t] \cup {[name |-> n, value |-> latest[manager[t]][n]]}
        /\ n \in Keys(mine[t])
      BY <2>1, <2>3 DEF Visit, Shape, JarTypeOK
  <2>5. ThreadOK(t)'
      BY <1>1, <1>2, <1>3, <2>2, <2>4 DEF ThreadOK, Keys
  <2> QED
      BY <1>1, <1>3, <1>5, <2>4, <2>5
<1>8. CASE ConcurrentModification(t)
    BY <1>1, <1>8 DEF ConcurrentModification, ThreadOK
<1>9. CASE EndScan(t)
  <2>1. ThreadOK(t)'
      BY <1>9 DEF EndScan, ThreadOK, Shape, JarTypeOK
  <2>2. mine[t] = MyMap(t) /\ mine[t] # NoMap
      BY <1>9, <1>1, MapsAssumption DEF EndScan, ThreadOK, Shape, HandsFull
  <2>3. visited[t] = Keys(mine[t])
      BY <1>1, <1>9 DEF EndScan, ThreadOK
  <2>4. \A n \in CookieNames : n \in Keys(mine[t]) <=> latest[manager[t]][n] # Null
      BY <1>1, <2>2 DEF EntryOK, Keys
  <2>5. visited[t] = {m \in CookieNames : latest[manager[t]][m] # Null}
      BY <2>3, <2>4 DEF Keys
  <2>6. sent'[t] = {[name |-> n, value |-> latest[manager[t]][n]] : n \in visited[t]}
      BY <1>1, <1>9 DEF EndScan, ThreadOK
  <2> QED
      BY <1>1, <1>2, <1>3, <1>5, <2>1, <2>5, <2>6
<1> QED
    BY <1>6, <1>7, <1>8, <1>9 DEF SettingCookies

\* With a manager each, storeCookies keeps the invariant of its thread.
LEMMA JarStoreCookies ==
    ASSUME Shape, JarInv, NEW t \in Threads, StoringCookies(t)
    PROVE  /\ MyMap(t)' \in {NoMap, t}
           /\ ThreadOK(t)'
           /\ \A n \in CookieNames : EntryOK(t, n)'
           /\ pc'[t] # "sent"
<1>0. manager' = manager
    BY DEF StoringCookies, LookUp, Create, Put, Fill
<1>1. ThreadOK(t) /\ (\A n \in CookieNames : EntryOK(t, n)) /\ MyMap(t) \in {NoMap, t}
    BY DEF JarInv, OwnMap
<1>2. manager[t] \in Managers /\ t \in Threads /\ t # NoMap
    BY MapsAssumption DEF Shape, JarTypeOK
<1>3. pc'[t] # "sent"
    BY DEF StoringCookies, LookUp, Create, Put, Fill, AfterLookUp, Shape, JarTypeOK
<1>4. CASE LookUp(t)
  <2>1. MyMap(t)' = MyMap(t)
      BY <1>0, <1>4 DEF LookUp, MyMap
  <2>2. ThreadOK(t)'
      BY <1>0, <1>1, <1>4, <2>1 DEF LookUp, ThreadOK, AfterLookUp, Shape, JarTypeOK
  <2>3. \A n \in CookieNames : EntryOK(t, n)'
      BY <1>0, <1>1, <1>4, <2>1 DEF LookUp, EntryOK, Shape, JarTypeOK
  <2> QED
      BY <1>1, <1>3, <2>1, <2>2, <2>3
<1>5. CASE Create(t)
  <2>1. MyMap(t)' = t /\ mine'[t] = t
      BY <1>0, <1>2, <1>5 DEF Create, MyMap, Shape, JarTypeOK
  <2>2. pc'[t] \in {"idle", "put"}
      BY <1>5 DEF Create, AfterLookUp, Shape, JarTypeOK
  <2>3. ThreadOK(t)'
      BY <1>0, <2>1, <2>2 DEF ThreadOK
  <2>4. \A n \in CookieNames : maps'[t][n] = NoEntry
      BY <1>2, <1>5 DEF Create, Shape, JarTypeOK
  <2>5. \A n \in CookieNames : latest'[manager[t]][n] = Null
      BY <1>0, <1>1, <1>5 DEF Create, ThreadOK, EntryOK
  <2>6. \A n \in CookieNames : EntryOK(t, n)'
      BY <1>0, <2>1, <2>4, <2>5 DEF EntryOK
  <2> QED
      BY <1>3, <2>1, <2>3, <2>6
<1>6. CASE Put(t)
  <2> DEFINE n == header[t].name
  <2>1. header[t] \in SetCookieHeader /\ mine[t] \in Threads /\ mine[t] = MyMap(t)
      BY <1>0, <1>1, <1>6 DEF Put, ThreadOK, Shape, HandsFull
  <2>2. n \in CookieNames /\ header[t].value \in CookieValues
        /\ header[t] = [name |-> n, value |-> header[t].value]
      BY <2>1 DEF SetCookieHeader
  <2>3. maps' = [maps EXCEPT ![mine[t]][n] = [by |-> t, value |-> Null]]
    <3>1. ~MayLose(t)
      <4>1. ASSUME NEW u \in Threads \ {t}, pc[u] = "put", mine[u] = mine[t] PROVE FALSE
        <5>1. mine[u] = MyMap(u) /\ MyMap(u) \in {NoMap, u}
            BY <1>0, <4>1 DEF JarInv, ThreadOK, OwnMap
        <5>2. mine[t] = t
            BY <1>1, <2>1, MapsAssumption
        <5> QED
            BY <1>2, <4>1, <5>1, <5>2
      <4> QED
          BY <4>1 DEF MayLose
    <3> QED
        BY <1>6, <3>1 DEF Put
  <2>4. MyMap(t)' = MyMap(t) /\ pc'[t] = "fill" /\ mine'[t] = mine[t] /\ header' = header
      BY <1>0, <1>6 DEF Put, MyMap, Shape, JarTypeOK
  <2>5. /\ maps'[mine[t]][n] = [by |-> t, value |-> Null]
        /\ \A k \in CookieNames \ {n} : maps'[mine[t]][k] = maps[mine[t]][k]
      BY <2>1, <2>2, <2>3 DEF Shape, JarTypeOK
  <2>6. /\ latest'[manager[t]][n] = header[t].value
        /\ \A k \in CookieNames \ {n} : latest'[manager[t]][k] = latest[manager[t]][k]
      BY <1>2, <1>6, <2>2 DEF Put, Shape, JarTypeOK
  <2>7. ThreadOK(t)'
      BY <1>0, <2>1, <2>4, <2>5, <2>6 DEF ThreadOK
  <2>8. [by |-> t, value |-> Null] # NoEntry /\ header[t].value # Null
      BY <1>2, <2>2, EntryAssumption, NoValueAssumption
  <2>9. EntryOK(t, n)'
      BY <1>0, <2>1, <2>2, <2>4, <2>5, <2>6, <2>8, MapsAssumption DEF EntryOK
  <2>10. ASSUME NEW k \in CookieNames \ {n} PROVE EntryOK(t, k)'
      BY <1>0, <1>1, <1>6, <2>1, <2>4, <2>5, <2>6 DEF EntryOK, Put
  <2> QED
      BY <1>1, <1>3, <2>4, <2>7, <2>9, <2>10
<1>7. CASE Fill(t)
  <2> DEFINE n == header[t].name
  <2>1. header[t] \in SetCookieHeader /\ mine[t] \in Threads /\ mine[t] = MyMap(t)
      BY <1>0, <1>1, <1>7 DEF Fill, ThreadOK, Shape, HandsFull
  <2>2. n \in CookieNames /\ header[t].value \in CookieValues
      BY <2>1 DEF SetCookieHeader
  <2>3. maps' = [maps EXCEPT ![mine[t]][n].value = header[t].value]
      BY <1>0, <1>1, <1>7 DEF Fill, ThreadOK
  <2>4. /\ MyMap(t)' = MyMap(t) /\ pc'[t] = "idle" /\ latest' = latest /\ header' = header
      BY <1>0, <1>7 DEF Fill, MyMap, Shape, JarTypeOK
  <2>5. /\ maps'[mine[t]][n] = [by |-> t, value |-> header[t].value]
        /\ \A k \in CookieNames \ {n} : maps'[mine[t]][k] = maps[mine[t]][k]
    <3>1. maps[mine[t]][n] = [by |-> t, value |-> Null]
        BY <1>0, <1>1, <1>7 DEF ThreadOK, Fill
    <3>2. maps \in [Threads -> [CookieNames -> Entry \cup {NoEntry}]]
        BY DEF Shape, JarTypeOK
    <3>3. maps'[mine[t]][n] = [maps[mine[t]][n] EXCEPT !.value = header[t].value]
        BY <2>1, <2>2, <2>3, <3>2
    <3>4. \A k \in CookieNames \ {n} : maps'[mine[t]][k] = maps[mine[t]][k]
        BY <2>1, <2>2, <2>3, <3>2
    <3> QED
        BY <3>1, <3>3, <3>4
  <2>6. latest[manager[t]][n] = header[t].value /\ header[t].value # Null
      BY <1>0, <1>1, <1>7, <2>2, NoValueAssumption DEF ThreadOK, Fill
  <2>7. [by |-> t, value |-> header[t].value] # NoEntry
      BY <1>2, <2>2, EntryAssumption
  <2>8. MyMap(t) # NoMap
      BY <2>1, MapsAssumption
  <2>9. EntryOK(t, n)'
      BY <1>0, <2>1, <2>4, <2>5, <2>6, <2>7, <2>8 DEF EntryOK
  <2>10. ASSUME NEW k \in CookieNames \ {n} PROVE EntryOK(t, k)'
    <3>1. header[t] # [name |-> k, value |-> latest[manager[t]][k]]
        OBVIOUS
    <3> QED
        BY <1>0, <1>1, <2>1, <2>4, <2>5, <2>8, <3>1 DEF EntryOK
  <2>11. ThreadOK(t)'
      BY <1>0, <2>4 DEF ThreadOK
  <2> QED
      BY <1>1, <1>3, <2>4, <2>9, <2>10, <2>11
<1> QED
    BY <1>4, <1>5, <1>6, <1>7 DEF StoringCookies

\* With a manager each, an answer that arrives keeps the invariant of its thread.
LEMMA JarAnswer ==
    ASSUME Shape, JarInv, NEW t \in Threads, NEW h, Answer(t, h)
    PROVE  /\ MyMap(t)' \in {NoMap, t}
           /\ ThreadOK(t)'
           /\ \A n \in CookieNames : EntryOK(t, n)'
           /\ pc'[t] # "sent"
<1>0. manager' = manager
    BY DEF Answer
<1>1. ThreadOK(t) /\ (\A n \in CookieNames : EntryOK(t, n)) /\ MyMap(t) \in {NoMap, t}
    BY DEF JarInv, OwnMap
<1>2. MyMap(t)' = MyMap(t) /\ pc[t] = "sent" /\ pc'[t] = "lookup"
    BY DEF Answer, MyMap, Shape, JarTypeOK
<1>3. \A n \in CookieNames : EntryOK(t, n)'
    BY <1>0, <1>1, <1>2 DEF Answer, EntryOK
<1> QED
    BY <1>0, <1>1, <1>2, <1>3 DEF ThreadOK

\* With a manager each, every step keeps the invariant.
LEMMA JarStep ==
    ASSUME Shape, JarInv, NEW t \in Threads, Step(t)
    PROVE  JarInv'
<1>1. Confinement(t)
    BY StepConfined
<1>2. /\ MyMap(t)' \in {NoMap, t}
      /\ ThreadOK(t)'
      /\ \A n \in CookieNames : EntryOK(t, n)'
      /\ pc'[t] = "sent" =>
           sent'[t] = {[name |-> n, value |-> latest'[manager[t]][n]] :
                         n \in {m \in CookieNames : latest'[manager[t]][m] # Null}}
    BY JarSetCookies, JarStoreCookies, JarAnswer DEF Step
<1>3. OwnMap'
    BY <1>1, <1>2, OthersKept DEF OwnMap
<1>4. \A u \in Threads : ThreadOK(u)' /\ \A n \in CookieNames : EntryOK(u, n)'
    BY <1>1, <1>2, OthersKept
<1>5. ASSUME NEW u \in Threads, pc'[u] = "sent"
      PROVE  sent'[u] = {[name |-> n, value |-> latest'[manager[u]][n]] :
                           n \in {m \in CookieNames : latest'[manager[u]][m] # Null}}
  <2>1. CASE u # t
    <3>1. latest'[manager[u]] = latest[manager[u]]
        BY <1>1, <2>1, OthersKept
    <3>2. pc'[u] = pc[u] /\ sent'[u] = sent[u]
        BY <1>1, <2>1 DEF Confinement
    <3> QED
        BY <1>5, <3>1, <3>2 DEF JarInv, SentIsLatest
  <2> QED
      BY <1>2, <1>5, <2>1
<1>6. SentIsLatest'
    BY <1>1, <1>5 DEF SentIsLatest, Confinement
<1>7. ASSUME NEW m \in Managers, \A u \in Threads : manager'[u] # m
      PROVE  IdleOK(m)'
  <2>1. IdleOK(m) /\ m # manager[t]
      BY <1>7, <1>1 DEF JarInv, Confinement
  <2>2. stores'[m] = stores[m] /\ latest'[m] = latest[m]
      BY <1>1, <1>7, <2>1 DEF Confinement
  <2> QED
      BY <2>1, <2>2 DEF IdleOK
<1>8. Confined'
    BY <1>1 DEF Confinement, JarInv, Confined
<1> QED
    BY <1>3, <1>4, <1>6, <1>7, <1>8 DEF JarInv

\* The invariant of threads with a manager each, at the start
LEMMA JarBegins == ASSUME JarInit, Confined PROVE JarInv
<1>1. Shape
    BY ShapeInit
<1>2. \A t \in Threads : MyMap(t) = NoMap
    BY <1>1 DEF JarInit, MyMap, Shape, JarTypeOK
<1>3. \A t \in Threads : ThreadOK(t)
    BY DEF JarInit, ThreadOK
<1>4. \A t \in Threads, n \in CookieNames : EntryOK(t, n)
    BY <1>1, <1>2 DEF JarInit, EntryOK, Shape, JarTypeOK
<1> QED
    BY <1>2, <1>3, <1>4 DEF JarInit, JarInv, OwnMap, SentIsLatest, IdleOK

\* Who has its own manager keeps it.
LEMMA ManagersChosen == ASSUME [JarNext]_jarVars PROVE manager' = manager
    BY DEF JarNext, SettingCookies, StoringCookies, BeginRequest, Visit, ConcurrentModification,
           EndScan, Answer, LookUp, Create, Put, Fill, jarVars

\* If no two threads share a manager, the invariant always holds.
LEMMA JarAlways == JarSpec => [](Confined => JarInv)
<1>1. JarInit => (Confined => JarInv)
    BY JarBegins
<1>2. ASSUME Shape, Confined => JarInv, [JarNext]_jarVars, Confined' PROVE JarInv'
  <2>1. Confined /\ JarInv
      BY <1>2, ManagersChosen DEF Confined
  <2>2. CASE UNCHANGED jarVars
      BY <2>1, <2>2 DEF JarInv, Confined, OwnMap, ThreadOK, EntryOK, SentIsLatest, IdleOK,
                        MyMap, Keys, jarVars
  <2> QED
      BY <1>2, <2>1, <2>2, JarStep, Steps
<1>3. Shape /\ (Confined => JarInv) /\ [JarNext]_jarVars => (Confined => JarInv)'
    BY <1>2
<1> QED
    BY <1>1, <1>3, ShapeAlways, PTL DEF JarSpec

\* With the manager of its own that getThreadInstance() gives to each thread, no cookie
\* of any answer is lost.
THEOREM ConfinedKeepsCookies == JarSpec => []ConfinedNothingLost
<1>1. ASSUME Shape, JarInv, NEW m \in Managers, NEW n \in CookieNames, latest[m][n] # Null
      PROVE  /\ stores[m] # NoMap
             /\ maps[stores[m]][n] # NoEntry
             /\ \/ maps[stores[m]][n].value = latest[m][n]
                \/ \E t \in Threads : /\ pc[t] = "fill"
                                      /\ manager[t] = m
                                      /\ header[t] = [name |-> n, value |-> latest[m][n]]
  <2>1. PICK t \in Threads : manager[t] = m
      BY <1>1 DEF JarInv, IdleOK
  <2> QED
      BY <1>1, <2>1 DEF JarInv, EntryOK, MyMap
<1>2. Shape /\ (Confined => JarInv) => ConfinedNothingLost
    BY <1>1 DEF ConfinedNothingLost, NothingLost
<1> QED
    BY <1>2, JarAlways, ShapeAlways, PTL

\* No iteration fails.
THEOREM ConfinedSucceeds == JarSpec => []ConfinedNeverFails
<1>1. (Confined => JarInv) => ConfinedNeverFails
    BY DEF JarInv, ThreadOK, NeverFails, ConfinedNeverFails
<1> QED
    BY <1>1, JarAlways, PTL

\* Each request carries exactly the cookies stored last.
THEOREM ConfinedSendsLatest == JarSpec => []ConfinedSentIsLatest
<1>1. (Confined => JarInv) => ConfinedSentIsLatest
    BY DEF JarInv, ConfinedSentIsLatest
<1> QED
    BY <1>1, JarAlways, PTL
================================================================================
