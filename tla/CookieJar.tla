--------------------------------- MODULE CookieJar ---------------------------------
(*******************************************************************************)
(* The hash maps of CookieManager, step by step, under the threads that run the  *)
(* calls: setCookies on a request, then storeCookies on its answer, for one      *)
(* domain and at most one Set-Cookie header per answer. `manager` says which     *)
(* manager each thread works on: its own, as getThreadInstance() means, or the   *)
(* one of the thread that issued the calls, as JSERequestBuilderFactory does.    *)
(*                                                                             *)
(* A thread creates at most one map, and the map is known by it. What CookieStore *)
(* names too has another name here, so that CookieProofs can extend both.        *)
(*******************************************************************************)
EXTENDS Naturals

CONSTANTS Threads, Managers,
          CookieNames, CookieValues,
          Calls,  \* calls each thread makes
          Null, NoMap, NoEntry, NoHeader

ASSUME MapsAssumption == NoMap \notin Threads
ASSUME NoValueAssumption == Null \notin CookieValues
ASSUME EntryAssumption ==
    NoEntry \notin [by : Threads, value : CookieValues \cup {Null}]
ASSUME CallsAssumption == Calls \in Nat

VARIABLES manager,   \* the manager each thread works on: chosen once
          pc,        \* where each thread is
          calls,     \* calls it has made
          stores,    \* the map of the domain in each manager
          maps,      \* the entries of each map
          mine,      \* the map a thread holds a reference to
          expected,  \* the keys its iterator started from
          visited,   \* the keys its iterator has returned
          sent,      \* the Cookie header it has built
          header,    \* the Set-Cookie header it has received
          latest     \* ghost: the value last stored under each name

jarVars == <<manager, pc, calls, stores, maps, mine, expected, visited, sent, header, latest>>

--------------------------------------------------------------------------------
Entry == [by : Threads, value : CookieValues \cup {Null}]
SetCookieHeader == [name : CookieNames, value : CookieValues]

Keys(m) == {n \in CookieNames : maps[m][n] # NoEntry}
MyMap(t) == stores[manager[t]]

JarInit ==
    /\ manager \in [Threads -> Managers]
    /\ pc = [t \in Threads |-> "idle"]
    /\ calls = [t \in Threads |-> 0]
    /\ stores = [m \in Managers |-> NoMap]
    /\ maps = [t \in Threads |-> [n \in CookieNames |-> NoEntry]]
    /\ mine = [t \in Threads |-> NoMap]
    /\ expected = [t \in Threads |-> {}]
    /\ visited = [t \in Threads |-> {}]
    /\ sent = [t \in Threads |-> {}]
    /\ header = [t \in Threads |-> NoHeader]
    /\ latest = [m \in Managers |-> [n \in CookieNames |-> Null]]

--------------------------------------------------------------------------------
(* setCookies *)

BeginRequest(t) ==
    /\ pc[t] = "idle"
    /\ calls[t] < Calls
    /\ calls' = [calls EXCEPT ![t] = @ + 1]
    /\ sent' = [sent EXCEPT ![t] = {}]
    /\ visited' = [visited EXCEPT ![t] = {}]
    /\ mine' = [mine EXCEPT ![t] = MyMap(t)]
    /\ expected' = [expected EXCEPT ![t] =
            IF MyMap(t) = NoMap THEN {} ELSE Keys(MyMap(t))]
    /\ pc' = [pc EXCEPT ![t] = IF MyMap(t) = NoMap THEN "sent" ELSE "scan"]
    /\ UNCHANGED <<manager, stores, maps, header, latest>>

\* Mutant: a cookie that is not to be sent again is removed during the iteration.
VisitRemoves(t, n) ==
    /\ pc[t] = "scan"
    /\ n \in Keys(mine[t]) \ visited[t]
    /\ visited' = [visited EXCEPT ![t] = @ \cup {n}]
    /\ sent' = [sent EXCEPT ![t] = @ \cup {[name |-> n, value |-> maps[mine[t]][n].value]}]
    /\ maps' = [maps EXCEPT ![mine[t]][n] = NoEntry]
    /\ UNCHANGED <<manager, pc, calls, stores, mine, expected, header, latest>>

\* The iterator returns a key it has not returned; an entry added meanwhile may appear.
Visit(t, n) ==
    /\ pc[t] = "scan"
    /\ n \in Keys(mine[t]) \ visited[t]
    /\ visited' = [visited EXCEPT ![t] = @ \cup {n}]
    /\ sent' = [sent EXCEPT ![t] = @ \cup {[name |-> n, value |-> maps[mine[t]][n].value]}]
    /\ UNCHANGED <<manager, pc, calls, stores, maps, mine, expected, header, latest>>

\* It notices a key added behind its back, or does not: nothing is synchronized.
ConcurrentModification(t) ==
    /\ pc[t] = "scan"
    /\ Keys(mine[t]) # expected[t]
    /\ pc' = [pc EXCEPT ![t] = "failed"]
    /\ UNCHANGED <<manager, calls, stores, maps, mine, expected, visited, sent, header, latest>>

\* Mutant: the iteration stops at the first cookie.
EndScanAtOnce(t) ==
    /\ pc[t] = "scan"
    /\ visited[t] # {} \/ expected[t] = {}
    /\ pc' = [pc EXCEPT ![t] = "sent"]
    /\ UNCHANGED <<manager, calls, stores, maps, mine, expected, visited, sent, header, latest>>

EndScan(t) ==
    /\ pc[t] = "scan"
    /\ expected[t] \subseteq visited[t]
    /\ pc' = [pc EXCEPT ![t] = "sent"]
    /\ UNCHANGED <<manager, calls, stores, maps, mine, expected, visited, sent, header, latest>>

--------------------------------------------------------------------------------
(* The server answers, and storeCookies *)

Answer(t, h) ==
    /\ pc[t] = "sent"
    /\ header' = [header EXCEPT ![t] = h]
    /\ pc' = [pc EXCEPT ![t] = "lookup"]
    /\ UNCHANGED <<manager, calls, stores, maps, mine, expected, visited, sent, latest>>

AfterLookUp(t) == IF header[t] = NoHeader THEN "idle" ELSE "put"

\* getDomainStore checks...
LookUp(t) ==
    /\ pc[t] = "lookup"
    /\ IF MyMap(t) # NoMap
       THEN /\ mine' = [mine EXCEPT ![t] = MyMap(t)]
            /\ pc' = [pc EXCEPT ![t] = AfterLookUp(t)]
       ELSE /\ mine' = mine
            /\ pc' = [pc EXCEPT ![t] = "create"]
    /\ UNCHANGED <<manager, calls, stores, maps, expected, visited, sent, header, latest>>

\* ... then puts, whatever another thread has put since.
Create(t) ==
    /\ pc[t] = "create"
    /\ maps' = [maps EXCEPT ![t] = [n \in CookieNames |-> NoEntry]]
    /\ stores' = [stores EXCEPT ![manager[t]] = t]
    /\ mine' = [mine EXCEPT ![t] = t]
    /\ pc' = [pc EXCEPT ![t] = AfterLookUp(t)]
    /\ UNCHANGED <<manager, calls, expected, visited, sent, header, latest>>

\* Two insertions of new keys into one HashMap at once: one may be lost.
MayLose(t) ==
    /\ maps[mine[t]][header[t].name] = NoEntry
    /\ \E u \in Threads \ {t} : pc[u] = "put" /\ mine[u] = mine[t]

\* The cookie enters the map of the domain...
Put(t) ==
    LET n == header[t].name IN
    /\ pc[t] = "put"
    /\ \/ maps' = [maps EXCEPT ![mine[t]][n] = [by |-> t, value |-> Null]]
       \/ MayLose(t) /\ maps' = maps
    /\ latest' = [latest EXCEPT ![manager[t]][n] = header[t].value]
    /\ pc' = [pc EXCEPT ![t] = "fill"]
    /\ UNCHANGED <<manager, calls, stores, mine, expected, visited, sent, header>>

\* Mutant: the cookie is looked up again in the map that the manager uses now.
FillLookedUp(t) ==
    LET n == header[t].name IN
    /\ pc[t] = "fill"
    /\ maps' = IF maps[MyMap(t)][n] = [by |-> t, value |-> Null]
               THEN [maps EXCEPT ![MyMap(t)][n].value = header[t].value]
               ELSE maps
    /\ pc' = [pc EXCEPT ![t] = "idle"]
    /\ UNCHANGED <<manager, calls, stores, mine, expected, visited, sent, header, latest>>

\* ... and only then gets its value; another thread may have replaced it by its own.
Fill(t) ==
    LET n == header[t].name IN
    /\ pc[t] = "fill"
    /\ maps' = IF maps[mine[t]][n] = [by |-> t, value |-> Null]
               THEN [maps EXCEPT ![mine[t]][n].value = header[t].value]
               ELSE maps
    /\ pc' = [pc EXCEPT ![t] = "idle"]
    /\ UNCHANGED <<manager, calls, stores, mine, expected, visited, sent, header, latest>>

SettingCookies(t) ==
    \/ BeginRequest(t)
    \/ \E n \in CookieNames : Visit(t, n)
    \/ ConcurrentModification(t)
    \/ EndScan(t)

StoringCookies(t) ==
    \/ LookUp(t)
    \/ Create(t)
    \/ Put(t)
    \/ Fill(t)

JarNext ==
    \E t \in Threads :
        \/ SettingCookies(t)
        \/ \E h \in SetCookieHeader \cup {NoHeader} : Answer(t, h)
        \/ StoringCookies(t)

JarSpec == JarInit /\ [][JarNext]_jarVars

\* Each thread has a manager of its own.
Confined == \A t, u \in Threads : manager[t] = manager[u] => t = u

--------------------------------------------------------------------------------
JarTypeOK ==
    /\ manager \in [Threads -> Managers]
    /\ pc \in [Threads -> {"idle", "scan", "failed", "sent", "lookup", "create",
                           "put", "fill"}]
    /\ calls \in [Threads -> 0..Calls]
    /\ stores \in [Managers -> Threads \cup {NoMap}]
    /\ maps \in [Threads -> [CookieNames -> Entry \cup {NoEntry}]]
    /\ mine \in [Threads -> Threads \cup {NoMap}]
    /\ expected \in [Threads -> SUBSET CookieNames]
    /\ visited \in [Threads -> SUBSET CookieNames]
    /\ sent \in [Threads -> SUBSET [name : CookieNames, value : CookieValues \cup {Null}]]
    /\ header \in [Threads -> SetCookieHeader \cup {NoHeader}]
    /\ latest \in [Managers -> [CookieNames -> CookieValues \cup {Null}]]

\* The cookie last stored under a name stays in the map that the manager uses, with its
\* value, or is about to get it.
NothingLost ==
    \A m \in Managers, n \in CookieNames : latest[m][n] # Null =>
        /\ stores[m] # NoMap
        /\ maps[stores[m]][n] # NoEntry
        /\ \/ maps[stores[m]][n].value = latest[m][n]
           \/ \E t \in Threads : /\ pc[t] = "fill"
                                 /\ manager[t] = m
                                 /\ header[t] = [name |-> n, value |-> latest[m][n]]

\* A cookie without its value is one whose thread is about to fill it: also in a map that
\* another has replaced, none stays so.
HalfFilledIsInProgress ==
    \A m \in Threads, n \in CookieNames :
        (maps[m][n] # NoEntry /\ maps[m][n].value = Null) =>
            \E t \in Threads : /\ maps[m][n].by = t
                              /\ pc[t] = "fill"
                              /\ mine[t] = m
                              /\ header[t].name = n

\* The iteration over the cookies of the domain never fails: a call is not lost to
\* another call's answer.
NeverFails == \A t \in Threads : pc[t] # "failed"

\* A request carries the cookies last stored, all of them and nothing else.
SentIsLatest ==
    \A t \in Threads : pc[t] = "sent" =>
        sent[t] = {[name |-> n, value |-> latest[manager[t]][n]] :
                      n \in {m \in CookieNames : latest[manager[t]][m] # Null}}

\* With a manager for each thread, as getThreadInstance() provides, no cookie is lost...
ConfinedNothingLost == Confined => NothingLost
\* ... no call fails...
ConfinedNeverFails == Confined => NeverFails
\* ... and each request carries the latest cookies.
ConfinedSentIsLatest == Confined => SentIsLatest
================================================================================
