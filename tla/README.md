# A verification development for tpm2scodesnippet

The repository is a collection of distributed-programming examples for a master's course.
About 5600 lines of it are hand-written Java (and a little Scala and C). The web example
`firstGWT` ships the JavaScript runtime its page is built on (SmartClient 8.2, minified, about
20,000 lines with its skins), which carries most of the repository's protocols with time and
order in them. The rest is generated or data (symbol maps, jars, an HSQL dump, `.svn` copies).
This directory holds TLA+ models of both, TLC runs and machine-checked proofs.

Path prefix used below: `G` = `src/gwtrpc4j-core/src/main/java/org/gwtrpc4j`, `W` =
`src/firstGWT/war/firstgwt/sc/modules`. The runtime's names are those of its exported functions;
a name like `$66t` is the minified one, and the readable one follows from the function's own name.

## 1. Inventory

| component | state it keeps | operations | hard behaviours |
|---|---|---|---|
| **gwtrpc4j remote call** (`G/JRpcServiceProxy`, `RpcServiceProxy`, `http/RequestCallbackAdapter`, `http/jse/JSERequestBuilder`, `JSERequestBuilderFactory`) | per call: request builder, connection, answer, callback | `invoke`, `send`, `run`, `onResponseReceived`, `onError` | calls of several threads over an executor; timeouts; exceptions at every stage; nested calls from callbacks; the issuer's cookie manager used on another thread |
| **Cookie manager** (`G/http/jse/CookieManager`) | nested unsynchronized hash maps domain → cookie → attributes, one manager per thread | `storeCookies`, `setCookies`, `addCookie`, `getCookie`, `clear` | check-then-put of a domain store, iteration during insertion, expiry and path comparison |
| **Stream I/O** (`G/util/IOUtils`) | one reused `CharBuffer` | `readAsString`, `write` | buffer flipped and never cleared, so its limit shrinks |
| **Request headers** (`G/http/RequestBuilderAbstract`, `RpcHeader`) | a list of headers | `setHeader`, `addHeaders`, `toRcpHeader` | append where the contract says overwrite |
| **String tables** (`G/stream/*Writer.quoteString, escapeString`, `*Reader.parse, deserializeStringTable`, `G/util/IOUtils.write`) | the message, a scan position, the strings read | quote, escape, parse, scan | what one side escapes and the other unescapes; delimiters inside strings; characters counted as bytes |
| **Object graph codec** (`G/stream/JClientSerializationStreamWriter`, `...Reader`) | objects written and strings written, each with an index; values registered by the reader; the calls in progress | `serialize*`, `deserialize*`, `readObject`, `writeObject` | back references, cycles, placeholders replaced after the fact |
| **Facade EJB** (`tpejb3/beans_ejb3/.../FacadeStatelessSessionBean`, `Client`) | two tables | `init`, `findEmployees`, `findEmployeeWithItsGivenName` | concurrent check-then-insert transactions |
| **RPCManager** (`W/ISC_DataBinding.js`, `Comm` and `Timer` of `ISC_Core.js`) | transactions tracked, the queue being filled, a prompt count, the offline log, timers, callbacks by number | `sendRequest`, `startQueue`, `sendQueue`, `cancelQueue`, `suspendTransaction`, `resendTransaction`, `performTransactionReply`, `handleLogin*`, `goOffline`, `goOnline` | callbacks that call the manager back inside a reply; timeouts against late answers; resending after a login; delay until the page is loaded; logging while offline |
| **ResultSet** (`W/ISC_DataBinding.js`) | sparse rows, their number, the server's number, the range to fetch, replies held back | `getRange`, `fetchRemoteData`, `fetchRemoteDataReply`, `setCriteria`, `invalidateCache`, `dataSourceDataChanged` | replies out of order, for old criteria, or with errors; changes reported while rows are on their way; the guess of what to fetch ahead |
| **Process workflow** (`W/ISC_Workflow.js`) | an execution stack, a start element, user tasks that hold the process | `start`, `setNextElement`, `completeEditing`, `cancelEditing`, `executeElement` of each task | the loop left and entered again by callbacks; scripts that throw; gateways that name any element |
| **History** (`W/ISC_History.js`) | a stack of ids, data for each, the address last seen, a form field | `addHistoryEntry`, `registerCallback`, the timer, the first callback | the browser's own history cannot be read; a timer finds out the user's moves; the page is left and restored |
| **JPA examples** (`tpJpa`) | two tables, a persistence context | `JpaTest`, `N1Select`, `Joinfetch` | number of queries, partial failure |
| **firstGWT service** (`firstGWT/src`) | one table, entity managers | `greetServer`, the click handler | commit before the validation of the input, entity managers left open |
| **RMI / CORBA examples** (`ExampleRMI`, `ExaampleCorba`) | registry / name service, servant | bind, lookup, call, shutdown | stale bindings, shutdown racing a call |
| **Redis examples** (`tp_redis`) | a key, a set | `incr`, `get`, `sadd` | read-increment-read over a shared key |
| **TestCaseClass** (`Test.scala`) | none | `derive` | recursion over a list |
| **testJNA** | none | native call samples | none worth a model |

What makes each correct:

* *remote call* — a callback is invoked at most once and, unless a runtime exception escapes,
  exactly once; a synchronous call returns the value of its own request or throws; the server
  runs a method at most once; no exit leaks the connection.
* *cookie manager* — a request carries exactly the unexpired cookies stored for its domain
  whose path matches; a cookie stored is not lost.
* *stream I/O* — the string read is the stream's content, for every way the stream is cut.
* *codecs* — what one end writes the other end reads back.
* *RPCManager* — each request of a submitted transaction is called back once for each time it is
  sent; no transaction is forgotten; the click mask is there exactly while somebody waits;
  what was cancelled is not sent.
* *ResultSet* — each row is at the server's position, the length is the server's, no row stays
  "loading" for ever.
* *workflow* — one task at a time, in the order the definition says; the process ends once.
* *History* — the stack is the browser's list of entries; the application shows the state of
  the address; what is saved is the latest.
* *facade* — the reference data is inserted once however many clients initialise it, and a
  lookup by name returns the one employee or null.
* *examples* — each transaction is all or nothing; each reply matches its request.

## 2. Plan

The order puts first what every application of gwtrpc4j rests on. Written so far:

1. `RpcContract` (abstract) and `RpcCall`, with `RpcProofs`: the remote call.
2. `CookieStore`: what the cookie manager keeps and sends, one call at a time; `CookieJar`: its
   hash maps under several threads; `CookieProofs`, about both.
3. `FacadeBean`, with `FacadeBeanProofs`: the EJB and its clients.
4. `StringCodec`, with its part of `RpcProofs`: the string tables of requests and responses.
5. `ObjectStream`, with `ObjectStreamProofs`: the object graph, writer and reader composed.
6. `RpcManager`, with `RpcManagerProofs`: the request queue of the web runtime.
7. `ResultSet`, with `ResultSetProofs`: its paged cache of rows.
8. `ProcessFlow` (abstract) and `Workflow`, with `WorkflowProofs`: the loop of a process.
9. `PageHistory`, with `PageHistoryProofs`: the page's states in the browser's history.

Next, in this order:

10. `ReadLoop` (`IOUtils.readAsString`, against the stream's content) and `HeaderList`
    (`RequestBuilderAbstract.setHeader`, against a map), as parts of `RpcSession`.
11. `RpcSession`: `RpcCall` composed with `CookieJar`, so that the cookie manager of a call is
    the one its issuing thread had; this replaces the choice of managers in `CookieJar`'s `JarInit`.
12. `GridSession`: `ResultSet` over `RpcManager` in the place of its server, so that suspended
    and resent transactions, timeouts and offline answers become the replies of a grid.
13. `GreetService` (the page's click handler, the service, its transaction), `HelloOrb` (clients
    that use and shut down one server), `RmiLifecycle`, `JpaSession` (a batch of transactions
    over one persistence context), `RedisCounter`.

Composing several of these in one specification is preferred to a run for each.

## 3. The modules

Each definition stands for the lines that `map` in `PROJECT.json` gives. An operator whose
comment begins with "Mutant:" is no part of the model: it is a plausible mistake in the
definition it stands before, kept beside it, and the properties of the runs are tried against
it.

### RpcContract, RpcCall

One `RpcCall` behaviour is a program that makes the calls in `Calls` from the threads in
`Clients` and from inside callbacks. `pc[c]` is the place of call `c` in
`JRpcServiceProxy.invoke` and `JSERequestBuilder.run`:

| `pc` | code | actions |
|---|---|---|
| `idle` | the proxy is not invoked yet | `InvokeSync`, `InvokeAsync`, `InvokeRefused` |
| `queued` | submitted to the executor | `StartTask` |
| `start` | `new URL`, `openConnection`, `initConnection` | `OpenConnection`, `OpenFails` |
| `cookies` | `cookieManager.setCookies` | `SetCookies`, `SetCookiesThrows` |
| `connecting` | `connect`, `IOUtils.write` | `Send`, `SendFails` |
| `waiting` | `readResponse` | `ReadReply`, `ReadFails`, `TimesOut`, `ConnectionLost` |
| `storing` | `cookieManager.storeCookies`, then `finally` | `StoreCookies`, `StoreCookiesThrows` |
| `delivering`, `failing` | `RequestCallbackAdapter.onResponseReceived`, `onError` | `Deliver`, `OnError` |
| `callback` | the application's callback | `CallbackReturns`, `CallbackThrows` |
| `returning` | the end of `doInvoke` for a `SynchroCallback` | `Return` |

`LeaveTry` is the `finally` block that disconnects, `Fail` a caught exception, `Escape` a
runtime exception, for which there is no handler. The server is external: it may run the method at any time
after the request was sent, also after the client gave up, or something else on the way answers in its place.
`Verdict` is the decision of `onResponseReceived`. `RefinesContract` maps each call to
`unissued`, `pending`, `success`, `failure` or `escaped`: a settled call keeps its result, the
server runs a method at most once, and a success is told only of a method that ran.

Left out: what is written and read (`StringCodec`, `ObjectStream`), the headers, and the
handling of `Object`'s own methods by the proxy.

### CookieStore, CookieJar

`CookieStore` is one thread's `CookieManager`: `store[domain]` is its map. The ghost
`promised` keeps the cookies as the headers described them, and `request` what was sent beside
what was due. Hosts and paths are sequences of parts, an expiry is an hour of one day.
`CookieJar` takes one domain and splits the calls at the operations on the maps (`containsKey`,
`put`, an iteration); `manager` maps threads to managers, so that one run covers both a manager
for each thread (`getThreadInstance`) and one for several (`JSERequestBuilderFactory`, line 35,
captures the issuer's manager and the executor's threads use it). An iterator that meets an
insertion may notice it or not, as nothing is synchronized.

### FacadeBean

Clients run `Client.main()`: `init`, a look-up, a list. Each method of the bean is a
transaction of the container; persisted rows are `pending` until it commits, and reads see
committed rows only. **READ COMMITTED is an assumption**: it is the default of the databases the
example names, and the code sets nothing. A redeployment drops and creates the tables, as
`persistence.xml` says, and cuts off the transactions in progress.

### StringCodec

A text is a sequence of characters, one for each class of characters that a branch of the code
tells apart; the digits of an escape are one character. `SendRequest` quotes the strings as
`quoteString` and `writeStringTable` do, with the length that `JSERequestBuilder` announces, and
the external servlet unquotes them; `SendResponse` is the servlet's answer, and every iteration
of the loops of `parse` and `deserializeStringTable` is a step.

### ObjectStream

Writer and reader are recursive in the code; here a step handles one value and the calls in
progress are a stack (`wstack`, `rstack`).

| code | model |
|---|---|
| `AbstractSerializationStreamWriter`'s map of objects, its string table | `objectMap`, `stringTable` |
| the payload | `tokens`: 0 for null, a negative number for a back reference, otherwise an index of a string, a length or an ordinal |
| `serialize` of an object and of its fields or elements | `WriteObject` ... `EndObject` |
| `validateSerialize` throws | `Refuse` |
| `deserialize` up to `rememberDecodedObject` | `ReadObject` |
| `deserializeImpl` returns the same instance, or another | `EndInstance`, `EndReplacement` |
| the values registered, the objects created | `seen`, `heap` |

An array is registered as a `BoundedList` and replaced; a class whose custom serializer
instantiates by reading (`Arrays.asList`) is registered as null meanwhile. `ReadBack` says
exactly which graphs suffer: those with a cycle through such an object. Such a graph fails, or arrives with the emptied list or a null in the place of the object.

Left out: primitive values, type name elision, the server-only fields of enhanced classes. The
writer and the reader modelled are those of the client; each talks to the servlet's copy of the
other, so a run composes the two directions of one protocol.

### RpcManager

The runtime has one thread, but the application's callbacks run inside the manager's reply loop
and call the manager again. `reply` is that loop where a callback interrupts it: while its phase
is `callback`, `hook` (`handleTransportError`) or `credentials`, the calls of the application
may be taken, and `NextOperation`, `EndHook`, `EndCredentials` or `CallbackThrows` return from
the callback. Timers, answers and delayed calls are taken only when no reply is in progress.

`mgr` is the manager, with `tx[t]` for the transaction of number `t`. A helper is one function of
the code from state to state (`StopTimer` is `clearTransactionTimeout`, `Submitted` is `$66t`),
so that an action reads like the calls of its handler.

| code | model |
|---|---|
| `currentTransaction`, `queuing` | `cur`, `queuing` |
| `$66b`, the prompt count | `prompts` |
| `suspended`, `delayed`, `offline`, `cleared`, `abortCallbacks`, `clearedPrompt` | `flags` |
| `timeoutTimer`; timers whose handle was overwritten | `armed`; `orphans` |
| `Comm.$jn`, the callback by number | `slot` |
| attempts on the network | `flight` |
| `offlineTransactionLog`, `onLine`, `offlinePlayback` | `log`, `onLine`, `playback` |
| `delayCall` | `later` |

The marks that are not the code's (`shown`, `withdrawn`, `thrown`, `lost`, `misled`,
`unbalanced`) record the cases in which a property is known not to hold, so that each exception
is named at the event that causes it:

* the timer that `clearTransactionTimeout` stops may be another transaction's, and a transaction
  that was logged offline once is not logged again (`lost`);
* `resubmitTransaction` takes the last transaction tracked if the one meant is gone (`misled`):
  the playback can send the queue that is still being filled;
* a client-only transaction takes down a prompt it never put up, a retry, a playback and a
  callback that throws leave one up (`unbalanced`).

Left out: the transports other than XMLHttpRequest, downloads, `ignoreTimeout`, the callback of
a queue, and the stand-in answers that logging gives to requests.

### ResultSet

`cache` holds `localData` (`rows`), `totalRows` (`total`), `cachedRows` (`cached`), the mark of a
wrong row order and the start of the last range asked for. `pending` is the range that waits for
the fetch delay. A request is answered by the server at one time (`Answer`) and its reply arrives
at another (`Reply`), in any order. `server` is what the server holds; `Change` alters it and reports the
change to the set in one step. `ghost.marks` records what happened, and each property names
the events after which it is not promised: a reply for earlier criteria is put into the new cache
(`mixed`), an error makes the range's start the length (`failed`), a reply that is no list stops
all later ones (`bad`), a change is reported while rows are on their way (`late`), while no length
is known (`early`) or about a row that is not loaded (`unseen`), an update moves a row out of the
criteria (`dropped`) or into them (`joined`), a row is added to a complete cache (`appended`).
`fetchRemoteDataReply` calls itself for the held reply that follows: `Settled` is `Processed`
as often as there can be replies, and does nothing once none is in turn.

Left out: the `local` and `basic` fetch modes, sorting, client-side filtering of a complete
cache, the options that drop the cache, offline rows.

### ProcessFlow, Workflow

`ProcessFlow` says what the definition of a process means: which task follows which. `Workflow`
is the code: the execution stack of pairs of an element and an index, the search for the next
element (`FindNext`, `Goto`, `Unwound`), the descent to its first task (`FirstTaskStack`), and
the loop of `start()`, one turn a step. `waiting[e]` counts the callbacks a task waits for: a
service task's answer, an asynchronous script, a user who completes or cancels. `Workflow`
implements `ProcessFlow` (`FollowsDefinition`), with the task found next as `then`.

Assumed of definitions: they are trees in which each name is used once (`DefinitionsAssumption`;
a definition is a literal whose elements are nested in lists), and, as in the comments of
`Workflow`, no empty sequence, no element with both `sequences` and `elements`. An unknown name ends the process without a word, and the
`nextElement` of a sequence is taken only by the sequence's own search, in the model as in the code.

### PageHistory

`entries` is the browser's list and the place in it, which the code cannot read; `state` is
`historyState` and `field` the form field it is saved in; `page` is what a new load forgets. The
user goes to any entry, types an address, leaves and comes back, with the field restored or
not; the timer (`Poll`) looks at the address at any time. `app` is the application: what it shows
and the data it last gave. `ghost.moved` says that the user moved since the address was looked at.

Left out: the branch for Internet Explorer, where a hidden frame calls back; titles.

## 4. The runs

| run | bounds | why they are enough |
|---|---|---|
| `rpc_calls` | two synchronous calls and an asynchronous one, one client thread, two executor threads | one client suffices for any nesting, two workers for any overlap; a call never looks at another |
| `rpc_live` | one call of each kind, under `FairSpec` | liveness is per call; the second is there to occupy a thread |
| `cookies_clean` | two names, two values, three hosts of which two share a domain, four hours | two names make merges visible, two hosts the domain, two expiries an expired beside a live one |
| `jar_threads` | two threads, two managers, two names, two values, three calls each | the third call reads what the first two left |
| `facade_clients` | four clients, two redeployments (`MaxRedeployments`) | three concurrent inserts after a drop, and a second drop |
| `facade_twice` | two clients, no redeployment | as above |
| `strings` | every string of two characters, of three delimiters, every pair of strings of two delimiters | an escape, its neighbour on each side, and the border between two strings; the theorems of `RpcProofs` need none of these bounds |
| `objects` | every graph of a root and two objects over ten types; only the root has two object fields or elements | sharing, cycles of length one to three, and each kind of object inside and outside them |
| `rpcm_queue` | two requests of three kinds (with a prompt; client-only; with credentials), two disturbances (`MaxDisturbances`: cancelled, suspended, a throwing callback, a retry, offline) | two requests make one queue of two or two transactions; each exception above takes two events |
| `resultset_grid` | three rows, two criteria, pages of two, four events (`MaxEvents`: fetches, changes, other criteria, errors) | a page less than the rows, two fetches under way, and two events between them |
| `workflow_tasks` | two definitions of eight and twelve elements, two restarts (`MaxRestarts`) | every kind of element in first, middle and last place, nested lists of depth three, each way to name an element; the state space is the whole of it |
| `history_user` | three ids, three entries made by the application, two visits or typed addresses | an entry below, at and above the place gone back to; twice the same id |

Where a type invariant or an inductive invariant is proved, the runs do not repeat it: the
theorem states it (`TypeOK` of `RpcCall`, `CookieStore`, `FacadeBean` and
`PageHistory`; `CallInv`, `ThreadInv`, `SyncManagersSerial`, `SuccessWasExecuted`,
`StoreIsPromised`, `ConfinedNothingLost`, `JarTypeOK` of `CookieJar`). Elsewhere the type invariant is a conjunct of a
property of the run (`ScanFollowsTable`, `SlotsAligned`, `OpenQueueUnsent`, `CountIsExact`).

The passing runs hold. One run shows a disagreement between the code and its documentation,
quoted under `findings`: `facade_twice`, where overlapping calls of `init` insert twice, and from
then on the look-up raises `NonUniqueResultException` (`FacadeStatelessSessionBean.java:159`).

Disagreements that were met and have no run of their own. The properties name them as the inputs
or cases they leave out:

* after `"; "` the key of a cookie's attribute keeps its blank (`CookieManager.java:111`), so
  `expires` and `path` are not found and the cookie is sent for ever; `hh` in the date format
  reads 12:xx as 00:xx (`CookieManager.java:42`), so a cookie goes up to twelve hours early; the
  path `/app` also covers `/apple` (`CookieManager.java:213`). `CleanInputs` of `CookieStore`
  excludes the three.
* on a manager that two threads share one answer's cookies can disappear
  (`CookieManager.java:128`): `ConfinedNothingLost` is about managers with a thread each.
* `quoteString` never quotes a backslash (`JClientSerializationStreamWriter.java:37`), though its
  comment promises strings that are safe to send: `RequestReadBack` excepts it.
* `setHeader` appends where its contract says overwrite (`RequestBuilderAbstract.java:65`).
* a refused asynchronous call throws at the caller, while `RpcServiceProxy.java:84-91` describes a
  call of `onFailure`.

## 5. Fairness

Two specifications state fairness. `Workflow` assumes weak fairness of the steps of a loop that
is on (`WF_vars(running /\ Next)`): it is one function on one thread that nothing interrupts, and
it is for `LoopEnds` only. That somebody calls back a task is not assumed.

`FairSpec` of `RpcCall` assumes weak fairness of each call's `RunStep` and of
`StartTask` for each call. `RunStep` is sequential code on a running thread, which the JVM
schedules; it contains the application's callback, so callbacks are assumed to end. `StartTask`
is the executor, which takes every submitted task once a thread is free. It is weak fairness for
each call, which is justified as the executor's queue is first in, first out and no call
starts over. Nothing is assumed of the server, of the network or of connection losses: with a timeout,
`TimesOut` is part of `RunStep` and ends the wait.

## 6. The proofs

| module | argument |
|---|---|
| `RpcProofs` | `CallInv` (for each call, its phase against its request, answer and callback) and `ThreadInv` are inductive; the safety properties follow from them, and every step maps to a step of `RpcContract` or a stutter. About `StringCodec`: `CodecInv` says where the reader is. Its texts are joined of parts (`Laid`: part `n` lies between two offsets that `Offsets` picks), so a response has a place for each string and each character (`CharsLie`, `StringsLie`), a request a bar for each string (`QuotedLie`), and the last bracket of an answer is the one that closes its table (`TableIsCutOut`). While a response is read, the strings read are the first ones, the text gathered is the beginning of the next and the scan is exactly before that string's next escape (`Scanning`); while the servlet reads a request, it is between the bars of the string it reads, which is so whatever a backslash makes of that string, and within a string without backslashes exactly before its next character (`Serving`). `ScanFollowsTable` is not inductive: it does not say where in the text the scan is. `FlattenSeq` is a fold, so what it gives is shown through the run of texts it goes through (`FlattenSeqIsReached`), from a least counterexample |
| `CookieProofs` | `CookieStore`: the store equals `promised` up to the empty cookies that `getCookie` creates, if the headers are clean (a named hypothesis of the theorems); sent equals due follows. `CookieJar`: the shape of the maps is inductive for any sharing; if no two threads share a manager, a stronger invariant for each manager: nobody else's map, the iterator never behind, `latest` is what the map holds |
| `FacadeBeanProofs` | both employees of a call are committed or none is; whoever inserted without overlap is alone |
| `ObjectStreamProofs` | `WriterInv`: each object has one index, and whatever is being written has one already. `NeverNested` alone is not inductive, as it does not say that what is being written will be met as a back reference. What the writer put out is told as a run of moments, each the calls in progress and how much is written by then (`RunInv`); no history variable is needed, as the run is asserted to exist. `ReaderInv`: the reader matches one moment of the run, call by call and index by index (`Matches`), with a lag while a call has its value and has not returned it. The indices are then the writer's (`SlotsAligned`). A back reference that meets a placeholder or an index still empty is to an object whose call is open, and such an object is on a cycle (`OpenIsOnCycle`), so each failure of a step but that on a missing type needs a knot, and `ReadBack` follows at the last moment |
| `WorkflowProofs` | `PlacesOK`: the stack is a path down the definition (`IsPath`). What `Goto`, `FirstTaskStack` and `FindNextElement` do is shown by going down, or up, the tree, from a least counterexample, and `LinearRecursion` (a function defined by recursion along a well-founded path exists, and nothing else satisfies its equations) unfolds the recursive functions; so the next turn of the loop comes to what is due (`TurnOK`), and every step maps to a step of `ProcessFlow` or a stutter. `IInv` ties the ghost to the loop: what waits is the task executed last, once, and only while the loop is off; a loop that was left before the end left a task waiting or a script that threw. `OneAtATime` alone is not inductive: it does not say that a loop that is on has nobody waiting |
| `PageHistoryProofs` | `IInv` adds that ids in the entries are distinct as long as no mark is set and that the stack's places are the entries'; then dropping the ids above the current one is what the browser does with the entries ahead. `TypeCorrect` needs no such case: some place is the last at which an id occurs (`BoundedMax`) |
| `RpcManagerProofs` | `GoodInv`: each transaction is `Good` in its `Situation` (what the manager and the reply under way say of it), the count of prompts is the number on show, and the reply is that of a transaction. None of the five invariants is inductive alone: that nobody is answered twice needs that a waiting transaction has no answer, which needs the place of the loop in its reply and the marks of an aborted one; that nobody is forgotten needs that `abort` is set only with a resubmission or a suspension. A step is proved `Beside` the transactions it does not name (it stops the timer of one of them at most, which then counts as lost) and by what it does to its own; sending, resending and playback are steps of a set. `Steps` is what every step keeps, and gives the two action properties |
| `ResultSetProofs` | two invariants, one on the other. `Inv`: the requests sent and not processed are on the wire or held, with a number each and none missing, and every mark of loading is in the range of one of them. `RowsInv`: while none of the `Upsets` happened, the cache is `Right` (each row is one of the criteria's, at its place while the order is not marked as wrong; no more rows counted than loaded), the answers under way are the server's, and the order is right while anything is outstanding. The properties about the rows are not inductive: they say nothing of a reply that is still under way, nor that rows past the length, which a removal would move into it, are gone once nothing is. What a reply keeps, the replies held behind it keep too (`SettledKeeps`, from a least counterexample). A removal and an insertion are the same relation read both ways (`OneLess`): the server's positions (`NthWithout`), the rows shown and their number (`MovedCount`) all move by one behind the row |

The assumptions are the named `ASSUME`s of the modules (`CallsAssumption`, `HoursAssumption`,
`GraphAssumption` and so on), which TLC evaluates on its instances.
That `null` is no number, no range and no array is one of them (`UnknownAssumption` of `ResultSet`).

Only model-checked are the liveness properties (`AsyncCallsSettle`, `SyncCallsReturn`,
`LoopEnds`), which are out of the prover's reach: every safety invariant, action property and
refinement of the runs has its theorem.

The proof of `RpcManager` changed its model in one place. `AnsweredOncePerSend` held within the
bounds of the run and not beyond: a client-only request that is resent while the browser is offline
and its transaction was logged before is not logged again (`offlineTransaction` returns at once),
and is answered a second time. It was given to the log twice, so the count of its answers starts
anew at each time (`Offline`); the code's own state is the same as before.

The proof of `ResultSet` changed two of its properties in the same way. A row added to a
complete cache goes to the end, whatever its place at the server; a range that was already waiting
then fetches it a second time, and from then on length and count are wrong, and a row dropped
without being counted leaves the cache taken for complete. With four events no run gets
there, with eight it does; `Calm` therefore excludes `appended` and `dropped` for every property
about the server's rows.

## 7. Not modelled

The JPA, RMI, CORBA, Redis and firstGWT examples are later steps of the plan (section 2). Not
planned: the generated CORBA stubs, the JNA and JNI samples (timing loops), `Test.scala` (a pure
function of two cases), `CookieStoreThreadLocal` (commented out), and the rest of the web runtime:
its class system, drawing, layout, widgets and skins, which make most of its lines and are
measured in pixels and DOM nodes. The map therefore covers a small share of the JavaScript.

Hazards that no property covers: without an executor each call makes a thread pool that nobody
shuts down (`JSERequestBuilderFactory.java:29`); `RpcResponse.getHeader` walks a null array after
a 404; two threads may read each other's dates from one `SimpleDateFormat`
(`CookieManager.java:201`); a cookie named `path` or `expires` is read as its own attribute
(`CookieManager.java:104`); `ManageDataImpl` commits its row before it looks at the input (line
26) and leaves an entity manager open (line 21); `JpaTest` makes 5000 transactions in one
persistence context (line 44); every CORBA client ends the server without waiting for the others
(`HelloImpl.java:21`). Smaller ones are only named here:
`IOUtils.readAsString` flips its buffer and never clears it, so that after one short read it
goes on in small pieces (the string is right all the same); GWT servlets split very long
answers with `concat`, which `parse` does not know; a long is sent as two doubles;
`RmiClient` may look the name up before it is bound; `IncrTest` reads its counter around an
increment in three commands.
