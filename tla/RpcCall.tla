---------------------------------- MODULE RpcCall ----------------------------------
(*******************************************************************************)
(* One remote call of the gwtrpc4j Java client, from the proxy's invocation     *)
(* handler (JRpcServiceProxy.invoke) through the request builder                *)
(* (JSERequestBuilder.send, run) to the notification of the callback            *)
(* (RequestCallbackAdapter), for any number of calls issued by any number of    *)
(* threads.                                                                     *)
(*                                                                             *)
(* A synchronous call runs on the thread that issued it; an asynchronous one is *)
(* handed to the executor and runs on one of its threads, whose user callback   *)
(* may in turn issue calls.  What the server answers is reduced to the status   *)
(* and the kind of body that RequestCallbackAdapter tells apart.  The cookie    *)
(* manager appears here only as the thread it belongs to and as two steps that  *)
(* may raise a runtime exception.                                               *)
(*******************************************************************************)
EXTENDS Naturals, FiniteSets

CONSTANTS Calls,       \* the calls the program makes
          SyncCalls,   \* those made through a proxy of a RemoteService interface
          Clients,     \* application threads
          Workers,     \* threads of the executor of the request builder factory
          NoThread,    \* "no thread yet"
          NoReply,     \* "no answer yet"
          HasTimeout   \* whether the factory's timeoutMillis is not 0

ASSUME CallsAssumption == SyncCalls \subseteq Calls
ASSUME ThreadsAssumption ==
    /\ Clients \cap Workers = {}
    /\ NoThread \notin Clients \cup Workers
ASSUME TimeoutAssumption == HasTimeout \in BOOLEAN

VARIABLES pc,             \* how far the call has run
          issuer,         \* the thread that invoked the proxy: its cookie manager is used
          runner,         \* the thread that executes run()
          open,           \* the calls that hold an open connection
          wire,           \* what the server knows of the request
          executions,     \* how often the server has run the call's method
          reply,          \* what the server answered, read or not
          notifications,  \* how often the call's callback was invoked
          seen,           \* what the callback was told
          outcome,        \* what the invocation of the proxy did to its caller
          escaped         \* the calls whose run() ended with a runtime exception

vars == <<pc, issuer, runner, open, wire, executions, reply, notifications, seen,
          outcome, escaped>>

--------------------------------------------------------------------------------
Threads == Clients \cup Workers
AsyncCalls == Calls \ SyncCalls

\* Inside run(), up to the invocation of the callback
Running == {"start", "cookies", "connecting", "waiting", "storing",
            "delivering", "failing", "returning"}
Phases == Running \cup {"idle", "queued", "callback", "done"}

\* "value" decodes with the response reader of the call, "badValue" does not.
Reply == [status : {200, 302, 404, 500},
          body   : {"value", "badValue", "exception", "other", "none"}]

\* What a server that ran the method answers, and what anything on the way may
\* answer instead (a proxy, a login page, a missing servlet).
ExecutedReplies == {[status |-> 200, body |-> "value"],
                    [status |-> 200, body |-> "badValue"],
                    [status |-> 200, body |-> "exception"],
                    [status |-> 500, body |-> "other"]}
OtherReplies == {[status |-> 200, body |-> "other"],
                 [status |-> 302, body |-> "other"],
                 [status |-> 404, body |-> "none"],
                 [status |-> 500, body |-> "other"]}

\* HttpURLConnection.getInputStream throws an IOException for an error status;
\* readResponse never asks for it when the status is 404.
Unreadable(r) == r.status >= 400 /\ r.status # 404

\* RequestCallbackAdapter.onResponseReceived: what it leaves in `caught`
Verdict(r) ==
    IF \/ r.status # 200
       \/ r.body = "none"
       \/ r.body = "exception"
       \/ r.body = "badValue"      \* SerializationException, or any Throwable
       \/ r.body = "other"
    THEN "failure" ELSE "success"

Init ==
    /\ pc = [c \in Calls |-> "idle"]
    /\ issuer = [c \in Calls |-> NoThread]
    /\ runner = [c \in Calls |-> NoThread]
    /\ open = {}
    /\ wire = [c \in Calls |-> "none"]
    /\ executions = [c \in Calls |-> 0]
    /\ reply = [c \in Calls |-> NoReply]
    /\ notifications = [c \in Calls |-> 0]
    /\ seen = [c \in Calls |-> "nothing"]
    /\ outcome = [c \in Calls |-> "none"]
    /\ escaped = {}

--------------------------------------------------------------------------------
\* A thread is free for new code when every call it executes, if any, is inside
\* the user's callback; an executor thread runs user code only in a callback.
Unoccupied(t) == \A c \in Calls : runner[c] = t => pc[c] \notin Running
InCallback(t) == \E c \in Calls : runner[c] = t /\ pc[c] = "callback"
MayInvoke(t) == Unoccupied(t) /\ (t \in Workers => InCallback(t))

\* The invocation handler throws before anything is sent.  "unencodable": buildWriter
\* raises a SerializationException, wrapped in a RemoteException.  "threw": a callback
\* whose onSuccess has no concrete parameter type, no service entry point, an executor
\* that rejects the task.
InvokeRefused(t, c, how) ==
    /\ pc[c] = "idle"
    /\ MayInvoke(t)
    /\ pc' = [pc EXCEPT ![c] = "done"]
    /\ issuer' = [issuer EXCEPT ![c] = t]
    /\ outcome' = [outcome EXCEPT ![c] = how]
    /\ UNCHANGED <<runner, open, wire, executions, reply, notifications, seen, escaped>>

\* send() on behalf of a SynchroCallback calls run() on the caller's thread.
InvokeSync(t, c) ==
    /\ c \in SyncCalls
    /\ pc[c] = "idle"
    /\ MayInvoke(t)
    /\ pc' = [pc EXCEPT ![c] = "start"]
    /\ issuer' = [issuer EXCEPT ![c] = t]
    /\ runner' = [runner EXCEPT ![c] = t]
    /\ UNCHANGED <<open, wire, executions, reply, notifications, seen, outcome, escaped>>

\* send() on behalf of any other callback submits the builder to the executor,
\* and the proxy returns null.
InvokeAsync(t, c) ==
    /\ c \in AsyncCalls
    /\ pc[c] = "idle"
    /\ MayInvoke(t)
    /\ pc' = [pc EXCEPT ![c] = "queued"]
    /\ issuer' = [issuer EXCEPT ![c] = t]
    /\ outcome' = [outcome EXCEPT ![c] = "returned"]
    /\ UNCHANGED <<runner, open, wire, executions, reply, notifications, seen, escaped>>

\* A thread of the executor takes a submitted task.
StartTask(w, c) ==
    /\ pc[c] = "queued"
    /\ Unoccupied(w)
    /\ ~InCallback(w)
    /\ pc' = [pc EXCEPT ![c] = "start"]
    /\ runner' = [runner EXCEPT ![c] = w]
    /\ UNCHANGED <<issuer, open, wire, executions, reply, notifications, seen, outcome,
                   escaped>>

--------------------------------------------------------------------------------
\* Mutant: no finally block.
LeaveTryOpen(c, next) == pc' = [pc EXCEPT ![c] = next] /\ UNCHANGED open

\* run().  The inner try is left through its finally block, which disconnects.
LeaveTry(c, next) ==
    /\ pc' = [pc EXCEPT ![c] = next]
    /\ open' = open \ {c}

\* Mutant: the handlers do not invoke onError.
FailUnreported(c) ==
    /\ LeaveTry(c, "done")
    /\ UNCHANGED <<issuer, runner, executions, reply, notifications, seen, outcome, escaped>>

\* A caught exception: MalformedURLException, IOException or RequestException.
Fail(c) ==
    /\ LeaveTry(c, "failing")
    /\ UNCHANGED <<issuer, runner, executions, reply, notifications, seen, outcome, escaped>>

\* Mutant: run() catches every Throwable and says nothing.
EscapeSwallowed(c) ==
    /\ LeaveTry(c, IF c \in SyncCalls THEN "returning" ELSE "done")
    /\ UNCHANGED <<issuer, runner, executions, reply, notifications, seen, outcome, escaped>>

\* A runtime exception: no handler in run(), send() or the proxy.  The caller of
\* a synchronous call gets it, the executor's thread swallows it otherwise.
Escape(c) ==
    /\ LeaveTry(c, "done")
    /\ escaped' = escaped \cup {c}
    /\ outcome' = [outcome EXCEPT ![c] = IF c \in SyncCalls THEN "threw" ELSE @]
    /\ UNCHANGED <<issuer, runner, executions, reply, notifications, seen>>

\* new URL, openConnection and initConnection
OpenConnection(c) ==
    /\ pc[c] = "start"
    /\ pc' = [pc EXCEPT ![c] = "cookies"]
    /\ open' = open \cup {c}
    /\ UNCHANGED <<issuer, runner, wire, executions, reply, notifications, seen, outcome,
                   escaped>>

OpenFails(c) == pc[c] = "start" /\ Fail(c) /\ UNCHANGED wire

\* cookieManager.setCookies
SetCookies(c) ==
    /\ pc[c] = "cookies"
    /\ pc' = [pc EXCEPT ![c] = "connecting"]
    /\ UNCHANGED <<issuer, runner, open, wire, executions, reply, notifications, seen,
                   outcome, escaped>>

SetCookiesThrows(c) == pc[c] = "cookies" /\ Escape(c) /\ UNCHANGED wire

\* connect and IOUtils.write
Send(c) ==
    /\ pc[c] = "connecting"
    /\ pc' = [pc EXCEPT ![c] = "waiting"]
    /\ wire' = [wire EXCEPT ![c] = "sent"]
    /\ UNCHANGED <<issuer, runner, open, executions, reply, notifications, seen, outcome,
                   escaped>>

\* The connection is refused, or breaks before or after the request got through.
SendFails(c) ==
    /\ pc[c] = "connecting"
    /\ wire' \in {wire, [wire EXCEPT ![c] = "sent"]}
    /\ Fail(c)

\* readResponse
ReadReply(c) ==
    /\ pc[c] = "waiting"
    /\ wire[c] = "answered"
    /\ ~Unreadable(reply[c])
    /\ pc' = [pc EXCEPT ![c] = "storing"]
    /\ UNCHANGED <<issuer, runner, open, wire, executions, reply, notifications, seen,
                   outcome, escaped>>

\* Mutant: an unreadable answer makes the client send the request again.
ReadFailsResends(c) ==
    /\ pc[c] = "waiting"
    /\ wire[c] = "answered"
    /\ Unreadable(reply[c])
    /\ pc' = [pc EXCEPT ![c] = "connecting"]
    /\ UNCHANGED <<issuer, runner, open, wire, executions, reply, notifications, seen,
                   outcome, escaped>>

ReadFails(c) ==
    /\ pc[c] = "waiting"
    /\ wire[c] = "answered"
    /\ Unreadable(reply[c])
    /\ Fail(c)
    /\ UNCHANGED wire

\* Mutant: the test of getTimeoutMillis is inverted.
TimesOutIfUnset(c) ==
    /\ ~HasTimeout
    /\ pc[c] = "waiting"
    /\ wire[c] = "sent"
    /\ Fail(c)
    /\ UNCHANGED wire

\* The answer does not come within setReadTimeout.
TimesOut(c) ==
    /\ HasTimeout
    /\ pc[c] = "waiting"
    /\ wire[c] = "sent"
    /\ Fail(c)
    /\ UNCHANGED wire

ConnectionLost(c) == pc[c] = "waiting" /\ Fail(c) /\ UNCHANGED wire

\* cookieManager.storeCookies, then the finally block
StoreCookies(c) ==
    /\ pc[c] = "storing"
    /\ LeaveTry(c, "delivering")
    /\ UNCHANGED <<issuer, runner, wire, executions, reply, notifications, seen, outcome,
                   escaped>>

StoreCookiesThrows(c) == pc[c] = "storing" /\ Escape(c) /\ UNCHANGED wire

--------------------------------------------------------------------------------
\* callback.onSuccess or callback.onFailure begins.  SynchroCallback only records
\* what it is told; any other callback runs code of the application.
Notify(c, what) ==
    /\ notifications' = [notifications EXCEPT ![c] = @ + 1]
    /\ seen' = [seen EXCEPT ![c] = what]
    /\ pc' = [pc EXCEPT ![c] = IF c \in SyncCalls THEN "returning" ELSE "callback"]
    /\ UNCHANGED <<issuer, runner, open, wire, executions, reply, outcome, escaped>>

Deliver(c) == pc[c] = "delivering" /\ Notify(c, Verdict(reply[c]))
\* Mutant: only asynchronous callbacks are told of errors.
OnErrorAsyncOnly(c) == c \in AsyncCalls /\ pc[c] = "failing" /\ Notify(c, "failure")

OnError(c) == pc[c] = "failing" /\ Notify(c, "failure")

\* JRpcServiceProxy.doInvoke after run(): return callback.result or throw
\* callback.caught, which is null unless the callback was told of a failure.
Return(c) ==
    /\ pc[c] = "returning"
    /\ pc' = [pc EXCEPT ![c] = "done"]
    /\ outcome' = [outcome EXCEPT
                     ![c] = IF seen[c] = "failure" THEN "threw" ELSE "returned"]
    /\ UNCHANGED <<issuer, runner, open, wire, executions, reply, notifications, seen,
                   escaped>>

\* The application's callback ends; a nested synchronous call must have ended.
CallbackReturns(c) ==
    /\ pc[c] = "callback"
    /\ Unoccupied(runner[c])
    /\ pc' = [pc EXCEPT ![c] = "done"]
    /\ UNCHANGED <<issuer, runner, open, wire, executions, reply, notifications, seen,
                   outcome, escaped>>

\* Mutant: the handlers of run() catch what the callback throws.
CallbackThrowsToOnError(c) ==
    /\ pc[c] = "callback"
    /\ Unoccupied(runner[c])
    /\ Fail(c)
    /\ UNCHANGED wire

CallbackThrows(c) ==
    /\ pc[c] = "callback"
    /\ Unoccupied(runner[c])
    /\ Escape(c)
    /\ UNCHANGED wire

--------------------------------------------------------------------------------
\* The server: it may run the method after the client has given up.
ServerExecutes(c) ==
    /\ wire[c] = "sent"
    /\ wire' = [wire EXCEPT ![c] = "answered"]
    /\ executions' = [executions EXCEPT ![c] = @ + 1]
    /\ \E r \in ExecutedReplies : reply' = [reply EXCEPT ![c] = r]
    /\ UNCHANGED <<pc, issuer, runner, open, notifications, seen, outcome, escaped>>

ServerRefuses(c) ==
    /\ wire[c] = "sent"
    /\ wire' = [wire EXCEPT ![c] = "answered"]
    /\ \E r \in OtherReplies : reply' = [reply EXCEPT ![c] = r]
    /\ UNCHANGED <<pc, issuer, runner, open, executions, notifications, seen, outcome,
                   escaped>>

--------------------------------------------------------------------------------
\* What the thread in run() does next, the user's callback included
RunStep(c) ==
    \/ OpenConnection(c) \/ OpenFails(c)
    \/ SetCookies(c) \/ SetCookiesThrows(c)
    \/ Send(c) \/ SendFails(c)
    \/ ReadReply(c) \/ ReadFails(c) \/ TimesOut(c)
    \/ StoreCookies(c) \/ StoreCookiesThrows(c)
    \/ Deliver(c) \/ OnError(c)
    \/ Return(c)
    \/ CallbackReturns(c) \/ CallbackThrows(c)

Server(c) == ServerExecutes(c) \/ ServerRefuses(c)

Invoke(t, c) ==
    \/ \E how \in {"unencodable", "threw"} : InvokeRefused(t, c, how)
    \/ InvokeSync(t, c)
    \/ InvokeAsync(t, c)

AllDone == \A c \in Calls : pc[c] = "done" /\ wire[c] # "sent"

\* The program has made its calls.
Finished == AllDone /\ UNCHANGED vars

Next ==
    \/ \E c \in Calls :
        \/ RunStep(c)
        \/ ConnectionLost(c)
        \/ Server(c)
        \/ \E t \in Threads : Invoke(t, c)
        \/ \E w \in Workers : StartTask(w, c)
    \/ Finished

Spec == Init /\ [][Next]_vars

(*******************************************************************************)
(* The thread in run() keeps going, callbacks of the application return, and    *)
(* the executor starts what was submitted.  Nothing is assumed of the server    *)
(* or of the network: only the timeout ends a wait.                             *)
(*******************************************************************************)
FairSpec ==
    /\ Spec
    /\ \A c \in Calls : WF_vars(RunStep(c))
    /\ \A c \in Calls : WF_vars(\E w \in Workers : StartTask(w, c))

--------------------------------------------------------------------------------
TypeOK ==
    /\ pc \in [Calls -> Phases]
    /\ issuer \in [Calls -> Threads \cup {NoThread}]
    /\ runner \in [Calls -> Threads \cup {NoThread}]
    /\ open \subseteq Calls
    /\ wire \in [Calls -> {"none", "sent", "answered"}]
    /\ executions \in [Calls -> Nat]
    /\ reply \in [Calls -> Reply \cup {NoReply}]
    /\ notifications \in [Calls -> Nat]
    /\ seen \in [Calls -> {"nothing", "success", "failure"}]
    /\ outcome \in [Calls -> {"none", "returned", "threw", "unencodable"}]
    /\ escaped \subseteq Calls

\* The callback of a call is invoked once at most, whatever fails and whatever the
\* callback itself throws: run() invokes onResponseReceived inside the try whose
\* handlers invoke onError.
NotifiedAtMostOnce == \A c \in Calls : notifications[c] <= 1

\* A synchronous invocation that returns normally returns what the method of that
\* very call returned on the server: SynchroCallback starts with a null `caught`, so
\* a run() that ended without telling it anything would look like a null result.
SyncReturnGenuine ==
    \A c \in SyncCalls : outcome[c] = "returned" =>
        /\ executions[c] = 1
        /\ reply[c].body = "value"
        /\ notifications[c] = 1

\* Code of the application never runs while the call's connection is still open, and
\* no way of leaving run() leaks the connection.
ConnectionReleased ==
    \A c \in open : pc[c] \in {"cookies", "connecting", "waiting", "storing"}

\* A callback told of a success belongs to a call the server ran, once.
SuccessWasExecuted == \A c \in Calls : seen[c] = "success" => executions[c] = 1

\* An asynchronous call that is over told its callback, or ended with a runtime
\* exception, or was refused when it was issued: a handled exception (an I/O
\* failure, a timeout, a bad URL) never makes it disappear.
EveryEndAccounted ==
    \A c \in AsyncCalls : pc[c] = "done" =>
        notifications[c] = 1 \/ c \in escaped \/ outcome[c] \in {"threw", "unencodable"}

\* The inductive invariant behind the properties of a call, for each call c:
\* what the phase of c says of its kind, its request, its answer and its callback.
ToldWhenDelivered(c) ==
    /\ notifications[c] = IF seen[c] = "nothing" THEN 0 ELSE 1
    /\ pc[c] \in {"returning", "callback"} => seen[c] # "nothing"
    /\ seen[c] # "nothing" => pc[c] \in {"returning", "callback", "done"}
    /\ seen[c] = "success" => wire[c] = "answered" /\ reply[c].body = "value"

SentOnce(c) ==
    /\ pc[c] \in {"idle", "queued", "start", "cookies", "connecting"} => wire[c] = "none"
    /\ pc[c] \in {"storing", "delivering"} => wire[c] = "answered"
    /\ wire[c] = "none" \/ wire[c] = "sent" => executions[c] = 0
    /\ wire[c] = "answered" =>
        /\ reply[c] \in Reply
        /\ executions[c] \in {0, 1}
        /\ reply[c].body = "value" => executions[c] = 1

EndsAsItsKind(c) ==
    /\ c \in SyncCalls => pc[c] \notin {"queued", "callback"}
    /\ c \in AsyncCalls => pc[c] # "returning"
    /\ c \in SyncCalls /\ outcome[c] = "returned" => seen[c] = "success"
    /\ c \in AsyncCalls /\ pc[c] = "done" =>
        seen[c] # "nothing" \/ c \in escaped \/ outcome[c] \in {"threw", "unencodable"}

CallInv == \A c \in Calls : ToldWhenDelivered(c) /\ SentOnce(c) /\ EndsAsItsKind(c)

\* A thread executes the code of one call at a time, and a synchronous call runs on
\* the thread that issued it.
ThreadInv ==
    /\ \A c, d \in Calls :
        pc[c] \in Running /\ pc[d] \in Running /\ runner[c] = runner[d] => c = d
    /\ \A c \in SyncCalls : pc[c] \in Running => runner[c] = issuer[c]

\* Two synchronous calls never work on the same cookie manager at the same time: the
\* manager is the issuing thread's, and that thread waits for its call.
SyncManagersSerial ==
    \A c, d \in SyncCalls :
        /\ c # d
        /\ pc[c] \in {"cookies", "storing"}
        /\ pc[d] \in {"cookies", "storing"}
        => issuer[c] # issuer[d]

\* What RpcContract calls the status of a call.
Status(c) ==
    IF seen[c] # "nothing" THEN seen[c]
    ELSE IF pc[c] = "done" THEN "escaped"
    ELSE IF pc[c] = "idle" THEN "unissued"
    ELSE "pending"

Contract == INSTANCE RpcContract WITH
    status <- [c \in Calls |-> Status(c)]

\* The threads, connections and exceptions of the client implement the contract: a
\* settled call keeps its result for ever, the server runs a method at most once.
RefinesContract == Contract!ContractSpec

\* With a timeout, a submitted call ends up telling its callback or escaping, even
\* if the server never answers.
AsyncCallsSettle ==
    \A c \in AsyncCalls :
        (pc[c] = "queued") ~> (notifications[c] = 1 \/ c \in escaped)

\* With a timeout, a synchronous invocation gives its thread back.
SyncCallsReturn == \A c \in SyncCalls : (pc[c] = "start") ~> (outcome[c] # "none")
================================================================================
