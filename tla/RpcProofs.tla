------------------------------- MODULE RpcProofs -------------------------------
(*******************************************************************************)
(* Theorems about RpcCall, for any number of calls, clients and workers, and    *)
(* about StringCodec, for any tables of strings: that the reader of either      *)
(* message is always where what it has read of the table ends.                  *)
(*******************************************************************************)
EXTENDS RpcCall, StringCodec, SequenceTheorems, WellFoundedInduction, TLAPS

(* The remote call *)

\* Every variable keeps its type, whatever step is taken.
THEOREM TypeCorrect == Spec => []TypeOK
<1>1. Init => TypeOK
    BY DEF Init, TypeOK, Phases
<1>2. TypeOK /\ [Next]_vars => TypeOK'
    <2> SUFFICES ASSUME TypeOK, [Next]_vars
                 PROVE  TypeOK'
        OBVIOUS
    <2> USE DEF TypeOK
    <2>1. CASE UNCHANGED vars
        BY <2>1 DEF vars
    <2>2. ASSUME NEW c \in Calls, NEW t \in Threads, Invoke(t, c)
          PROVE  TypeOK'
        BY <2>2 DEF Invoke, InvokeRefused, InvokeSync, InvokeAsync, Phases, Running
    <2>3. ASSUME NEW c \in Calls, NEW w \in Workers, StartTask(w, c)
          PROVE  TypeOK'
        BY <2>3 DEF StartTask, Phases, Running, Threads
    <2>4. ASSUME NEW c \in Calls, Server(c)
          PROVE  TypeOK'
        BY <2>4 DEF Server, ServerExecutes, ServerRefuses, ExecutedReplies, OtherReplies,
                    Reply
    <2>5. ASSUME NEW c \in Calls, ConnectionLost(c)
          PROVE  TypeOK'
        BY <2>5 DEF ConnectionLost, Fail, LeaveTry, Phases, Running
    <2>6. ASSUME NEW c \in Calls, RunStep(c)
          PROVE  TypeOK'
        <3>1. CASE OpenConnection(c) \/ SetCookies(c) \/ Send(c) \/ ReadReply(c)
            BY <3>1 DEF OpenConnection, SetCookies, Send, ReadReply, Phases, Running
        <3>2. CASE OpenFails(c) \/ SendFails(c) \/ ReadFails(c) \/ TimesOut(c)
            BY <3>2 DEF OpenFails, SendFails, ReadFails, TimesOut, Fail, LeaveTry,
                        Phases, Running
        <3>3. CASE SetCookiesThrows(c) \/ StoreCookiesThrows(c) \/ CallbackThrows(c)
            BY <3>3 DEF SetCookiesThrows, StoreCookiesThrows, CallbackThrows, Escape,
                        LeaveTry, Phases, Running
        <3>4. CASE StoreCookies(c) \/ CallbackReturns(c) \/ Return(c)
            BY <3>4 DEF StoreCookies, CallbackReturns, Return, LeaveTry, Phases, Running
        <3>5. CASE Deliver(c) \/ OnError(c)
            BY <3>5 DEF Deliver, OnError, Notify, Verdict, Phases, Running
        <3>6. QED
            BY <2>6, <3>1, <3>2, <3>3, <3>4, <3>5 DEF RunStep
    <2>7. QED
        BY <2>1, <2>2, <2>3, <2>4, <2>5, <2>6 DEF Next, Finished
<1>3. QED
    BY <1>1, <1>2, PTL DEF Spec

--------------------------------------------------------------------------------
\* A step of one call leaves the history of the others alone.
Untouched(d) ==
    /\ pc'[d] = pc[d]
    /\ wire'[d] = wire[d]
    /\ executions'[d] = executions[d]
    /\ reply'[d] = reply[d]
    /\ notifications'[d] = notifications[d]
    /\ seen'[d] = seen[d]
    /\ outcome'[d] = outcome[d]
    /\ (d \in escaped) = (d \in escaped')

\* CallInv says something of each call apart, so a step that keeps it for the call
\* it is about and does not touch the others keeps it.
LEMMA OneCallAtATime ==
    ASSUME CallInv, NEW c \in Calls,
           ToldWhenDelivered(c)', SentOnce(c)', EndsAsItsKind(c)',
           \A d \in Calls \ {c} : Untouched(d)
    PROVE  CallInv'
<1> SUFFICES ASSUME NEW d \in Calls, d # c
             PROVE  ToldWhenDelivered(d)' /\ SentOnce(d)' /\ EndsAsItsKind(d)'
    BY DEF CallInv
<1>1. ToldWhenDelivered(d) /\ SentOnce(d) /\ EndsAsItsKind(d) /\ Untouched(d)
    BY DEF CallInv
<1>2. ToldWhenDelivered(d)'
    BY <1>1 DEF ToldWhenDelivered, Untouched
<1>3. SentOnce(d)'
    BY <1>1 DEF SentOnce, Untouched
<1>4. EndsAsItsKind(d)'
    BY <1>1 DEF EndsAsItsKind, Untouched
<1>5. QED
    BY <1>2, <1>3, <1>4

\* The steps of run() keep what CallInv says of their own call.
LEMMA RunStepKeepsCallInv ==
    ASSUME TypeOK, CallInv, NEW c \in Calls, RunStep(c) \/ ConnectionLost(c)
    PROVE  CallInv'
<1> USE DEF TypeOK, Untouched, ToldWhenDelivered, SentOnce, EndsAsItsKind, AsyncCalls
<1>a. ToldWhenDelivered(c) /\ SentOnce(c) /\ EndsAsItsKind(c)
    BY DEF CallInv
<1>1. CASE OpenConnection(c) \/ SetCookies(c) \/ Send(c) \/ ReadReply(c)
    <2>1. \A d \in Calls \ {c} : Untouched(d)
        BY <1>1 DEF OpenConnection, SetCookies, Send, ReadReply
    <2>2. ToldWhenDelivered(c)' /\ SentOnce(c)' /\ EndsAsItsKind(c)'
        BY <1>1, <1>a DEF OpenConnection, SetCookies, Send, ReadReply
    <2>3. QED
        BY <2>1, <2>2, OneCallAtATime
<1>2. CASE OpenFails(c) \/ SendFails(c) \/ ReadFails(c) \/ TimesOut(c) \/ ConnectionLost(c)
    <2> USE DEF OpenFails, SendFails, ReadFails, TimesOut, ConnectionLost, Fail, LeaveTry
    <2>1. \A d \in Calls \ {c} : Untouched(d)
        BY <1>2
    <2>2. ToldWhenDelivered(c)' /\ SentOnce(c)' /\ EndsAsItsKind(c)'
        BY <1>2, <1>a
    <2>3. QED
        BY <2>1, <2>2, OneCallAtATime
<1>3. CASE SetCookiesThrows(c) \/ StoreCookiesThrows(c) \/ CallbackThrows(c)
    <2> USE DEF SetCookiesThrows, StoreCookiesThrows, CallbackThrows, Escape, LeaveTry
    <2>1. \A d \in Calls \ {c} : Untouched(d)
        BY <1>3
    <2>2. ToldWhenDelivered(c)' /\ SentOnce(c)' /\ EndsAsItsKind(c)'
        BY <1>3, <1>a
    <2>3. QED
        BY <2>1, <2>2, OneCallAtATime
<1>4. CASE StoreCookies(c) \/ CallbackReturns(c) \/ Return(c)
    <2> USE DEF StoreCookies, CallbackReturns, Return, LeaveTry
    <2>1. \A d \in Calls \ {c} : Untouched(d)
        BY <1>4
    <2>2. ToldWhenDelivered(c)' /\ SentOnce(c)' /\ EndsAsItsKind(c)'
        BY <1>4, <1>a
    <2>3. QED
        BY <2>1, <2>2, OneCallAtATime
<1>5. CASE Deliver(c) \/ OnError(c)
    <2> USE DEF Deliver, OnError, Notify
    <2>1. \A d \in Calls \ {c} : Untouched(d)
        BY <1>5
    <2>2. Deliver(c) => /\ reply[c] \in Reply
                        /\ wire[c] = "answered"
                        /\ Verdict(reply[c]) = "success" => reply[c].body = "value"
        BY <1>a DEF Reply, Verdict
    <2>3. ToldWhenDelivered(c)' /\ SentOnce(c)' /\ EndsAsItsKind(c)'
        BY <1>5, <1>a, <2>2 DEF Verdict
    <2>4. QED
        BY <2>1, <2>3, OneCallAtATime
<1>6. QED
    BY <1>1, <1>2, <1>3, <1>4, <1>5 DEF RunStep

\* The steps that are not of run() keep what is known of the calls.
LEMMA OtherStepsKeepCallInv ==
    ASSUME TypeOK, CallInv, NEW c \in Calls,
           \/ Server(c)
           \/ \E t \in Threads : Invoke(t, c)
           \/ \E w \in Workers : StartTask(w, c)
    PROVE  CallInv'
<1> USE DEF TypeOK, Untouched, ToldWhenDelivered, SentOnce, EndsAsItsKind, AsyncCalls
<1>a. ToldWhenDelivered(c) /\ SentOnce(c) /\ EndsAsItsKind(c)
    BY DEF CallInv
<1>1. CASE Server(c)
    <2> USE DEF Server, ServerExecutes, ServerRefuses, ExecutedReplies, OtherReplies
    <2>1. \A d \in Calls \ {c} : Untouched(d)
        BY <1>1
    <2>2. ToldWhenDelivered(c)' /\ EndsAsItsKind(c)'
        BY <1>1, <1>a
    <2>3. SentOnce(c)'
        BY <1>1, <1>a DEF Reply
    <2>4. QED
        BY <2>1, <2>2, <2>3, OneCallAtATime
<1>2. ASSUME NEW t \in Threads, Invoke(t, c)
      PROVE  CallInv'
    <2> USE DEF Invoke, InvokeRefused, InvokeSync, InvokeAsync
    <2>1. \A d \in Calls \ {c} : Untouched(d)
        BY <1>2
    <2>2. ToldWhenDelivered(c)' /\ SentOnce(c)' /\ EndsAsItsKind(c)'
        BY <1>2, <1>a
    <2>3. QED
        BY <2>1, <2>2, OneCallAtATime
<1>3. ASSUME NEW w \in Workers, StartTask(w, c)
      PROVE  CallInv'
    <2>1. \A d \in Calls \ {c} : Untouched(d)
        BY <1>3 DEF StartTask
    <2>2. ToldWhenDelivered(c)' /\ SentOnce(c)' /\ EndsAsItsKind(c)'
        BY <1>3, <1>a DEF StartTask
    <2>3. QED
        BY <2>1, <2>2, OneCallAtATime
<1>4. QED
    BY <1>1, <1>2, <1>3

\* For each call, its phase agrees with its request, its answer and its callback.
THEOREM CallsInvariant == Spec => []CallInv
<1>1. Init => CallInv
    BY DEF Init, CallInv, ToldWhenDelivered, SentOnce, EndsAsItsKind, AsyncCalls
<1>2. TypeOK /\ CallInv /\ [Next]_vars => CallInv'
    <2> SUFFICES ASSUME TypeOK, CallInv, [Next]_vars
                 PROVE  CallInv'
        OBVIOUS
    <2>1. CASE UNCHANGED vars
        BY <2>1 DEF vars, CallInv, ToldWhenDelivered, SentOnce, EndsAsItsKind
    <2>2. QED
        BY <2>1, RunStepKeepsCallInv, OtherStepsKeepCallInv DEF Next, Finished
<1>3. QED
    BY <1>1, <1>2, TypeCorrect, PTL DEF Spec

--------------------------------------------------------------------------------
\* The callback of a call is invoked once at most.
THEOREM AtMostOnce == Spec => []NotifiedAtMostOnce
<1>1. CallInv => NotifiedAtMostOnce
    BY DEF CallInv, ToldWhenDelivered, NotifiedAtMostOnce
<1>2. QED
    BY <1>1, CallsInvariant, PTL

\* A synchronous invocation never returns a value the server did not answer.
THEOREM SyncReturnsAreGenuine == Spec => []SyncReturnGenuine
<1>1. CallInv => SyncReturnGenuine
    BY CallsAssumption
       DEF CallInv, ToldWhenDelivered, SentOnce, EndsAsItsKind, SyncReturnGenuine
<1>2. QED
    BY <1>1, CallsInvariant, PTL

\* A success is told only of a call the server ran, once.
THEOREM SuccessesWereExecuted == Spec => []SuccessWasExecuted
<1>1. CallInv => SuccessWasExecuted
    BY DEF CallInv, ToldWhenDelivered, SentOnce, SuccessWasExecuted
<1>2. QED
    BY <1>1, CallsInvariant, PTL

\* No asynchronous call disappears on a handled exception.
THEOREM EndsAreAccounted == Spec => []EveryEndAccounted
<1>1. CallInv => EveryEndAccounted
    BY DEF CallInv, ToldWhenDelivered, EndsAsItsKind, EveryEndAccounted, AsyncCalls
<1>2. QED
    BY <1>1, CallsInvariant, PTL

\* Every way out of run() releases the connection before the callback is invoked.
THEOREM ConnectionsReleased == Spec => []ConnectionReleased
<1> USE DEF ConnectionReleased
<1>1. Init => ConnectionReleased
    BY DEF Init
<1>2. TypeOK /\ ConnectionReleased /\ [Next]_vars => ConnectionReleased'
    <2> SUFFICES ASSUME TypeOK, ConnectionReleased, [Next]_vars
                 PROVE  ConnectionReleased'
        OBVIOUS
    <2> USE DEF TypeOK
    <2>1. CASE UNCHANGED vars
        BY <2>1 DEF vars
    <2>2. ASSUME NEW c \in Calls, RunStep(c) \/ ConnectionLost(c)
          PROVE  ConnectionReleased'
        <3>1. CASE OpenConnection(c) \/ SetCookies(c) \/ Send(c) \/ ReadReply(c)
            BY <3>1 DEF OpenConnection, SetCookies, Send, ReadReply
        <3>2. CASE OpenFails(c) \/ SendFails(c) \/ ReadFails(c) \/ TimesOut(c)
                   \/ ConnectionLost(c)
            BY <3>2 DEF OpenFails, SendFails, ReadFails, TimesOut, ConnectionLost, Fail,
                        LeaveTry
        <3>3. CASE SetCookiesThrows(c) \/ StoreCookiesThrows(c) \/ CallbackThrows(c)
            BY <3>3 DEF SetCookiesThrows, StoreCookiesThrows, CallbackThrows, Escape,
                        LeaveTry
        <3>4. CASE StoreCookies(c) \/ CallbackReturns(c) \/ Return(c)
            BY <3>4 DEF StoreCookies, CallbackReturns, Return, LeaveTry
        <3>5. CASE Deliver(c) \/ OnError(c)
            BY <3>5 DEF Deliver, OnError, Notify
        <3>6. QED
            BY <2>2, <3>1, <3>2, <3>3, <3>4, <3>5 DEF RunStep
    <2>3. ASSUME NEW c \in Calls, Server(c)
          PROVE  ConnectionReleased'
        BY <2>3 DEF Server, ServerExecutes, ServerRefuses
    <2>4. ASSUME NEW c \in Calls, NEW t \in Threads, Invoke(t, c)
          PROVE  ConnectionReleased'
        BY <2>4 DEF Invoke, InvokeRefused, InvokeSync, InvokeAsync
    <2>5. ASSUME NEW c \in Calls, NEW w \in Workers, StartTask(w, c)
          PROVE  ConnectionReleased'
        BY <2>5 DEF StartTask
    <2>6. QED
        BY <2>1, <2>2, <2>3, <2>4, <2>5 DEF Next, Finished
<1>3. QED
    BY <1>1, <1>2, TypeCorrect, PTL DEF Spec

--------------------------------------------------------------------------------
\* No step but the start of a call puts a thread to work: any other step of a call
\* keeps the threads and leaves the running phases or stays in them.
SameThreads(c) ==
    /\ runner' = runner
    /\ issuer' = issuer
    /\ \A d \in Calls \ {c} : pc'[d] = pc[d]
    /\ pc'[c] \in Running => pc[c] \in Running

\* What a call does after its start moves no call to another thread.
LEMMA StepsKeepThreads ==
    ASSUME TypeOK, NEW c \in Calls, RunStep(c) \/ ConnectionLost(c) \/ Server(c)
    PROVE  SameThreads(c)
<1> USE DEF TypeOK, SameThreads, Running
<1>1. CASE OpenConnection(c) \/ SetCookies(c) \/ Send(c) \/ ReadReply(c)
    BY <1>1 DEF OpenConnection, SetCookies, Send, ReadReply
<1>2. CASE OpenFails(c) \/ SendFails(c) \/ ReadFails(c) \/ TimesOut(c) \/ ConnectionLost(c)
    BY <1>2 DEF OpenFails, SendFails, ReadFails, TimesOut, ConnectionLost, Fail, LeaveTry
<1>3. CASE SetCookiesThrows(c) \/ StoreCookiesThrows(c) \/ CallbackThrows(c)
    BY <1>3 DEF SetCookiesThrows, StoreCookiesThrows, CallbackThrows, Escape, LeaveTry
<1>4. CASE StoreCookies(c) \/ CallbackReturns(c) \/ Return(c)
    BY <1>4 DEF StoreCookies, CallbackReturns, Return, LeaveTry
<1>5. CASE Deliver(c) \/ OnError(c)
    BY <1>5 DEF Deliver, OnError, Notify
<1>6. CASE Server(c)
    BY <1>6 DEF Server, ServerExecutes, ServerRefuses
<1>7. QED
    BY <1>1, <1>2, <1>3, <1>4, <1>5, <1>6 DEF RunStep

\* A thread executes one call at a time, and a synchronous call runs on its issuer.
THEOREM ThreadsInvariant == Spec => []ThreadInv
<1>1. Init => ThreadInv
    BY CallsAssumption DEF Init, ThreadInv, Running
<1>2. TypeOK /\ CallInv /\ ThreadInv /\ [Next]_vars => ThreadInv'
    <2> SUFFICES ASSUME TypeOK, CallInv, ThreadInv, [Next]_vars
                 PROVE  ThreadInv'
        OBVIOUS
    <2> USE CallsAssumption DEF TypeOK, ThreadInv
    <2>1. CASE UNCHANGED vars
        BY <2>1 DEF vars
    <2>2. ASSUME NEW c \in Calls, RunStep(c) \/ ConnectionLost(c) \/ Server(c)
          PROVE  ThreadInv'
        <3>1. SameThreads(c)
            BY <2>2, StepsKeepThreads
        <3>2. \A d \in Calls : pc'[d] \in Running => pc[d] \in Running
            BY <3>1 DEF SameThreads
        <3>3. QED
            BY <3>1, <3>2 DEF SameThreads
    <2>3. ASSUME NEW c \in Calls, NEW t \in Threads, Invoke(t, c)
          PROVE  ThreadInv'
        <3>1. CASE InvokeSync(t, c)
            BY <3>1 DEF InvokeSync, MayInvoke, Unoccupied
        <3>2. CASE InvokeAsync(t, c) \/ \E how \in {"unencodable", "threw"} :
                                            InvokeRefused(t, c, how)
            <4>1. pc'[c] \notin Running
                BY <3>2 DEF InvokeAsync, InvokeRefused, Running
            <4>2. runner' = runner
                BY <3>2 DEF InvokeAsync, InvokeRefused
            <4>3. \A d \in Calls \ {c} : pc'[d] = pc[d] /\ issuer'[d] = issuer[d]
                BY <3>2 DEF InvokeAsync, InvokeRefused
            <4>4. \A d \in Calls : pc'[d] \in Running => d # c
                BY <4>1
            <4>5. QED
                BY <4>2, <4>3, <4>4
        <3>3. QED
            BY <2>3, <3>1, <3>2 DEF Invoke
    <2>4. ASSUME NEW c \in Calls, NEW w \in Workers, StartTask(w, c)
          PROVE  ThreadInv'
        <3>1. c \notin SyncCalls
            BY <2>4 DEF StartTask, CallInv, EndsAsItsKind
        <3>2. QED
            BY <2>4, <3>1 DEF StartTask, Unoccupied
    <2>5. QED
        BY <2>1, <2>2, <2>3, <2>4 DEF Next, Finished
<1>3. QED
    BY <1>1, <1>2, TypeCorrect, CallsInvariant, PTL DEF Spec

\* Two synchronous calls never use one cookie manager at the same time.
THEOREM SyncCallsHaveTheirManager == Spec => []SyncManagersSerial
<1>1. ThreadInv => SyncManagersSerial
    BY CallsAssumption DEF ThreadInv, SyncManagersSerial, Running
<1>2. QED
    BY <1>1, ThreadsInvariant, PTL

--------------------------------------------------------------------------------
\* How one step of call c looks through the refinement mapping.
StatusOf == [c \in Calls |-> Status(c)]
OthersKeepStatus(c) == \A d \in Calls \ {c} : Status(d)' = Status(d)
StatusStep(c) == StatusOf' = [StatusOf EXCEPT ![c] = Status(c)']

\* A step that keeps the status of the other calls changes the status of one call only.
LEMMA StatusChangesAlone ==
    ASSUME NEW c \in Calls, OthersKeepStatus(c)
    PROVE  StatusStep(c)
BY DEF OthersKeepStatus, StatusStep, StatusOf

\* A call that a step does not touch keeps its status.
LEMMA UntouchedKeepStatus ==
    ASSUME NEW c \in Calls, \A d \in Calls \ {c} : Untouched(d)
    PROVE  OthersKeepStatus(c)
BY DEF OthersKeepStatus, Untouched, Status

\* A step of run() keeps the status of its call, or settles a pending call, with a
\* success only if the server ran it.
LEMMA RunStepSettles ==
    ASSUME TypeOK, CallInv, NEW c \in Calls, RunStep(c) \/ ConnectionLost(c)
    PROVE  /\ executions' = executions
           /\ OthersKeepStatus(c)
           /\ \/ Status(c)' = Status(c)
              \/ /\ Status(c) = "pending"
                 /\ Status(c)' \in {"success", "failure", "escaped"}
                 /\ Status(c)' = "success" => executions[c] = 1
<1> USE DEF TypeOK
<1>a. ToldWhenDelivered(c) /\ SentOnce(c)
    BY DEF CallInv
<1>1. CASE OpenConnection(c) \/ SetCookies(c) \/ Send(c) \/ ReadReply(c)
    <2> USE DEF OpenConnection, SetCookies, Send, ReadReply
    <2>1. \A d \in Calls \ {c} : Untouched(d)
        BY <1>1 DEF Untouched
    <2>2. Status(c)' = Status(c) /\ executions' = executions
        BY <1>1 DEF Status
    <2>3. QED
        BY <2>1, <2>2, UntouchedKeepStatus
<1>2. CASE OpenFails(c) \/ SendFails(c) \/ ReadFails(c) \/ TimesOut(c) \/ ConnectionLost(c)
    <2> USE DEF OpenFails, SendFails, ReadFails, TimesOut, ConnectionLost, Fail, LeaveTry
    <2>1. \A d \in Calls \ {c} : Untouched(d)
        BY <1>2 DEF Untouched
    <2>2. Status(c)' = Status(c) /\ executions' = executions
        BY <1>2 DEF Status
    <2>3. QED
        BY <2>1, <2>2, UntouchedKeepStatus
<1>3. CASE SetCookiesThrows(c) \/ StoreCookiesThrows(c)
    <2> USE DEF SetCookiesThrows, StoreCookiesThrows, Escape, LeaveTry
    <2>1. \A d \in Calls \ {c} : Untouched(d)
        BY <1>3 DEF Untouched
    <2>2. Status(c) = "pending" /\ Status(c)' = "escaped" /\ executions' = executions
        BY <1>3, <1>a DEF Status, ToldWhenDelivered
    <2>3. QED
        BY <2>1, <2>2, UntouchedKeepStatus
<1>4. CASE StoreCookies(c) \/ CallbackReturns(c) \/ Return(c) \/ CallbackThrows(c)
    <2> USE DEF StoreCookies, CallbackReturns, Return, CallbackThrows, Escape, LeaveTry
    <2>1. \A d \in Calls \ {c} : Untouched(d)
        BY <1>4 DEF Untouched
    <2>2. Status(c)' = Status(c) /\ executions' = executions
        BY <1>4, <1>a DEF Status, ToldWhenDelivered
    <2>3. QED
        BY <2>1, <2>2, UntouchedKeepStatus
<1>5. CASE Deliver(c) \/ OnError(c)
    <2> USE DEF Deliver, OnError, Notify
    <2>1. \A d \in Calls \ {c} : Untouched(d)
        BY <1>5 DEF Untouched
    <2>2. Status(c) = "pending" /\ executions' = executions
        BY <1>5, <1>a DEF Status, ToldWhenDelivered
    <2>3. Status(c)' \in {"success", "failure"}
        BY <1>5 DEF Status, Verdict
    <2>4. Deliver(c) /\ Verdict(reply[c]) = "success" => executions[c] = 1
        BY <1>a DEF SentOnce, Verdict, Reply
    <2>5. Status(c)' = "success" => Deliver(c) /\ Verdict(reply[c]) = "success"
        BY <1>5 DEF Status
    <2>6. QED
        BY <2>1, <2>2, <2>3, <2>4, <2>5, UntouchedKeepStatus
<1>6. QED
    BY <1>1, <1>2, <1>3, <1>4, <1>5 DEF RunStep

\* The client, its threads and its failures implement the contract of a remote call:
\* the initial state maps to an initial state, each step to a step or a stutter.
THEOREM ImplementsContract == Spec => RefinesContract
<1> USE DEF StatusOf
<1>1. Init => Contract!ContractInit
    BY DEF Init, Contract!ContractInit, Status
<1>2. TypeOK /\ CallInv /\ [Next]_vars => [Contract!ContractNext]_(Contract!contractVars)
    <2> SUFFICES ASSUME TypeOK, CallInv, [Next]_vars
                 PROVE  Contract!ContractNext \/ UNCHANGED Contract!contractVars
        OBVIOUS
    <2> USE DEF Contract!contractVars
    <2>1. CASE UNCHANGED vars
        BY <2>1 DEF vars, Status
    <2>2. ASSUME NEW c \in Calls, RunStep(c) \/ ConnectionLost(c)
          PROVE  Contract!ContractNext \/ UNCHANGED Contract!contractVars
        <3>1. StatusStep(c) /\ executions' = executions
            BY <2>2, RunStepSettles, StatusChangesAlone
        <3>2. CASE Status(c)' = Status(c)
            BY <3>1, <3>2 DEF StatusStep
        <3>3. ASSUME Status(c) = "pending",
                     Status(c)' \in {"success", "failure", "escaped"},
                     Status(c)' = "success" => executions[c] = 1
              PROVE  Contract!ContractNext
            <4>1. Contract!Settle(c, Status(c)')
                BY <3>1, <3>3 DEF Contract!Settle, StatusStep
            <4>2. QED
                BY <3>3, <4>1 DEF Contract!ContractNext, Contract!Settled
        <3>4. QED
            BY <2>2, <3>2, <3>3, RunStepSettles
    <2>3. ASSUME NEW c \in Calls, Server(c)
          PROVE  Contract!ContractNext \/ UNCHANGED Contract!contractVars
        <3> USE DEF Server, ServerExecutes, ServerRefuses, TypeOK
        <3>1. \A d \in Calls : Status(d)' = Status(d)
            BY <2>3 DEF Status
        <3>2. CASE ServerExecutes(c)
            <4>1. pc[c] # "idle" /\ executions[c] = 0
                BY <3>2 DEF CallInv, SentOnce
            <4>2. seen[c] \in {"nothing", "success", "failure"}
                OBVIOUS
            <4>3. Status(c) # "unissued"
                BY <4>1, <4>2 DEF Status
            <4>4. executions' = [executions EXCEPT ![c] = 1]
                BY <3>2, <4>1
            <4>5. Contract!Execute(c)
                BY <3>1, <4>1, <4>3, <4>4 DEF Contract!Execute
            <4>6. QED
                BY <4>5 DEF Contract!ContractNext
        <3>3. CASE ServerRefuses(c)
            BY <3>1, <3>3
        <3>4. QED
            BY <2>3, <3>2, <3>3
    <2>4. ASSUME NEW c \in Calls, NEW t \in Threads, Invoke(t, c)
          PROVE  Contract!ContractNext
        <3> USE DEF Invoke, InvokeRefused, InvokeSync, InvokeAsync, TypeOK
        <3>1. StatusStep(c)
            BY <2>4, UntouchedKeepStatus, StatusChangesAlone DEF Untouched
        <3>2. Status(c) = "unissued" /\ executions' = executions
            BY <2>4 DEF Status, CallInv, ToldWhenDelivered
        <3>3. Status(c)' \in {"pending", "escaped"}
            BY <2>4 DEF Status, CallInv, ToldWhenDelivered
        <3>4. Contract!Issue(c) \/ Contract!Refuse(c)
            BY <3>1, <3>2, <3>3 DEF Contract!Issue, Contract!Refuse, StatusStep
        <3>5. QED
            BY <3>4 DEF Contract!ContractNext
    <2>5. ASSUME NEW c \in Calls, NEW w \in Workers, StartTask(w, c)
          PROVE  UNCHANGED Contract!contractVars
        <3>1. \A d \in Calls : Status(d)' = Status(d)
            BY <2>5 DEF StartTask, Status, TypeOK
        <3>2. QED
            BY <2>5, <3>1 DEF StartTask
    <2>6. QED
        BY <2>1, <2>2, <2>3, <2>4, <2>5 DEF Next, Finished
<1>3. QED
    BY <1>1, <1>2, TypeCorrect, CallsInvariant, PTL
       DEF Spec, RefinesContract, Contract!ContractSpec

--------------------------------------------------------------------------------
(* Texts that are joined of parts *)

\* A set of natural numbers has a least element.
LEMMA NatMin ==
    ASSUME NEW T, T \subseteq Nat, T # {}
    PROVE  \E x \in T : \A y \in T : x <= y
<1> DEFINE R == OpToRel(<, Nat)
<1>1. IsWellFoundedOn(R, Nat)
    BY NatLessThanWellFounded
<1>2. \A x, y \in Nat : y < x => <<y, x>> \in R
    BY DEF OpToRel
<1> HIDE DEF R
<1>3. PICK x \in T : \A y \in T : ~(<<y, x>> \in R)
    BY <1>1, WFMin
<1> SUFFICES ASSUME NEW y \in T PROVE x <= y
    OBVIOUS
<1>4. x \in Nat /\ y \in Nat
    OBVIOUS
<1>5. ~(y < x)
    BY <1>2, <1>3, <1>4
<1> QED BY <1>4, <1>5

\* The texts that FlattenSeq goes through: the first n parts, one after the other.
Joined(parts, f) ==
    f = [n \in 1 .. Len(parts) |-> IF n = 1 THEN parts[n] ELSE f[n - 1] \o parts[n]]

\* FlattenSeq ends a run of texts, each of which is the one before it and one part more.
LEMMA FlattenSeqIsReached ==
    ASSUME NEW parts, Len(parts) \in Nat, Len(parts) # 0
    PROVE  \E f : Joined(parts, f) /\ FlattenSeq(parts) = f[Len(parts)]
<1> DEFINE Rec(f, N) == f = [n \in 1 .. N |-> IF n = 1 THEN parts[n] ELSE f[n - 1] \o parts[n]]
           Without1 == {N \in Nat : N # 0 /\ ~\E f : Rec(f, N)}
<1>1. Without1 = {}
  <2> SUFFICES ASSUME Without1 # {} PROVE FALSE
      OBVIOUS
  <2>1. Without1 \subseteq Nat
      OBVIOUS
  <2> HIDE DEF Without1
  <2>2. PICK N \in Without1 : \A M \in Without1 : N <= M
      BY <2>1, NatMin
  <2> USE DEF Without1
  <2>3. N \in Nat /\ N # 0 /\ ~\E f : Rec(f, N)
      OBVIOUS
  <2>4. N # 1
    <3> SUFFICES ASSUME N = 1 PROVE FALSE
        OBVIOUS
    <3> DEFINE f == [n \in 1 .. 1 |-> parts[n]]
    <3>1. Rec(f, 1)
      <4>1. \A n \in 1 .. 1 : n = 1
          OBVIOUS
      <4>2. f = [n \in 1 .. 1 |-> IF n = 1 THEN parts[n] ELSE f[n - 1] \o parts[n]]
          BY <4>1, Zenon
      <4> QED BY <4>2
    <3> HIDE DEF f, Rec
    <3> QED BY <2>3, <3>1
  <2>5. N - 1 \in Nat /\ N - 1 # 0 /\ N - 1 \notin Without1
    <3> HIDE DEF Without1
    <3> QED BY <2>2, <2>3, <2>4
  <2>6. PICK f : Rec(f, N - 1)
      BY <2>5
  <2> DEFINE g == [n \in 1 .. N |-> IF n = 1 THEN parts[n] ELSE f[n - 1] \o parts[n]]
  <2>7. \A n \in 1 .. N - 1 : g[n] = f[n]
    <3>1. \A n \in 1 .. N - 1 : n \in 1 .. N
        BY <2>3
    <3>2. \A n \in 1 .. N - 1 : f[n] = IF n = 1 THEN parts[n] ELSE f[n - 1] \o parts[n]
        BY <2>6
    <3> QED BY <3>1, <3>2
  <2>8. \A n \in 1 .. N : n # 1 => g[n - 1] = f[n - 1]
    <3>1. \A n \in 1 .. N : n # 1 => n - 1 \in 1 .. N - 1
        BY <2>3
    <3> HIDE DEF g
    <3> QED BY <2>7, <3>1
  <2>9. \A n \in 1 .. N : (IF n = 1 THEN parts[n] ELSE f[n - 1] \o parts[n])
                          = (IF n = 1 THEN parts[n] ELSE g[n - 1] \o parts[n])
    <3> HIDE DEF g
    <3> QED BY <2>8, Zenon
  <2>10. Rec(g, N)
    <3> DEFINE a(n) == IF n = 1 THEN parts[n] ELSE f[n - 1] \o parts[n]
               b(n) == IF n = 1 THEN parts[n] ELSE g[n - 1] \o parts[n]
    <3>1. g = [n \in 1 .. N |-> a(n)] /\ \A n \in 1 .. N : a(n) = b(n)
        BY <2>9
    <3> HIDE DEF g, a
    <3>2. g = [n \in 1 .. N |-> b(n)]
        BY <3>1
    <3> QED BY <3>2
  <2> HIDE DEF g, Rec
  <2> QED BY <2>3, <2>10
<1>2. \E f : Rec(f, Len(parts))
    BY <1>1
<1> DEFINE f == CHOOSE f : Rec(f, Len(parts))
<1>3. Rec(f, Len(parts))
  <2> HIDE DEF Rec
  <2> QED BY <1>2
<1>4. FlattenSeq(parts) = f[Len(parts)]
    BY DEF FlattenSeq
<1>5. Joined(parts, f)
    BY <1>3 DEF Joined
<1> HIDE DEF f, Rec
<1> QED BY <1>4, <1>5

\* Texts of characters
Texts == Seq(Characters)

\* Where the parts of a joined text lie: part n is at the positions off[n - 1] + 1 .. off[n].
Laid(parts, off) ==
    /\ off \in [0 .. Len(parts) -> Nat] /\ off[0] = 0
    /\ \A n \in 1 .. Len(parts) : off[n] = off[n - 1] + Len(parts[n])
    /\ FlattenSeq(parts) \in Texts /\ Len(FlattenSeq(parts)) = off[Len(parts)]
    /\ \A n \in 1 .. Len(parts) : \A p \in 1 .. Len(parts[n]) :
          /\ off[n - 1] + p \in 1 .. Len(FlattenSeq(parts))
          /\ FlattenSeq(parts)[off[n - 1] + p] = parts[n][p]
    /\ \A m, n \in 0 .. Len(parts) : m <= n => off[m] <= off[n]
    /\ \A q \in 1 .. Len(FlattenSeq(parts)) : \E n \in 1 .. Len(parts) :
          \E p \in 1 .. Len(parts[n]) : q = off[n - 1] + p

\* Two texts joined hold the one and then the other.
LEMMA ConcatText ==
    ASSUME NEW s \in Texts, NEW t \in Texts
    PROVE  /\ s \o t \in Texts /\ Len(s \o t) = Len(s) + Len(t)
           /\ Len(s) \in Nat /\ Len(t) \in Nat
           /\ \A q \in 1 .. Len(s) : (s \o t)[q] = s[q]
           /\ \A q \in 1 .. Len(t) : (s \o t)[Len(s) + q] = t[q]
<1> USE DEF Texts
<1>1. s \o t \in Texts /\ Len(s \o t) = Len(s) + Len(t)
    BY ConcatProperties
<1>2. Len(s) \in Nat /\ Len(t) \in Nat
    OBVIOUS
<1>3. ASSUME NEW q \in 1 .. Len(s) PROVE (s \o t)[q] = s[q]
    OBVIOUS
<1>4. ASSUME NEW q \in 1 .. Len(t) PROVE (s \o t)[Len(s) + q] = t[q]
    OBVIOUS
<1> QED BY <1>1, <1>2, <1>3, <1>4

\* The run of texts of FlattenSeq: each holds the parts before it, where they lie.
LEMMA JoinedHolds ==
    ASSUME NEW parts \in Seq(Texts), Len(parts) # 0, NEW f, Joined(parts, f),
           NEW off, off[0] = 0, \A n \in 1 .. Len(parts) : off[n] = Len(f[n])
    PROVE  \A n \in 1 .. Len(parts) :
             /\ f[n] \in Texts /\ off[n] = off[n - 1] + Len(parts[n])
             /\ \A k \in 1 .. n : \A p \in 1 .. Len(parts[k]) :
                  /\ off[k - 1] + p \in 1 .. Len(f[n])
                  /\ f[n][off[k - 1] + p] = parts[k][p]
<1> DEFINE Holds(n) == /\ f[n] \in Texts /\ off[n] = off[n - 1] + Len(parts[n])
                       /\ \A k \in 1 .. n : \A p \in 1 .. Len(parts[k]) :
                            /\ off[k - 1] + p \in 1 .. Len(f[n])
                            /\ f[n][off[k - 1] + p] = parts[k][p]
           Bad == {n \in 1 .. Len(parts) : ~Holds(n)}
<1>1. \A n \in 1 .. Len(parts) : f[n] = IF n = 1 THEN parts[n] ELSE f[n - 1] \o parts[n]
    BY DEF Joined
<1>2. /\ Len(parts) \in Nat /\ \A n \in 1 .. Len(parts) : parts[n] \in Texts
      /\ \A s \in Texts : Len(s) \in Nat
      /\ off[0] = 0 /\ \A n \in 1 .. Len(parts) : off[n] = Len(f[n])
  <2>1. Len(parts) \in Nat /\ \A n \in 1 .. Len(parts) : parts[n] \in Texts
      OBVIOUS
  <2>2. \A s \in Texts : Len(s) \in Nat
      BY DEF Texts
  <2> QED BY <2>1, <2>2
<1>3. Bad = {}
  <2> SUFFICES ASSUME Bad # {} PROVE FALSE
      OBVIOUS
  <2>1. Bad \subseteq Nat
      OBVIOUS
  <2> HIDE DEF Bad
  <2>2. PICK n \in Bad : \A m \in Bad : n <= m
      BY <2>1, NatMin
  <2>3. n \in 1 .. Len(parts) /\ ~Holds(n)
      BY DEF Bad
  <2>4. CASE n = 1
    <3>1. f[1] = parts[1] /\ off[0] = 0 /\ off[1] = Len(parts[1]) /\ parts[1] \in Texts
        BY <1>1, <1>2, <2>3, <2>4
    <3>2. \A k \in 1 .. 1 : k = 1
        OBVIOUS
    <3>3. Holds(1)
      <4>1. f[1] \in Texts /\ off[1] = off[1 - 1] + Len(parts[1])
          BY <1>2, <3>1
      <4>2. ASSUME NEW k \in 1 .. 1, NEW p \in 1 .. Len(parts[k])
            PROVE  off[k - 1] + p \in 1 .. Len(f[1]) /\ f[1][off[k - 1] + p] = parts[k][p]
        <5>1. k = 1 /\ k - 1 = 0 /\ 0 + p = p
            BY <3>2, <3>1, <1>2
        <5> QED BY <5>1, <3>1
      <4> QED BY <4>1, <4>2
    <3> QED BY <2>3, <2>4, <3>3
  <2>5. CASE n # 1
    <3>1. n - 1 \in 1 .. Len(parts) /\ n - 1 \notin Bad /\ n - 1 \in Nat
      <4>1. n - 1 \in 1 .. Len(parts) /\ ~(n <= n - 1) /\ n - 1 \in Nat
          BY <2>3, <2>5, <1>2
      <4> QED BY <4>1, <2>2
    <3>2. Holds(n - 1)
        BY <3>1 DEF Bad
    <3>3. f[n] = f[n - 1] \o parts[n] /\ f[n - 1] \in Texts /\ parts[n] \in Texts
        BY <1>1, <1>2, <2>3, <2>5, <3>2
    <3>4. /\ f[n] \in Texts /\ Len(f[n]) = Len(f[n - 1]) + Len(parts[n])
          /\ \A q \in 1 .. Len(f[n - 1]) : f[n][q] = f[n - 1][q]
          /\ \A q \in 1 .. Len(parts[n]) : f[n][Len(f[n - 1]) + q] = parts[n][q]
      <4> DEFINE s == f[n - 1]
                 t == parts[n]
      <4>1. s \in Texts /\ t \in Texts /\ f[n] = s \o t
          BY <3>3
      <4> HIDE DEF s, t
      <4>2. /\ f[n] \in Texts /\ Len(f[n]) = Len(s) + Len(t)
            /\ \A q \in 1 .. Len(s) : f[n][q] = s[q]
            /\ \A q \in 1 .. Len(t) : f[n][Len(s) + q] = t[q]
          BY <4>1, ConcatText
      <4> QED BY <4>2 DEF s, t
    <3>5. off[n] = Len(f[n]) /\ off[n - 1] = Len(f[n - 1])
        BY <1>2, <2>3, <3>1
    <3>6. Len(f[n - 1]) \in Nat /\ Len(parts[n]) \in Nat
        BY <1>2, <3>3
    <3>9. /\ \A q \in 1 .. Len(f[n - 1]) : q \in 1 .. Len(f[n])
          /\ \A q \in 1 .. Len(parts[n]) : Len(f[n - 1]) + q \in 1 .. Len(f[n])
      <4> DEFINE a == Len(f[n - 1])
                 b == Len(parts[n])
                 c == Len(f[n])
      <4>1. a \in Nat /\ b \in Nat /\ c = a + b
          BY <3>4, <3>6
      <4> HIDE DEF a, b, c
      <4>2. /\ \A q \in 1 .. a : q \in 1 .. c
            /\ \A q \in 1 .. b : a + q \in 1 .. c
          BY <4>1
      <4> QED BY <4>2 DEF a, b, c
    <3>7. ASSUME NEW k \in 1 .. n, NEW p \in 1 .. Len(parts[k])
          PROVE  off[k - 1] + p \in 1 .. Len(f[n]) /\ f[n][off[k - 1] + p] = parts[k][p]
      <4>1. CASE k = n
        <5>1. off[k - 1] = Len(f[n - 1]) /\ parts[k] = parts[n]
            BY <4>1, <3>5
        <5>2. p \in 1 .. Len(parts[n])
            BY <5>1
        <5>3. Len(f[n - 1]) + p \in 1 .. Len(f[n])
            BY <5>2, <3>9
        <5>4. f[n][Len(f[n - 1]) + p] = parts[n][p]
            BY <5>2, <3>4
        <5> QED BY <5>1, <5>3, <5>4
      <4>2. CASE k # n
        <5>1. k \in 1 .. n - 1
            BY <4>2, <2>3, <1>2
        <5>2. off[k - 1] + p \in 1 .. Len(f[n - 1]) /\ f[n - 1][off[k - 1] + p] = parts[k][p]
            BY <5>1, <3>2
        <5> DEFINE x == off[k - 1] + p
        <5>3. x \in 1 .. Len(f[n - 1]) /\ f[n - 1][x] = parts[k][p]
            BY <5>2
        <5> HIDE DEF x
        <5>4. x \in 1 .. Len(f[n])
            BY <5>3, <3>9
        <5>5. f[n][x] = parts[k][p]
            BY <5>3, <3>4
        <5> QED BY <5>4, <5>5 DEF x
      <4> QED BY <4>1, <4>2
    <3>8. off[n] = off[n - 1] + Len(parts[n])
        BY <3>4, <3>5
    <3> QED BY <2>3, <3>4, <3>7, <3>8
  <2> QED BY <2>4, <2>5
<1> QED BY <1>3

\* Offsets that grow from 0 by lengths grow, and leave no position out.
LEMMA OffsetsGrow ==
    ASSUME NEW L \in Nat, NEW off \in [0 .. L -> Nat], off[0] = 0,
           \A n \in 1 .. L : off[n - 1] <= off[n]
    PROVE  /\ \A m, n \in 0 .. L : m <= n => off[m] <= off[n]
           /\ \A q \in 1 .. off[L] : \E n \in 1 .. L : off[n - 1] < q /\ q <= off[n]
<1>1. ASSUME NEW m \in 0 .. L, NEW n \in 0 .. L, m <= n PROVE off[m] <= off[n]
  <2> DEFINE Bad == {k \in m .. n : ~(off[m] <= off[k])}
  <2>1. Bad = {}
    <3> SUFFICES ASSUME Bad # {} PROVE FALSE
        OBVIOUS
    <3>1. Bad \subseteq Nat
        OBVIOUS
    <3> HIDE DEF Bad
    <3>2. PICK k \in Bad : \A x \in Bad : k <= x
        BY <3>1, NatMin
    <3>3. k \in m .. n /\ ~(off[m] <= off[k]) /\ off[m] \in Nat
        BY DEF Bad
    <3>4. k # m /\ k - 1 \in m .. n /\ ~(k <= k - 1) /\ k \in 1 .. L /\ k - 1 \in 0 .. L
        BY <3>3
    <3>5. off[m] <= off[k - 1]
        BY <3>2, <3>4 DEF Bad
    <3>6. off[k - 1] <= off[k] /\ off[k - 1] \in Nat /\ off[k] \in Nat
        BY <3>4
    <3> QED BY <3>3, <3>5, <3>6
  <2> SUFFICES ASSUME ~(off[m] <= off[n]) PROVE FALSE
      OBVIOUS
  <2>2. n \in m .. n
      BY <1>1
  <2>3. n \in Bad
      BY <2>2
  <2> QED BY <2>1, <2>3
<1>2. ASSUME NEW q \in 1 .. off[L] PROVE \E n \in 1 .. L : off[n - 1] < q /\ q <= off[n]
  <2> DEFINE After == {n \in 0 .. L : q <= off[n]}
  <2>1. After \subseteq Nat /\ L \in After
      OBVIOUS
  <2>2. PICK n \in After : \A x \in After : n <= x
    <3> HIDE DEF After
    <3> QED BY <2>1, NatMin
  <2>3. n \in 1 .. L /\ q <= off[n] /\ n - 1 \in 0 .. L /\ ~(n <= n - 1)
      OBVIOUS
  <2>4. n - 1 \notin After
    <3> HIDE DEF After
    <3> QED BY <2>2, <2>3
  <2>5. off[n - 1] < q
      BY <2>3, <2>4
  <2> QED BY <2>3, <2>5
<1> QED BY <1>1, <1>2

\* The parts of a text lie one after the other in it.
LEMMA FlattenSeqLaid ==
    ASSUME NEW parts \in Seq(Texts)
    PROVE  \E off : Laid(parts, off)
<1>1. /\ Len(parts) \in Nat /\ \A n \in 1 .. Len(parts) : parts[n] \in Texts
      /\ \A s \in Texts : Len(s) \in Nat
  <2>1. Len(parts) \in Nat /\ \A n \in 1 .. Len(parts) : parts[n] \in Texts
      OBVIOUS
  <2>2. \A s \in Texts : Len(s) \in Nat
      BY DEF Texts
  <2> QED BY <2>1, <2>2
<1>2. CASE Len(parts) = 0
  <2> DEFINE off == [n \in 0 .. Len(parts) |-> 0]
  <2>1. parts = <<>> /\ FlattenSeq(parts) = parts
      BY <1>2 DEF FlattenSeq
  <2>2. FlattenSeq(parts) \in Texts /\ Len(FlattenSeq(parts)) = 0
    <3>1. <<>> \in Texts /\ Len(<<>>) = 0
        BY DEF Texts
    <3> QED BY <2>1, <3>1
  <2>3. off \in [0 .. Len(parts) -> Nat] /\ off[0] = 0 /\ \A n \in 0 .. Len(parts) : off[n] = 0
      BY <1>2
  <2>4. \A n \in 1 .. Len(parts) : FALSE
      BY <1>2
  <2>5. \A q \in 1 .. Len(FlattenSeq(parts)) : FALSE
      BY <2>2
  <2> HIDE DEF off
  <2>6. Len(FlattenSeq(parts)) = off[Len(parts)]
      BY <2>2, <2>3, <1>2
  <2>7. \A m, n \in 0 .. Len(parts) : m <= n => off[m] <= off[n]
      BY <2>3
  <2>8. Laid(parts, off)
      BY <2>2, <2>3, <2>4, <2>5, <2>6, <2>7 DEF Laid
  <2> QED BY <2>8
<1>3. CASE Len(parts) # 0
  <2>1. PICK f : Joined(parts, f) /\ FlattenSeq(parts) = f[Len(parts)]
      BY <1>1, <1>3, FlattenSeqIsReached
  <2> DEFINE off == [n \in 0 .. Len(parts) |-> IF n = 0 THEN 0 ELSE Len(f[n])]
  <2>2. off[0] = 0 /\ \A n \in 1 .. Len(parts) : off[n] = Len(f[n])
      BY <1>1
  <2>3. \A n \in 1 .. Len(parts) :
             /\ f[n] \in Texts /\ off[n] = off[n - 1] + Len(parts[n])
             /\ \A k \in 1 .. n : \A p \in 1 .. Len(parts[k]) :
                  /\ off[k - 1] + p \in 1 .. Len(f[n])
                  /\ f[n][off[k - 1] + p] = parts[k][p]
    <3>1. parts \in Seq(Texts) /\ Len(parts) # 0 /\ Joined(parts, f)
        BY <2>1, <1>3
    <3> HIDE DEF off
    <3> QED BY <2>2, <3>1, JoinedHolds
  <2>4. off \in [0 .. Len(parts) -> Nat]
    <3>1. \A n \in 0 .. Len(parts) : (IF n = 0 THEN 0 ELSE Len(f[n])) \in Nat
      <4> HIDE DEF off
      <4> QED BY <1>1, <2>3
    <3> QED BY <3>1
  <2> HIDE DEF off
  <2>5. Len(parts) \in 1 .. Len(parts)
      BY <1>1, <1>3
  <2>6. FlattenSeq(parts) \in Texts /\ Len(FlattenSeq(parts)) = off[Len(parts)]
      BY <2>1, <2>2, <2>3, <2>5
  <2>7. \A n \in 1 .. Len(parts) : \A p \in 1 .. Len(parts[n]) :
          /\ off[n - 1] + p \in 1 .. Len(FlattenSeq(parts))
          /\ FlattenSeq(parts)[off[n - 1] + p] = parts[n][p]
    <3> DEFINE last == f[Len(parts)]
    <3>1. FlattenSeq(parts) = last
        BY <2>1
    <3>2. \A n \in 1 .. Len(parts) : \A p \in 1 .. Len(parts[n]) :
            off[n - 1] + p \in 1 .. Len(last) /\ last[off[n - 1] + p] = parts[n][p]
        BY <2>3, <2>5
    <3> HIDE DEF last
    <3> QED BY <3>1, <3>2
  <2>8. \A n \in 1 .. Len(parts) : off[n] = off[n - 1] + Len(parts[n])
      BY <2>3
  <2>9. \A n \in 1 .. Len(parts) : /\ off[n - 1] <= off[n]
                                   /\ off[n - 1] \in Nat /\ Len(parts[n]) \in Nat
    <3> SUFFICES ASSUME NEW n \in 1 .. Len(parts)
                 PROVE  off[n - 1] <= off[n] /\ off[n - 1] \in Nat /\ Len(parts[n]) \in Nat
        OBVIOUS
    <3>1. n - 1 \in 0 .. Len(parts)
        BY <1>1
    <3>2. off[n - 1] \in Nat /\ Len(parts[n]) \in Nat
        BY <3>1, <2>4, <1>1
    <3> QED BY <3>2, <2>8
  <2>10. /\ \A m, n \in 0 .. Len(parts) : m <= n => off[m] <= off[n]
         /\ \A q \in 1 .. off[Len(parts)] :
              \E n \in 1 .. Len(parts) : off[n - 1] < q /\ q <= off[n]
      BY <1>1, <2>2, <2>4, <2>9, OffsetsGrow
  <2>11. ASSUME NEW q \in 1 .. Len(FlattenSeq(parts))
         PROVE  \E n \in 1 .. Len(parts) : \E p \in 1 .. Len(parts[n]) : q = off[n - 1] + p
    <3>1. PICK n \in 1 .. Len(parts) : off[n - 1] < q /\ q <= off[n]
        BY <2>6, <2>10
    <3>2. /\ off[n - 1] \in Nat /\ off[n] = off[n - 1] + Len(parts[n]) /\ Len(parts[n]) \in Nat
        BY <2>8, <2>9
    <3>3. q \in Int
        OBVIOUS
    <3>4. q - off[n - 1] \in 1 .. Len(parts[n]) /\ q = off[n - 1] + (q - off[n - 1])
        BY <3>1, <3>2, <3>3
    <3> QED BY <3>4
  <2>12. Laid(parts, off)
      BY <2>2, <2>4, <2>6, <2>7, <2>8, <2>10, <2>11 DEF Laid
  <2> QED BY <2>12
<1> QED BY <1>2, <1>3

--------------------------------------------------------------------------------
(* Escaped and quoted characters and strings *)

\* What stands alone in the literal of a string
Plain == Characters \ {"nul", "nl", "\\", "quote", "ctl", "uni", "sur"}

\* The digits of an escape stand for the character they were written for.
LEMMA DigitsReadBack ==
    /\ Digits["ctl"] = "1f" /\ Digits["uni"] = "2028" /\ Digits["sur"] = "d800"
    /\ FromDigits["1f"] = "ctl" /\ FromDigits["2028"] = "uni" /\ FromDigits["d800"] = "sur"
<1>1. /\ Digits["ctl"] = "1f" /\ Digits["uni"] = "2028" /\ Digits["sur"] = "d800"
      /\ DOMAIN Digits = {"ctl", "uni", "sur"}
    BY DEF Digits
<1>2. ASSUME NEW d \in {"1f", "2028", "d800"}
      PROVE  /\ FromDigits[d] = CHOOSE c \in DOMAIN Digits : Digits[c] = d
             /\ \E c \in DOMAIN Digits : Digits[c] = d
    BY <1>1 DEF FromDigits
<1>3. \A d \in {"1f", "2028", "d800"} :
         FromDigits[d] \in DOMAIN Digits /\ Digits[FromDigits[d]] = d
    BY <1>2
<1> QED BY <1>1, <1>3

\* How each character is escaped
LEMMA EscapedIs ==
    ASSUME NEW c \in Characters
    PROVE  /\ Escaped(c) \in Texts
           /\ \/ c \in Plain /\ Escaped(c) = <<c>>
              \/ c = "nul" /\ Escaped(c) = <<"\\", "0">>
              \/ c = "nl" /\ Escaped(c) = <<"\\", "n">>
              \/ c = "\\" /\ Escaped(c) = <<"\\", "\\">>
              \/ c = "quote" /\ Escaped(c) = <<"\\", "quote">>
              \/ c = "ctl" /\ Escaped(c) = <<"\\", "x", "1f">>
              \/ c = "uni" /\ Escaped(c) = <<"\\", "u", "2028">>
              \/ c = "sur" /\ Escaped(c) = <<"\\", "u", "d800">>
<1>1. CASE c \in Plain
  <2>1. c \notin {"nul", "nl", "\\", "quote", "ctl", "uni", "sur"}
      BY <1>1 DEF Plain
  <2>2. Escaped(c) = <<c>>
      BY <2>1 DEF Escaped
  <2>3. <<c>> \in Texts
      BY DEF Texts
  <2> QED BY <2>2, <2>3, <1>1
<1>2. CASE c \in {"nul", "nl", "\\", "quote", "ctl", "uni", "sur"}
  <2>1. {"\\", "0", "n", "quote", "x", "u", "1f", "2028", "d800"} \subseteq Characters
      BY DEF Characters, Special, Letters
  <2>2. /\ <<"\\", "0">> \in Texts /\ <<"\\", "n">> \in Texts /\ <<"\\", "\\">> \in Texts
        /\ <<"\\", "quote">> \in Texts /\ <<"\\", "x", "1f">> \in Texts
        /\ <<"\\", "u", "2028">> \in Texts /\ <<"\\", "u", "d800">> \in Texts
    <3>1. \A a, b \in Characters : <<a, b>> \in Texts
        BY DEF Texts
    <3>2. \A a, b, d \in Characters : <<a, b, d>> \in Texts
        BY DEF Texts
    <3>3. /\ "\\" \in Characters /\ "0" \in Characters /\ "n" \in Characters
          /\ "quote" \in Characters /\ "x" \in Characters /\ "u" \in Characters
          /\ "1f" \in Characters /\ "2028" \in Characters /\ "d800" \in Characters
        BY <2>1
    <3> QED BY <3>1, <3>2, <3>3
  <2>3. CASE c = "nul"
      BY <2>2, <2>3 DEF Escaped
  <2>4. CASE c = "nl"
      BY <2>2, <2>4 DEF Escaped
  <2>5. CASE c = "\\"
      BY <2>2, <2>5 DEF Escaped
  <2>6. CASE c = "quote"
      BY <2>2, <2>6 DEF Escaped
  <2>7. CASE c = "ctl"
      BY <2>2, <2>7, DigitsReadBack DEF Escaped
  <2>8. CASE c = "uni"
      BY <2>2, <2>8, DigitsReadBack DEF Escaped
  <2>9. CASE c = "sur"
      BY <2>2, <2>9, DigitsReadBack DEF Escaped
  <2> QED BY <1>2, <2>3, <2>4, <2>5, <2>6, <2>7, <2>8, <2>9
<1>3. c \in Plain \/ c \in {"nul", "nl", "\\", "quote", "ctl", "uni", "sur"}
    BY DEF Plain
<1> QED BY <1>1, <1>2, <1>3

\* How each character is quoted
LEMMA QuotedIs ==
    ASSUME NEW c \in Characters
    PROVE  /\ Quoted(c) \in Texts
           /\ \/ c \notin {"nul", "|", "sur"} /\ Quoted(c) = <<c>>
              \/ c = "nul" /\ Quoted(c) = <<"\\", "0">>
              \/ c = "|" /\ Quoted(c) = <<"\\", "!">>
              \/ c = "sur" /\ Quoted(c) = <<"\\", "u", "d800">>
<1>1. {"\\", "0", "!", "u", "d800"} \subseteq Characters
    BY DEF Characters, Special, Letters
<1>2. /\ <<"\\", "0">> \in Texts /\ <<"\\", "!">> \in Texts /\ <<c>> \in Texts
      /\ <<"\\", "u", "d800">> \in Texts
    BY <1>1 DEF Texts
<1>3. CASE c = "nul"
    BY <1>2, <1>3 DEF Quoted
<1>4. CASE c = "|"
    BY <1>2, <1>4 DEF Quoted
<1>5. CASE c = "sur"
    BY <1>2, <1>5, DigitsReadBack DEF Quoted
<1>6. CASE c \notin {"nul", "|", "sur"}
    BY <1>2, <1>6 DEF Quoted
<1> QED BY <1>3, <1>4, <1>5, <1>6

\* The parts of the literal of a string, of its quoted form, and of the two tables
Literal(s) == [k \in DOMAIN s |-> Escaped(s[k])]
Quotation(s) == [k \in DOMAIN s |-> Quoted(s[k])]
Separator(n) == IF n = 1 THEN <<>> ELSE <<"comma">>
TableParts(t) == [n \in DOMAIN t |-> Separator(n) \o EscapeString(t[n])]
RequestParts(t) == [n \in DOMAIN t |-> FlattenSeq(Quotation(t[n])) \o <<"|">>]

\* Where the parts of a text lie
Offsets(parts) == CHOOSE off : Laid(parts, off)

\* Every text of parts has one.
LEMMA OffsetsLaid ==
    ASSUME NEW parts \in Seq(Texts)
    PROVE  Laid(parts, Offsets(parts))
    BY FlattenSeqLaid, Zenon DEF Offsets

\* The parts of a string are as many as its characters, and lie one after the other.
LEMMA StringParts ==
    ASSUME NEW s \in Texts
    PROVE  /\ Literal(s) \in Seq(Texts) /\ Len(Literal(s)) = Len(s)
           /\ Quotation(s) \in Seq(Texts) /\ Len(Quotation(s)) = Len(s)
           /\ Len(s) \in Nat /\ \A k \in 1 .. Len(s) : s[k] \in Characters
           /\ \A k \in 1 .. Len(s) : Literal(s)[k] = Escaped(s[k])
           /\ \A k \in 1 .. Len(s) : Quotation(s)[k] = Quoted(s[k])
           /\ Laid(Literal(s), Offsets(Literal(s)))
           /\ Laid(Quotation(s), Offsets(Quotation(s)))
<1>1. Len(s) \in Nat /\ DOMAIN s = 1 .. Len(s) /\ \A k \in 1 .. Len(s) : s[k] \in Characters
    BY DEF Texts
<1>2. \A k \in 1 .. Len(s) : Escaped(s[k]) \in Texts /\ Quoted(s[k]) \in Texts
    BY <1>1, EscapedIs, QuotedIs
<1>3. Literal(s) \in Seq(Texts) /\ Len(Literal(s)) = Len(s)
    BY <1>1, <1>2 DEF Literal
<1>4. Quotation(s) \in Seq(Texts) /\ Len(Quotation(s)) = Len(s)
    BY <1>1, <1>2 DEF Quotation
<1>5. /\ \A k \in 1 .. Len(s) : Literal(s)[k] = Escaped(s[k])
      /\ \A k \in 1 .. Len(s) : Quotation(s)[k] = Quoted(s[k])
    BY <1>1 DEF Literal, Quotation
<1>6. /\ Laid(Literal(s), Offsets(Literal(s)))
      /\ Laid(Quotation(s), Offsets(Quotation(s)))
    BY <1>3, <1>4, OffsetsLaid
<1> QED BY <1>1, <1>3, <1>4, <1>5, <1>6

--------------------------------------------------------------------------------
(* The table of a response *)

\* A character alone is a text.
LEMMA SingleText ==
    ASSUME NEW c \in Characters
    PROVE  <<c>> \in Texts /\ Len(<<c>>) = 1 /\ <<c>>[1] = c
    BY DEF Texts

\* The literal of a string between its quotes
LEMMA EscapeStringHolds ==
    ASSUME NEW s \in Texts
    PROVE  LET flat == FlattenSeq(Literal(s))
           IN /\ flat \in Texts /\ Len(flat) \in Nat
              /\ EscapeString(s) \in Texts /\ Len(EscapeString(s)) = Len(flat) + 2
              /\ EscapeString(s)[1] = "quote" /\ EscapeString(s)[Len(flat) + 2] = "quote"
              /\ \A q \in 1 .. Len(flat) : EscapeString(s)[q + 1] = flat[q]
<1> DEFINE flat == FlattenSeq(Literal(s))
           quote == <<"quote">>
<1>1. flat \in Texts /\ Len(flat) \in Nat
  <2>1. Laid(Literal(s), Offsets(Literal(s)))
      BY StringParts
  <2>2. flat \in Texts
      BY <2>1 DEF Laid
  <2> QED BY <2>2 DEF Texts
<1>2. quote \in Texts /\ Len(quote) = 1 /\ quote[1] = "quote"
  <2>1. "quote" \in Characters
      BY DEF Characters, Special
  <2> QED BY <2>1, SingleText
<1>3. EscapeString(s) = (quote \o flat) \o quote
    BY DEF EscapeString, Literal
<1> HIDE DEF flat, quote
<1>4. /\ quote \o flat \in Texts /\ Len(quote \o flat) = 1 + Len(flat)
      /\ \A q \in 1 .. 1 : (quote \o flat)[q] = quote[q]
      /\ \A q \in 1 .. Len(flat) : (quote \o flat)[1 + q] = flat[q]
  <2>1. /\ quote \o flat \in Texts /\ Len(quote \o flat) = Len(quote) + Len(flat)
        /\ \A q \in 1 .. Len(quote) : (quote \o flat)[q] = quote[q]
        /\ \A q \in 1 .. Len(flat) : (quote \o flat)[Len(quote) + q] = flat[q]
      BY <1>1, <1>2, ConcatText
  <2> QED BY <1>2, <2>1
<1> DEFINE most == quote \o flat
<1>5. most \in Texts /\ Len(most) = 1 + Len(flat) /\ most[1] = "quote"
      /\ \A q \in 1 .. Len(flat) : most[1 + q] = flat[q]
    BY <1>4, <1>2
<1>6. EscapeString(s) = most \o quote
    BY <1>3
<1> HIDE DEF most
<1>7. /\ EscapeString(s) \in Texts /\ Len(EscapeString(s)) = Len(most) + 1
      /\ \A q \in 1 .. Len(most) : EscapeString(s)[q] = most[q]
      /\ \A q \in 1 .. 1 : EscapeString(s)[Len(most) + q] = quote[q]
  <2>1. /\ most \o quote \in Texts /\ Len(most \o quote) = Len(most) + Len(quote)
        /\ \A q \in 1 .. Len(most) : (most \o quote)[q] = most[q]
        /\ \A q \in 1 .. Len(quote) : (most \o quote)[Len(most) + q] = quote[q]
      BY <1>5, <1>2, ConcatText
  <2> QED BY <1>2, <1>6, <2>1
<1>8. Len(EscapeString(s)) = Len(flat) + 2
    BY <1>1, <1>5, <1>7
<1>9. EscapeString(s)[1] = "quote" /\ EscapeString(s)[Len(flat) + 2] = "quote"
  <2>1. 1 \in 1 .. Len(most) /\ 1 \in 1 .. 1 /\ Len(most) + 1 = Len(flat) + 2
      BY <1>1, <1>5
  <2> QED BY <2>1, <1>2, <1>5, <1>7
<1>10. ASSUME NEW q \in 1 .. Len(flat) PROVE EscapeString(s)[q + 1] = flat[q]
  <2>1. 1 + q \in 1 .. Len(most) /\ 1 + q = q + 1
      BY <1>1, <1>5
  <2>2. EscapeString(s)[1 + q] = most[1 + q] /\ most[1 + q] = flat[q]
      BY <2>1, <1>5, <1>7
  <2> QED BY <2>1, <2>2
<1> QED BY <1>1, <1>7, <1>8, <1>9, <1>10 DEF flat

\* How many characters are before the opening quote in the part of string n
Commas(n) == IF n = 1 THEN 0 ELSE 1

\* Every string but the first has a comma before it.
LEMMA SeparatorIs ==
    ASSUME NEW n \in Nat
    PROVE  /\ Separator(n) \in Texts /\ Len(Separator(n)) = Commas(n) /\ Commas(n) \in 0 .. 1
           /\ Commas(1) = 0 /\ (n # 1 => Commas(n) = 1)
<1>1. <<>> \in Texts /\ Len(<<>>) = 0
    BY DEF Texts
<1>2. <<"comma">> \in Texts /\ Len(<<"comma">>) = 1
  <2>1. "comma" \in Characters
      BY DEF Characters, Special
  <2> QED BY <2>1, SingleText
<1>3. CASE n = 1
    BY <1>1, <1>3 DEF Separator, Commas
<1>4. CASE n # 1
    BY <1>2, <1>4 DEF Separator, Commas
<1> QED BY <1>3, <1>4

\* Each part is a string's literal between its quotes, after its comma.
LEMMA TablePartsHold ==
    ASSUME NEW t \in Seq(Texts)
    PROVE  /\ TableParts(t) \in Seq(Texts) /\ Len(TableParts(t)) = Len(t) /\ Len(t) \in Nat
           /\ Laid(TableParts(t), Offsets(TableParts(t)))
           /\ \A n \in 1 .. Len(t) :
                LET flat == FlattenSeq(Literal(t[n]))
                    part == TableParts(t)[n]
                IN /\ t[n] \in Texts /\ Len(flat) \in Nat
                   /\ Len(part) = Commas(n) + Len(flat) + 2
                   /\ part[Commas(n) + 1] = "quote" /\ part[Commas(n) + Len(flat) + 2] = "quote"
                   /\ \A q \in 1 .. Len(flat) : part[Commas(n) + 1 + q] = flat[q]
<1>1. Len(t) \in Nat /\ DOMAIN t = 1 .. Len(t) /\ \A n \in 1 .. Len(t) : t[n] \in Texts
    OBVIOUS
<1>2. \A n \in 1 .. Len(t) : TableParts(t)[n] = Separator(n) \o EscapeString(t[n])
    BY <1>1 DEF TableParts
<1>3. ASSUME NEW n \in 1 .. Len(t)
      PROVE  LET flat == FlattenSeq(Literal(t[n]))
                 part == TableParts(t)[n]
             IN /\ part \in Texts
                /\ t[n] \in Texts /\ Len(flat) \in Nat
                /\ Len(part) = Commas(n) + Len(flat) + 2
                /\ part[Commas(n) + 1] = "quote" /\ part[Commas(n) + Len(flat) + 2] = "quote"
                /\ \A q \in 1 .. Len(flat) : part[Commas(n) + 1 + q] = flat[q]
  <2> DEFINE flat == FlattenSeq(Literal(t[n]))
             part == TableParts(t)[n]
             sep == Separator(n)
             str == EscapeString(t[n])
             c == Commas(n)
  <2>1. t[n] \in Texts
      BY <1>1
  <2>2. /\ flat \in Texts /\ Len(flat) \in Nat /\ str \in Texts /\ Len(str) = Len(flat) + 2
        /\ str[1] = "quote" /\ str[Len(flat) + 2] = "quote"
        /\ \A q \in 1 .. Len(flat) : str[q + 1] = flat[q]
      BY <2>1, EscapeStringHolds
  <2>3. sep \in Texts /\ Len(sep) = c /\ c \in Nat
      BY <1>1, SeparatorIs
  <2>4. part = sep \o str
      BY <1>2
  <2> HIDE DEF flat, part, sep, str, c
  <2>5. /\ part \in Texts /\ Len(part) = c + Len(str)
        /\ \A q \in 1 .. Len(str) : part[c + q] = str[q]
    <3>1. /\ sep \o str \in Texts /\ Len(sep \o str) = Len(sep) + Len(str)
          /\ \A q \in 1 .. Len(str) : (sep \o str)[Len(sep) + q] = str[q]
        BY <2>2, <2>3, ConcatText
    <3> QED BY <2>3, <2>4, <3>1
  <2>6. Len(part) = c + Len(flat) + 2
      BY <2>2, <2>3, <2>5
  <2>7. part[c + 1] = "quote" /\ part[c + Len(flat) + 2] = "quote"
    <3>1. 1 \in 1 .. Len(str) /\ Len(flat) + 2 \in 1 .. Len(str)
          /\ c + (Len(flat) + 2) = c + Len(flat) + 2
        BY <2>2, <2>3
    <3>2. part[c + 1] = str[1] /\ part[c + (Len(flat) + 2)] = str[Len(flat) + 2]
        BY <3>1, <2>5
    <3> QED BY <3>1, <3>2, <2>2
  <2>8. ASSUME NEW q \in 1 .. Len(flat) PROVE part[c + 1 + q] = flat[q]
    <3>1. q + 1 \in 1 .. Len(str) /\ c + (q + 1) = c + 1 + q
        BY <2>2, <2>3
    <3>2. part[c + (q + 1)] = str[q + 1]
        BY <3>1, <2>5
    <3> QED BY <3>1, <3>2, <2>2
  <2> QED BY <2>1, <2>2, <2>5, <2>6, <2>7, <2>8 DEF flat, part, c
<1>4. \A n \in 1 .. Len(t) : TableParts(t)[n] \in Texts
    BY <1>3
<1>5. TableParts(t) \in Seq(Texts) /\ Len(TableParts(t)) = Len(t)
  <2> DEFINE parts == TableParts(t)
  <2>1. parts = [n \in 1 .. Len(t) |-> parts[n]]
      BY <1>1 DEF TableParts
  <2>2. \A n \in 1 .. Len(t) : parts[n] \in Texts
      BY <1>4
  <2> HIDE DEF parts
  <2>3. parts \in Seq(Texts) /\ Len(parts) = Len(t)
      BY <1>1, <2>1, <2>2
  <2> QED BY <2>3 DEF parts
<1>6. Laid(TableParts(t), Offsets(TableParts(t)))
    BY <1>5, OffsetsLaid
<1> QED BY <1>1, <1>3, <1>5, <1>6

\* The table of a response
Body(t) == FlattenSeq(TableParts(t))
\* How many characters of it come before the opening quote of string n, and before what
\* follows the k first characters of string n
OpenAt(t, n) == Offsets(TableParts(t))[n - 1] + Commas(n)
CharAt(t, n, k) == OpenAt(t, n) + 1 + Offsets(Literal(t[n]))[k]

\* Where the strings lie in the table of a response
LEMMA BodyHolds ==
    ASSUME NEW t \in Seq(Texts)
    PROVE  /\ Len(t) \in Nat /\ Body(t) \in Texts /\ Len(Body(t)) \in Nat
           /\ Len(t) = 0 => Body(t) = <<>> /\ Len(Body(t)) = 0
           /\ Len(t) # 0 => OpenAt(t, 1) = 0
<1> DEFINE parts == TableParts(t)
           off == Offsets(parts)
<1>1. parts \in Seq(Texts) /\ Len(parts) = Len(t) /\ Len(t) \in Nat /\ Laid(parts, off)
    BY TablePartsHold
<1>2. FlattenSeq(parts) \in Texts /\ off[0] = 0 /\ Len(FlattenSeq(parts)) = off[Len(parts)]
    BY <1>1 DEF Laid
<1>3. Body(t) \in Texts /\ Len(Body(t)) \in Nat
  <2> HIDE DEF parts, off
  <2>1. Body(t) \in Texts
      BY <1>2 DEF Body, parts
  <2> QED BY <2>1 DEF Texts
<1>4. ASSUME Len(t) = 0 PROVE Body(t) = <<>> /\ Len(Body(t)) = 0
  <2>1. Len(Body(t)) = 0
    <3> HIDE DEF off
    <3> QED BY <1>1, <1>2, <1>4 DEF Body
  <2> QED BY <2>1, <1>3 DEF Texts
<1>5. OpenAt(t, 1) = 0
  <2>1. OpenAt(t, 1) = off[1 - 1] + 0
      BY SeparatorIs DEF OpenAt
  <2> HIDE DEF off
  <2> QED BY <2>1, <1>2
<1> QED BY <1>1, <1>3, <1>4, <1>5

\* A string's literal lies where CharAt says, character by character.
LEMMA CharsLie ==
    ASSUME NEW t \in Seq(Texts), NEW n \in 1 .. Len(t)
    PROVE  /\ OpenAt(t, n) \in Nat /\ CharAt(t, n, 0) = OpenAt(t, n) + 1
           /\ t[n] \in Texts /\ Len(t[n]) \in Nat
           /\ \A k \in 0 .. Len(t[n]) :
                CharAt(t, n, k) \in Nat /\ CharAt(t, n, k) <= CharAt(t, n, Len(t[n]))
           /\ \A k \in 1 .. Len(t[n]) :
                /\ CharAt(t, n, k) = CharAt(t, n, k - 1) + Len(Escaped(t[n][k]))
                /\ \A p \in 1 .. Len(Escaped(t[n][k])) :
                     Body(t)[CharAt(t, n, k - 1) + p] = Escaped(t[n][k])[p]
           /\ Body(t)[CharAt(t, n, Len(t[n])) + 1] = "quote"
           /\ CharAt(t, n, Len(t[n])) + 1 = Offsets(TableParts(t))[n]
           /\ CharAt(t, n, Len(t[n])) + 1 <= Len(Body(t))
<1> DEFINE parts == TableParts(t)
           off == Offsets(parts)
           s == t[n]
           lit == Literal(s)
           offs == Offsets(lit)
           flat == FlattenSeq(lit)
           c == Commas(n)
           part == parts[n]
<1>1. parts \in Seq(Texts) /\ Len(parts) = Len(t) /\ Len(t) \in Nat /\ Laid(parts, off)
    BY TablePartsHold
<1>2. /\ s \in Texts /\ Len(flat) \in Nat /\ Len(part) = c + Len(flat) + 2
      /\ part[c + 1] = "quote" /\ part[c + Len(flat) + 2] = "quote"
      /\ \A q \in 1 .. Len(flat) : part[c + 1 + q] = flat[q]
    BY TablePartsHold
<1>3. c \in Nat
  <2>1. n \in Nat
      BY <1>1
  <2> QED BY <2>1, SeparatorIs
<1>4. /\ Len(lit) = Len(s) /\ Len(s) \in Nat /\ Laid(lit, offs)
      /\ \A k \in 1 .. Len(s) : lit[k] = Escaped(s[k])
    BY <1>2, StringParts
<1>5. OpenAt(t, n) = off[n - 1] + c /\ \A k : CharAt(t, n, k) = OpenAt(t, n) + 1 + offs[k]
    BY DEF OpenAt, CharAt
<1>6. /\ Body(t) = FlattenSeq(parts) /\ TableParts(t) = parts
      /\ Offsets(TableParts(t)) = off /\ t[n] = s
    BY DEF Body
<1> HIDE DEF parts, off, s, lit, offs, flat, c, part
<1>7. /\ off[n - 1] \in Nat /\ off[n] = off[n - 1] + Len(part) /\ off[n] <= Len(Body(t))
      /\ \A p \in 1 .. Len(part) : Body(t)[off[n - 1] + p] = part[p]
  <2>1. n \in 1 .. Len(parts) /\ n - 1 \in 0 .. Len(parts) /\ n \in 0 .. Len(parts)
        /\ Len(parts) \in 0 .. Len(parts) /\ n <= Len(parts)
      BY <1>1
  <2>2. off[n - 1] \in Nat
      BY <1>1, <2>1 DEF Laid
  <2>3. off[n] = off[n - 1] + Len(part)
      BY <1>1, <2>1 DEF Laid, part
  <2>4. off[n] <= Len(Body(t))
      BY <1>1, <1>6, <2>1 DEF Laid
  <2>5. \A p \in 1 .. Len(part) : Body(t)[off[n - 1] + p] = part[p]
      BY <1>1, <1>6, <2>1 DEF Laid, part
  <2> QED BY <2>2, <2>3, <2>4, <2>5
<1>8. /\ offs[0] = 0 /\ offs[Len(s)] = Len(flat)
      /\ \A k \in 0 .. Len(s) : offs[k] \in Nat /\ offs[k] <= offs[Len(s)]
      /\ \A k \in 1 .. Len(s) : offs[k] = offs[k - 1] + Len(Escaped(s[k]))
      /\ \A k \in 1 .. Len(s) : \A p \in 1 .. Len(Escaped(s[k])) :
           /\ offs[k - 1] + p \in 1 .. Len(flat)
           /\ flat[offs[k - 1] + p] = Escaped(s[k])[p]
  <2>1. offs[0] = 0 /\ offs[Len(s)] = Len(flat)
      BY <1>4 DEF Laid, flat
  <2>2. \A k \in 0 .. Len(s) : offs[k] \in Nat /\ offs[k] <= offs[Len(s)]
    <3>1. /\ offs \in [0 .. Len(s) -> Nat]
          /\ \A a, b \in 0 .. Len(s) : a <= b => offs[a] <= offs[b]
        BY <1>4 DEF Laid
    <3>2. Len(s) \in 0 .. Len(s) /\ \A k \in 0 .. Len(s) : k <= Len(s)
        BY <1>4
    <3> QED BY <3>1, <3>2
  <2>3. \A k \in 1 .. Len(s) : offs[k] = offs[k - 1] + Len(Escaped(s[k]))
      BY <1>4 DEF Laid
  <2>4. \A k \in 1 .. Len(s) : \A p \in 1 .. Len(Escaped(s[k])) :
           /\ offs[k - 1] + p \in 1 .. Len(flat)
           /\ flat[offs[k - 1] + p] = Escaped(s[k])[p]
    <3>1. \A k \in 1 .. Len(lit) : \A p \in 1 .. Len(lit[k]) :
            offs[k - 1] + p \in 1 .. Len(flat) /\ flat[offs[k - 1] + p] = lit[k][p]
        BY <1>4 DEF Laid, flat
    <3> QED BY <3>1, <1>4, Zenon
  <2> QED BY <2>1, <2>2, <2>3, <2>4
<1>9. OpenAt(t, n) \in Nat /\ CharAt(t, n, 0) = OpenAt(t, n) + 1
  <2>1. off[n - 1] \in Nat /\ OpenAt(t, n) = off[n - 1] + c
      BY <1>5, <1>7
  <2>2. CharAt(t, n, 0) = OpenAt(t, n) + 1 + offs[0] /\ offs[0] = 0
      BY <1>5, <1>8
  <2>3. OpenAt(t, n) \in Nat
      BY <1>3, <2>1
  <2> QED BY <2>2, <2>3
<1>10. \A k \in 0 .. Len(s) :
         CharAt(t, n, k) \in Nat /\ CharAt(t, n, k) <= CharAt(t, n, Len(s))
  <2> SUFFICES ASSUME NEW k \in 0 .. Len(s)
               PROVE  CharAt(t, n, k) \in Nat /\ CharAt(t, n, k) <= CharAt(t, n, Len(s))
      OBVIOUS
  <2>1. /\ CharAt(t, n, k) = OpenAt(t, n) + 1 + offs[k]
        /\ CharAt(t, n, Len(s)) = OpenAt(t, n) + 1 + offs[Len(s)]
      BY <1>5
  <2>2. offs[k] \in Nat /\ offs[k] <= offs[Len(s)] /\ offs[Len(s)] \in Nat
      BY <1>2, <1>8
  <2> QED BY <2>1, <2>2, <1>9
<1>11. ASSUME NEW k \in 1 .. Len(s)
       PROVE  /\ CharAt(t, n, k) = CharAt(t, n, k - 1) + Len(Escaped(s[k]))
              /\ \A p \in 1 .. Len(Escaped(s[k])) :
                   Body(t)[CharAt(t, n, k - 1) + p] = Escaped(s[k])[p]
  <2> DEFINE e == Escaped(s[k])
             a == offs[k - 1]
             o == off[n - 1]
  <2>1. /\ CharAt(t, n, k) = OpenAt(t, n) + 1 + offs[k]
        /\ CharAt(t, n, k - 1) = OpenAt(t, n) + 1 + a
        /\ OpenAt(t, n) = o + c /\ o \in Nat
      BY <1>5, <1>7
  <2>2. offs[k] = a + Len(e) /\ a \in Nat /\ Len(e) \in Nat
    <3>1. k - 1 \in 0 .. Len(s) /\ k \in 0 .. Len(s)
        BY <1>4
    <3>2. offs[k] = a + Len(e) /\ a \in Nat
        BY <3>1, <1>8
    <3>3. e \in Texts
        BY <1>2, StringParts, EscapedIs
    <3> QED BY <3>2, <3>3 DEF Texts
  <2>3. \A p \in 1 .. Len(e) : a + p \in 1 .. Len(flat) /\ flat[a + p] = e[p]
      BY <1>8
  <2> HIDE DEF e, a, o
  <2>4. CharAt(t, n, k) = CharAt(t, n, k - 1) + Len(e)
      BY <2>1, <2>2, <1>3
  <2>5. ASSUME NEW p \in 1 .. Len(e) PROVE Body(t)[CharAt(t, n, k - 1) + p] = e[p]
    <3>1. /\ c + 1 + (a + p) \in 1 .. Len(part)
          /\ CharAt(t, n, k - 1) + p = o + (c + 1 + (a + p))
      <4> DEFINE f == Len(flat)
                 l == Len(part)
                 x == CharAt(t, n, k - 1)
      <4>1. /\ a \in Nat /\ c \in Nat /\ o \in Nat /\ f \in Nat /\ p \in Nat /\ p >= 1
            /\ l = c + f + 2 /\ a + p <= f /\ x = o + c + 1 + a
          BY <2>1, <2>2, <2>3, <1>2, <1>3
      <4> HIDE DEF f, l, x
      <4>2. c + 1 + (a + p) \in 1 .. l /\ x + p = o + (c + 1 + (a + p))
          BY <4>1
      <4> QED BY <4>2 DEF f, l, x
    <3>2. Body(t)[o + (c + 1 + (a + p))] = part[c + 1 + (a + p)]
        BY <3>1, <1>7 DEF o
    <3>3. part[c + 1 + (a + p)] = flat[a + p]
        BY <2>3, <1>2
    <3> QED BY <3>1, <3>2, <3>3, <2>3
  <2> QED BY <2>4, <2>5 DEF e
<1>12. /\ Body(t)[CharAt(t, n, Len(s)) + 1] = "quote"
       /\ CharAt(t, n, Len(s)) + 1 = off[n]
       /\ CharAt(t, n, Len(s)) + 1 <= Len(Body(t))
  <2> DEFINE o == off[n - 1]
             x == CharAt(t, n, Len(s))
             f == Len(flat)
             l == Len(part)
  <2>1. /\ x = o + c + 1 + f /\ o \in Nat /\ f \in Nat /\ l = c + f + 2 /\ off[n] = o + l
        /\ c \in Nat
      BY <1>2, <1>3, <1>5, <1>7, <1>8
  <2>2. \A p \in 1 .. l : Body(t)[o + p] = part[p]
      BY <1>7
  <2>3. part[c + f + 2] = "quote"
      BY <1>2
  <2> HIDE DEF o, x, f, l
  <2>4. x + 1 = o + (c + f + 2) /\ c + f + 2 \in 1 .. l /\ x + 1 = off[n]
      BY <2>1
  <2>5. Body(t)[o + (c + f + 2)] = "quote"
      BY <2>2, <2>3, <2>4
  <2>6. Body(t)[x + 1] = "quote" /\ x + 1 = off[n] /\ x + 1 <= Len(Body(t))
      BY <2>4, <2>5, <1>7
  <2> QED BY <2>6 DEF x
<1> QED BY <1>2, <1>4, <1>6, <1>9, <1>10, <1>11, <1>12

\* After a string comes a comma and the next one, or the end.
LEMMA StringsLie ==
    ASSUME NEW t \in Seq(Texts), NEW n \in 1 .. Len(t)
    PROVE  /\ n = Len(t) => CharAt(t, n, Len(t[n])) + 1 = Len(Body(t))
           /\ n # Len(t) => /\ n + 1 \in 1 .. Len(t)
                            /\ OpenAt(t, n + 1) = CharAt(t, n, Len(t[n])) + 2
                            /\ CharAt(t, n, Len(t[n])) + 1 # Len(Body(t))
           /\ OpenAt(t, n) + 1 <= Len(Body(t))
<1> DEFINE off == Offsets(TableParts(t))
           x == CharAt(t, n, Len(t[n]))
<1>1. /\ Len(TableParts(t)) = Len(t) /\ Len(t) \in Nat /\ Laid(TableParts(t), off)
    BY TablePartsHold
<1>2. /\ x + 1 = off[n] /\ x + 1 <= Len(Body(t)) /\ x \in Nat /\ OpenAt(t, n) \in Nat
      /\ CharAt(t, n, 0) = OpenAt(t, n) + 1 /\ CharAt(t, n, 0) <= x
  <2>1. Len(t[n]) \in 0 .. Len(t[n]) /\ 0 \in 0 .. Len(t[n])
      BY CharsLie
  <2> QED BY <2>1, CharsLie
<1>3. Len(Body(t)) = off[Len(t)] /\ Len(Body(t)) \in Nat
    BY <1>1, BodyHolds DEF Laid, Body
<1> HIDE DEF off, x
<1>4. ASSUME n # Len(t)
      PROVE  n + 1 \in 1 .. Len(t) /\ OpenAt(t, n + 1) = x + 2 /\ x + 1 # Len(Body(t))
  <2>1. n + 1 \in 1 .. Len(t) /\ n + 1 # 1 /\ n + 1 \in Nat /\ n + 1 - 1 = n
      BY <1>1, <1>4
  <2>2. OpenAt(t, n + 1) = off[n + 1 - 1] + Commas(n + 1)
      BY DEF OpenAt, off
  <2>3. Commas(n + 1) = 1
      BY <2>1, SeparatorIs
  <2>4. OpenAt(t, n + 1) = x + 2
      BY <2>1, <2>2, <2>3, <1>2
  <2>5. OpenAt(t, n + 1) + 1 <= Len(Body(t))
    <3> DEFINE m == n + 1
    <3>1. m \in 1 .. Len(t)
        BY <2>1
    <3> HIDE DEF m
    <3>2. /\ OpenAt(t, m) \in Nat /\ CharAt(t, m, 0) = OpenAt(t, m) + 1
          /\ CharAt(t, m, Len(t[m])) + 1 <= Len(Body(t)) /\ Len(t[m]) \in Nat
        BY <3>1, CharsLie
    <3>3. 0 \in 0 .. Len(t[m])
        BY <3>2
    <3>4. CharAt(t, m, 0) <= CharAt(t, m, Len(t[m])) /\ CharAt(t, m, Len(t[m])) \in Nat
      <4>1. Len(t[m]) \in 0 .. Len(t[m])
          BY <3>2
      <4> QED BY <3>1, <3>3, <4>1, CharsLie
    <3>5. OpenAt(t, m) + 1 <= Len(Body(t))
        BY <3>2, <3>4, <1>3
    <3> QED BY <3>5 DEF m
  <2> QED BY <2>1, <2>4, <2>5, <1>2, <1>3
<1>5. n = Len(t) => x + 1 = Len(Body(t))
    BY <1>2, <1>3
<1>6. OpenAt(t, n) + 1 <= Len(Body(t))
    BY <1>2, <1>3
<1> QED BY <1>4, <1>5, <1>6 DEF x

--------------------------------------------------------------------------------
(* A response *)

\* A piece of a text
LEMMA CutText ==
    ASSUME NEW s \in Texts, NEW m \in Nat, NEW n \in Nat, 1 <= m, m <= n + 1, n <= Len(s)
    PROVE  /\ SubSeq(s, m, n) \in Texts /\ Len(SubSeq(s, m, n)) = n + 1 - m
           /\ \A q \in 1 .. n + 1 - m : SubSeq(s, m, n)[q] = s[m - 1 + q]
<1>1. SubSeq(s, m, n) \in Texts
    BY DEF Texts
<1>2. Len(SubSeq(s, m, n)) = n + 1 - m
    BY DEF Texts
<1>3. ASSUME NEW q \in 1 .. n + 1 - m PROVE SubSeq(s, m, n)[q] = s[m - 1 + q]
    BY DEF Texts
<1> QED BY <1>1, <1>2, <1>3

\* What parse is given of a response: the answer without its outer brackets
Answer(t) == SubSeq(Response(t), 2, Len(Response(t)) - 1)

\* The six characters before the table of a response, and the six after it
BeforeTable == <<"[", "0", "comma", "1f", "comma", "[">>
AfterTable == <<"]", "comma", "0", "comma", "1f", "]">>

\* The two ends of a response are texts.
LEMMA EndsAreTexts ==
    /\ BeforeTable \in Texts /\ Len(BeforeTable) = 6
    /\ AfterTable \in Texts /\ Len(AfterTable) = 6
    /\ \A t : Response(t) = (BeforeTable \o Body(t)) \o AfterTable
<1>1. \A a, b, c, d, e, f \in Characters : <<a, b, c, d, e, f>> \in Texts
    BY DEF Texts
<1>2. /\ "[" \in Characters /\ "]" \in Characters /\ "comma" \in Characters
      /\ "0" \in Characters /\ "1f" \in Characters
    BY DEF Characters, Special, Letters
<1>3. BeforeTable \in Texts /\ AfterTable \in Texts
    BY <1>1, <1>2 DEF BeforeTable, AfterTable
<1>4. Len(BeforeTable) = 6 /\ Len(AfterTable) = 6
    BY DEF BeforeTable, AfterTable
<1>5. Payload[1] = "0" /\ Payload[2] = "1f" /\ Version = "1f"
    BY DEF Payload, Version
<1>6. ASSUME NEW t PROVE Response(t) = (BeforeTable \o Body(t)) \o AfterTable
    BY <1>5 DEF Response, BeforeTable, AfterTable, Body, TableParts, Separator
<1> QED BY <1>3, <1>4, <1>6

\* What parse reads: the payload, the table between its brackets, the flags, the version
LEMMA AnswerHolds ==
    ASSUME NEW t \in Seq(Texts)
    PROVE  LET L == Len(Body(t))
               a == Answer(t)
           IN /\ L \in Nat /\ a \in Texts /\ Len(a) = L + 10
              /\ a[1] = "0" /\ a[2] = "comma" /\ a[3] = "1f" /\ a[4] = "comma" /\ a[5] = "["
              /\ \A q \in 1 .. L : a[5 + q] = Body(t)[q]
              /\ a[L + 6] = "]" /\ a[L + 7] = "comma" /\ a[L + 8] = "0"
              /\ a[L + 9] = "comma" /\ a[L + 10] = "1f"
<1> DEFINE L == Len(Body(t))
           body == Body(t)
           most == BeforeTable \o body
           r == Response(t)
           a == Answer(t)
<1>1. body \in Texts /\ L \in Nat /\ L = Len(body)
    BY BodyHolds
<1>2. r = most \o AfterTable /\ a = SubSeq(r, 2, Len(r) - 1)
    BY EndsAreTexts DEF Answer
<1> HIDE DEF body, L
<1>3. /\ most \in Texts /\ Len(most) = L + 6
      /\ \A q \in 1 .. 6 : most[q] = BeforeTable[q]
      /\ \A q \in 1 .. L : most[6 + q] = body[q]
  <2>1. /\ most \in Texts /\ Len(most) = Len(BeforeTable) + Len(body)
        /\ \A q \in 1 .. Len(BeforeTable) : most[q] = BeforeTable[q]
        /\ \A q \in 1 .. Len(body) : most[Len(BeforeTable) + q] = body[q]
      BY <1>1, EndsAreTexts, ConcatText
  <2> HIDE DEF most
  <2> QED BY <1>1, <2>1, EndsAreTexts
<1> HIDE DEF most, r, a
<1>4. /\ r \in Texts /\ Len(r) = L + 12
      /\ \A q \in 1 .. L + 6 : r[q] = most[q]
      /\ \A q \in 1 .. 6 : r[L + 6 + q] = AfterTable[q]
  <2>1. /\ most \o AfterTable \in Texts
        /\ Len(most \o AfterTable) = Len(most) + Len(AfterTable)
        /\ \A q \in 1 .. Len(most) : (most \o AfterTable)[q] = most[q]
        /\ \A q \in 1 .. Len(AfterTable) :
             (most \o AfterTable)[Len(most) + q] = AfterTable[q]
      BY <1>3, EndsAreTexts, ConcatText
  <2>2. /\ r \in Texts /\ Len(r) = Len(most) + Len(AfterTable)
        /\ \A q \in 1 .. Len(most) : r[q] = most[q]
        /\ \A q \in 1 .. Len(AfterTable) : r[Len(most) + q] = AfterTable[q]
      BY <2>1, <1>2
  <2> QED BY <1>1, <1>3, <2>2, EndsAreTexts
<1>5. /\ a \in Texts /\ Len(a) = L + 10
      /\ \A q \in 1 .. L + 10 : a[q] = r[q + 1]
  <2>1. L + 11 \in Nat /\ 2 <= L + 11 + 1 /\ L + 11 <= Len(r) /\ a = SubSeq(r, 2, L + 11)
    <3>1. Len(r) - 1 = L + 11 /\ L + 11 \in Nat /\ 2 <= L + 11 + 1 /\ L + 11 <= Len(r)
        BY <1>1, <1>4
    <3> QED BY <3>1, <1>2
  <2>2. /\ SubSeq(r, 2, L + 11) \in Texts /\ Len(SubSeq(r, 2, L + 11)) = L + 11 + 1 - 2
        /\ \A q \in 1 .. L + 11 + 1 - 2 : SubSeq(r, 2, L + 11)[q] = r[2 - 1 + q]
      BY <1>4, <2>1, CutText
  <2>3. L + 11 + 1 - 2 = L + 10 /\ \A q \in 1 .. L + 10 : 2 - 1 + q = q + 1
      BY <1>1
  <2> QED BY <2>1, <2>2, <2>3
<1>6. /\ a[1] = "0" /\ a[2] = "comma" /\ a[3] = "1f" /\ a[4] = "comma" /\ a[5] = "["
  <2>1. \A q \in 1 .. 5 : a[q] = BeforeTable[q + 1]
    <3> SUFFICES ASSUME NEW q \in 1 .. 5 PROVE a[q] = BeforeTable[q + 1]
        OBVIOUS
    <3>1. q \in 1 .. L + 10 /\ q + 1 \in 1 .. L + 6 /\ q + 1 \in 1 .. 6
        BY <1>1
    <3> QED BY <3>1, <1>3, <1>4, <1>5
  <2>2. /\ BeforeTable[2] = "0" /\ BeforeTable[3] = "comma" /\ BeforeTable[4] = "1f"
        /\ BeforeTable[5] = "comma" /\ BeforeTable[6] = "["
      BY DEF BeforeTable
  <2>3. /\ a[1] = BeforeTable[2] /\ a[2] = BeforeTable[3] /\ a[3] = BeforeTable[4]
        /\ a[4] = BeforeTable[5] /\ a[5] = BeforeTable[6]
      BY <2>1
  <2> QED BY <2>2, <2>3
<1>7. ASSUME NEW q \in 1 .. L PROVE a[5 + q] = body[q]
  <2>1. 5 + q \in 1 .. L + 10 /\ 5 + q + 1 = 6 + q /\ 6 + q \in 1 .. L + 6
      BY <1>1
  <2>2. a[5 + q] = r[6 + q]
      BY <2>1, <1>5
  <2>3. r[6 + q] = most[6 + q]
      BY <2>1, <1>4
  <2>4. most[6 + q] = body[q]
      BY <1>3
  <2> QED BY <2>2, <2>3, <2>4
<1>8. /\ a[L + 6] = "]" /\ a[L + 7] = "comma" /\ a[L + 8] = "0"
      /\ a[L + 9] = "comma" /\ a[L + 10] = "1f"
  <2>1. ASSUME NEW q \in 1 .. 5 PROVE a[L + 5 + q] = AfterTable[q]
    <3>1. /\ L + 5 + q \in 1 .. L + 10 /\ L + 5 + q + 1 = L + 6 + q /\ q \in 1 .. 6
        BY <1>1
    <3>2. a[L + 5 + q] = r[L + 5 + q + 1] /\ r[L + 6 + q] = AfterTable[q]
        BY <3>1, <1>4, <1>5
    <3> QED BY <3>1, <3>2
  <2>2. /\ AfterTable[1] = "]" /\ AfterTable[2] = "comma" /\ AfterTable[3] = "0"
        /\ AfterTable[4] = "comma" /\ AfterTable[5] = "1f"
      BY DEF AfterTable
  <2>3. /\ a[L + 5 + 1] = AfterTable[1] /\ a[L + 5 + 2] = AfterTable[2]
        /\ a[L + 5 + 3] = AfterTable[3] /\ a[L + 5 + 4] = AfterTable[4]
        /\ a[L + 5 + 5] = AfterTable[5]
      BY <2>1
  <2>4. /\ L + 5 + 1 = L + 6 /\ L + 5 + 2 = L + 7 /\ L + 5 + 3 = L + 8
        /\ L + 5 + 4 = L + 9 /\ L + 5 + 5 = L + 10
      BY <1>1
  <2> QED BY <2>2, <2>3, <2>4
<1> QED BY <1>1, <1>5, <1>6, <1>7, <1>8 DEF L, body, a

\* Where the last bracket is
LastBracket(msg) == SelectLastInSeq(msg, LAMBDA c : c = "]")

\* The last bracket of an answer is the one that closes its table.
LEMMA TableIsCutOut ==
    ASSUME NEW t \in Seq(Texts)
    PROVE  /\ LastBracket(Answer(t)) = Len(Body(t)) + 6
           /\ SubSeq(Answer(t), 6, Len(Body(t)) + 5) = Body(t)
<1> DEFINE L == Len(Body(t))
           a == Answer(t)
           body == Body(t)
<1>1. /\ L \in Nat /\ a \in Texts /\ Len(a) = L + 10 /\ L = Len(body) /\ body \in Texts
      /\ \A q \in 1 .. L : a[5 + q] = body[q]
      /\ a[L + 6] = "]" /\ a[L + 7] # "]" /\ a[L + 8] # "]" /\ a[L + 9] # "]"
      /\ a[L + 10] # "]"
  <2>1. body \in Texts /\ L = Len(body)
      BY BodyHolds
  <2> QED BY <2>1, AnswerHolds
<1> HIDE DEF L, a, body
<1> DEFINE I == {q \in 1 .. Len(a) : a[q] = "]"}
<1>2. L + 6 \in I
    BY <1>1
<1>3. \A q \in I : q \in Nat /\ q <= L + 6
  <2> SUFFICES ASSUME NEW q \in 1 .. L + 10, a[q] = "]" PROVE q \in Nat /\ q <= L + 6
      BY <1>1
  <2>1. q \in Nat /\ (q <= L + 6 \/ q = L + 7 \/ q = L + 8 \/ q = L + 9 \/ q = L + 10)
      BY <1>1
  <2> QED BY <1>1, <2>1
<1> HIDE DEF I
<1>4. Max(I) = L + 6
  <2>1. \E x \in I : \A y \in I : x >= y
      BY <1>1, <1>2, <1>3
  <2>2. Max(I) \in I /\ \A y \in I : Max(I) >= y
    <3> DEFINE P(x) == x \in I /\ \A y \in I : x >= y
    <3>1. \E x : P(x)
        BY <2>1
    <3>2. Max(I) = CHOOSE x \in I : \A y \in I : x >= y
        BY DEF Max
    <3> QED BY <2>1, <3>2
  <2>3. Max(I) >= L + 6 /\ Max(I) <= L + 6 /\ Max(I) \in Nat
      BY <2>2, <1>2, <1>3
  <2> QED BY <2>3, <1>1
<1>5. LastBracket(a) = L + 6
  <2>1. LastBracket(a) = IF I # {} THEN Max(I) ELSE 0
      BY DEF LastBracket, SelectLastInSeq, I
  <2> QED BY <2>1, <1>2, <1>4
<1>6. SubSeq(a, 6, L + 5) = body
  <2> DEFINE sub == SubSeq(a, 6, L + 5)
  <2>1. L + 5 \in Nat /\ 6 <= L + 5 + 1 /\ L + 5 <= Len(a)
      BY <1>1
  <2>2. /\ sub \in Texts /\ Len(sub) = L + 5 + 1 - 6
        /\ \A q \in 1 .. L + 5 + 1 - 6 : sub[q] = a[6 - 1 + q]
      BY <1>1, <2>1, CutText
  <2> HIDE DEF sub
  <2>3. Len(sub) = L /\ L + 5 + 1 - 6 = L
      BY <1>1, <2>2
  <2>4. \A q \in 1 .. L : sub[q] = body[q]
    <3> SUFFICES ASSUME NEW q \in 1 .. L PROVE sub[q] = body[q]
        OBVIOUS
    <3>1. 6 - 1 + q = 5 + q
        BY <1>1
    <3> QED BY <2>2, <2>3, <3>1, <1>1
  <2>5. sub = body
    <3>1. sub \in Seq(Characters) /\ body \in Seq(Characters) /\ Len(sub) = Len(body)
          /\ \A q \in 1 .. Len(sub) : sub[q] = body[q]
        BY <1>1, <2>2, <2>3, <2>4 DEF Texts
    <3> QED BY <3>1, SeqEqual
  <2> QED BY <2>5 DEF sub
<1> QED BY <1>5, <1>6 DEF L, a, body

--------------------------------------------------------------------------------
(* A request *)

\* A quoted string: each character's quotation where the offsets say, no bar in it, and
\* characters of several bytes exactly when the string has some.
LEMMA QuotationHolds ==
    ASSUME NEW s \in Texts
    PROVE  LET flat == FlattenSeq(Quotation(s))
               offs == Offsets(Quotation(s))
           IN /\ flat \in Texts /\ Len(flat) \in Nat /\ Len(s) \in Nat
              /\ offs[0] = 0 /\ offs[Len(s)] = Len(flat)
              /\ \A k \in 0 .. Len(s) : offs[k] \in Nat /\ offs[k] <= offs[Len(s)]
              /\ \A k \in 1 .. Len(s) : offs[k] = offs[k - 1] + Len(Quoted(s[k]))
              /\ \A k \in 1 .. Len(s) : \A p \in 1 .. Len(Quoted(s[k])) :
                   /\ offs[k - 1] + p \in 1 .. Len(flat)
                   /\ flat[offs[k - 1] + p] = Quoted(s[k])[p]
              /\ \A q \in 1 .. Len(flat) : flat[q] # "|"
              /\ (\E q \in 1 .. Len(flat) : flat[q] \in {"acc", "uni"})
                   <=> \E k \in 1 .. Len(s) : s[k] \in {"acc", "uni"}
<1> DEFINE quo == Quotation(s)
           flat == FlattenSeq(quo)
           offs == Offsets(quo)
<1>1. /\ Len(quo) = Len(s) /\ Len(s) \in Nat /\ Laid(quo, offs)
      /\ \A k \in 1 .. Len(s) : quo[k] = Quoted(s[k]) /\ s[k] \in Characters
    BY StringParts
<1> HIDE DEF quo, offs
<1>2. flat \in Texts /\ Len(flat) \in Nat
  <2>1. flat \in Texts
      BY <1>1 DEF Laid
  <2> QED BY <2>1 DEF Texts
<1>3. offs[0] = 0 /\ offs[Len(s)] = Len(flat)
    BY <1>1 DEF Laid
<1>4. \A k \in 0 .. Len(s) : offs[k] \in Nat /\ offs[k] <= offs[Len(s)]
  <2>1. /\ offs \in [0 .. Len(s) -> Nat]
        /\ \A a, b \in 0 .. Len(s) : a <= b => offs[a] <= offs[b]
      BY <1>1 DEF Laid
  <2>2. Len(s) \in 0 .. Len(s) /\ \A k \in 0 .. Len(s) : k <= Len(s)
      BY <1>1
  <2> QED BY <2>1, <2>2
<1>5. \A k \in 1 .. Len(s) : offs[k] = offs[k - 1] + Len(Quoted(s[k]))
    BY <1>1 DEF Laid
<1>6. \A k \in 1 .. Len(s) : \A p \in 1 .. Len(Quoted(s[k])) :
           /\ offs[k - 1] + p \in 1 .. Len(flat)
           /\ flat[offs[k - 1] + p] = Quoted(s[k])[p]
  <2>1. \A k \in 1 .. Len(quo) : \A p \in 1 .. Len(quo[k]) :
          offs[k - 1] + p \in 1 .. Len(flat) /\ flat[offs[k - 1] + p] = quo[k][p]
      BY <1>1 DEF Laid
  <2> QED BY <2>1, <1>1, Zenon
<1>7. \A q \in 1 .. Len(flat) : \E k \in 1 .. Len(s) :
         \E p \in 1 .. Len(Quoted(s[k])) : flat[q] = Quoted(s[k])[p]
  <2>1. \A q \in 1 .. Len(flat) : \E k \in 1 .. Len(quo) :
          \E p \in 1 .. Len(quo[k]) : q = offs[k - 1] + p
      BY <1>1 DEF Laid
  <2>2. \A q \in 1 .. Len(flat) : \E k \in 1 .. Len(s) :
          \E p \in 1 .. Len(Quoted(s[k])) : q = offs[k - 1] + p
    <3>1. Len(quo) = Len(s) /\ \A k \in 1 .. Len(s) : quo[k] = Quoted(s[k])
        BY <1>1
    <3> HIDE DEF quo, offs, flat
    <3> SUFFICES ASSUME NEW q \in 1 .. Len(flat)
                 PROVE  \E k \in 1 .. Len(s) :
                          \E p \in 1 .. Len(Quoted(s[k])) : q = offs[k - 1] + p
        OBVIOUS
    <3>2. PICK k \in 1 .. Len(quo) : \E p \in 1 .. Len(quo[k]) : q = offs[k - 1] + p
        BY <2>1
    <3>3. k \in 1 .. Len(s) /\ quo[k] = Quoted(s[k])
        BY <3>1
    <3> QED BY <3>2, <3>3
  <2> HIDE DEF flat
  <2> SUFFICES ASSUME NEW q \in 1 .. Len(flat)
               PROVE  \E k \in 1 .. Len(s) :
                        \E p \in 1 .. Len(Quoted(s[k])) : flat[q] = Quoted(s[k])[p]
      OBVIOUS
  <2>3. PICK k \in 1 .. Len(s) : \E p \in 1 .. Len(Quoted(s[k])) : q = offs[k - 1] + p
      BY <2>2
  <2>4. PICK p \in 1 .. Len(Quoted(s[k])) : q = offs[k - 1] + p
      BY <2>3
  <2>5. flat[q] = Quoted(s[k])[p]
      BY <2>4, <1>6
  <2> QED BY <2>5
<1> HIDE DEF flat
<1>8. \A c \in Characters : \A p \in 1 .. Len(Quoted(c)) :
        /\ Quoted(c)[p] # "|"
        /\ Quoted(c)[p] \in {"acc", "uni"} => c \in {"acc", "uni"}
  <2> SUFFICES ASSUME NEW c \in Characters, NEW p \in 1 .. Len(Quoted(c))
               PROVE  /\ Quoted(c)[p] # "|"
                      /\ Quoted(c)[p] \in {"acc", "uni"} => c \in {"acc", "uni"}
      OBVIOUS
  <2>1. CASE c \notin {"nul", "|", "sur"} /\ Quoted(c) = <<c>>
    <3>1. p = 1
        BY <2>1
    <3> QED BY <2>1, <3>1
  <2>2. CASE c = "nul" /\ Quoted(c) = <<"\\", "0">>
    <3>2. Len(Quoted(c)) = 2
        BY <2>2
    <3>1. p = 1 \/ p = 2
        BY <3>2
    <3> QED BY <2>2, <3>1
  <2>3. CASE c = "|" /\ Quoted(c) = <<"\\", "!">>
    <3>2. Len(Quoted(c)) = 2
        BY <2>3
    <3>1. p = 1 \/ p = 2
        BY <3>2
    <3> QED BY <2>3, <3>1
  <2>4. CASE c = "sur" /\ Quoted(c) = <<"\\", "u", "d800">>
    <3>2. Len(Quoted(c)) = 3
        BY <2>4
    <3>1. p = 1 \/ p = 2 \/ p = 3
        BY <3>2
    <3> QED BY <2>4, <3>1
  <2> QED BY <2>1, <2>2, <2>3, <2>4, QuotedIs
<1>9. \A q \in 1 .. Len(flat) : flat[q] # "|"
    BY <1>1, <1>7, <1>8
<1>10. ASSUME NEW q \in 1 .. Len(flat), flat[q] \in {"acc", "uni"}
       PROVE  \E k \in 1 .. Len(s) : s[k] \in {"acc", "uni"}
  <2>1. PICK k \in 1 .. Len(s) : \E p \in 1 .. Len(Quoted(s[k])) : flat[q] = Quoted(s[k])[p]
      BY <1>7
  <2>4. PICK p \in 1 .. Len(Quoted(s[k])) : flat[q] = Quoted(s[k])[p]
      BY <2>1
  <2> DEFINE c == s[k]
  <2>2. c \in Characters /\ p \in 1 .. Len(Quoted(c)) /\ Quoted(c)[p] \in {"acc", "uni"}
      BY <1>1, <1>10, <2>4
  <2> HIDE DEF c
  <2>3. c \in {"acc", "uni"}
      BY <2>2, <1>8
  <2> QED BY <2>3 DEF c
<1>11. ASSUME NEW k \in 1 .. Len(s), s[k] \in {"acc", "uni"}
       PROVE  \E q \in 1 .. Len(flat) : flat[q] \in {"acc", "uni"}
  <2>1. s[k] \in Characters /\ s[k] \notin {"nul", "|", "sur"}
      BY <1>1, <1>11
  <2> DEFINE c == s[k]
  <2>2. Quoted(c) = <<c>>
    <3>1. c \in Characters /\ c # "nul" /\ c # "|" /\ c # "sur"
        BY <2>1
    <3> HIDE DEF c
    <3> QED BY <3>1, QuotedIs
  <2>3. 1 \in 1 .. Len(Quoted(s[k])) /\ Quoted(s[k])[1] = s[k]
      BY <2>2
  <2>4. offs[k - 1] + 1 \in 1 .. Len(flat) /\ flat[offs[k - 1] + 1] = s[k]
      BY <2>3, <1>6
  <2> QED BY <2>4, <1>11
<1> QED BY <1>1, <1>2, <1>3, <1>4, <1>5, <1>6, <1>9, <1>10, <1>11 DEF flat, offs, quo

\* The parts of a request: a quoted string and the bar that ends it
LEMMA RequestPartsHold ==
    ASSUME NEW t \in Seq(Texts)
    PROVE  /\ RequestParts(t) \in Seq(Texts) /\ Len(RequestParts(t)) = Len(t) /\ Len(t) \in Nat
           /\ Laid(RequestParts(t), Offsets(RequestParts(t)))
           /\ \A n \in 1 .. Len(t) :
                LET flat == FlattenSeq(Quotation(t[n]))
                    part == RequestParts(t)[n]
                IN /\ t[n] \in Texts /\ Len(flat) \in Nat
                   /\ Len(part) = Len(flat) + 1 /\ part[Len(flat) + 1] = "|"
                   /\ \A q \in 1 .. Len(flat) : part[q] = flat[q]
<1>1. Len(t) \in Nat /\ DOMAIN t = 1 .. Len(t) /\ \A n \in 1 .. Len(t) : t[n] \in Texts
    OBVIOUS
<1>2. \A n \in 1 .. Len(t) : RequestParts(t)[n] = FlattenSeq(Quotation(t[n])) \o <<"|">>
    BY <1>1 DEF RequestParts
<1>3. ASSUME NEW n \in 1 .. Len(t)
      PROVE  LET flat == FlattenSeq(Quotation(t[n]))
                 part == RequestParts(t)[n]
             IN /\ part \in Texts /\ t[n] \in Texts /\ Len(flat) \in Nat
                /\ Len(part) = Len(flat) + 1 /\ part[Len(flat) + 1] = "|"
                /\ \A q \in 1 .. Len(flat) : part[q] = flat[q]
  <2> DEFINE flat == FlattenSeq(Quotation(t[n]))
             part == RequestParts(t)[n]
             bar == <<"|">>
  <2>1. t[n] \in Texts
      BY <1>1
  <2>2. flat \in Texts /\ Len(flat) \in Nat
      BY <2>1, QuotationHolds
  <2>3. bar \in Texts /\ Len(bar) = 1 /\ bar[1] = "|"
    <3>1. "|" \in Characters
        BY DEF Characters, Special
    <3> QED BY <3>1, SingleText
  <2>4. part = flat \o bar
      BY <1>2
  <2> HIDE DEF flat, part, bar
  <2>5. /\ part \in Texts /\ Len(part) = Len(flat) + Len(bar)
        /\ \A q \in 1 .. Len(flat) : part[q] = flat[q]
        /\ \A q \in 1 .. Len(bar) : part[Len(flat) + q] = bar[q]
    <3>1. /\ flat \o bar \in Texts /\ Len(flat \o bar) = Len(flat) + Len(bar)
          /\ \A q \in 1 .. Len(flat) : (flat \o bar)[q] = flat[q]
          /\ \A q \in 1 .. Len(bar) : (flat \o bar)[Len(flat) + q] = bar[q]
        BY <2>2, <2>3, ConcatText
    <3> QED BY <2>4, <3>1
  <2>6. 1 \in 1 .. Len(bar)
      BY <2>3
  <2> QED BY <2>1, <2>2, <2>3, <2>5, <2>6 DEF flat, part
<1>4. \A n \in 1 .. Len(t) : RequestParts(t)[n] \in Texts
    BY <1>3
<1>5. RequestParts(t) \in Seq(Texts) /\ Len(RequestParts(t)) = Len(t)
  <2> DEFINE parts == RequestParts(t)
  <2>1. parts = [n \in 1 .. Len(t) |-> parts[n]]
      BY <1>1 DEF RequestParts
  <2>2. \A n \in 1 .. Len(t) : parts[n] \in Texts
      BY <1>4
  <2> HIDE DEF parts
  <2>3. parts \in Seq(Texts) /\ Len(parts) = Len(t)
      BY <1>1, <2>1, <2>2
  <2> QED BY <2>3 DEF parts
<1>6. Laid(RequestParts(t), Offsets(RequestParts(t)))
    BY <1>5, OffsetsLaid
<1> QED BY <1>1, <1>3, <1>5, <1>6

\* Where the bar of string n is in a request, and how many characters come before what
\* follows the k first characters of string n
BarAt(t, n) == Offsets(RequestParts(t))[n]
QuotedAt(t, n, k) == BarAt(t, n - 1) + Offsets(Quotation(t[n]))[k]

\* The strings of a request and its payload
LEMMA RequestHolds ==
    ASSUME NEW t \in Seq(Texts)
    PROVE  LET e == BarAt(t, Len(t))
               r == Request(t)
           IN /\ Len(t) \in Nat /\ BarAt(t, 0) = 0 /\ e \in Nat
              /\ r \in Texts /\ Len(r) = e + 2 /\ r[e + 1] = "0" /\ r[e + 2] = "|"
              /\ SubSeq(r, e + 1, e + 2) = <<"0", "|">>
              /\ \A n \in 0 .. Len(t) : BarAt(t, n) \in Nat /\ BarAt(t, n) <= e
              /\ \A q \in 1 .. e : r[q] = FlattenSeq(RequestParts(t))[q]
<1> DEFINE parts == RequestParts(t)
           off == Offsets(parts)
           flat == FlattenSeq(parts)
           rest == <<"0", "|">>
           e == BarAt(t, Len(t))
           r == Request(t)
<1>1. Len(parts) = Len(t) /\ Len(t) \in Nat /\ Laid(parts, off) /\ \A n : BarAt(t, n) = off[n]
    BY RequestPartsHold DEF BarAt
<1>2. r = flat \o rest
    BY DEF Request, RequestParts, Quotation, Payload
<1>3. rest \in Texts /\ Len(rest) = 2 /\ rest[1] = "0" /\ rest[2] = "|"
  <2>1. "0" \in Characters /\ "|" \in Characters
      BY DEF Characters, Special, Letters
  <2>2. \A a, b \in Characters : <<a, b>> \in Texts
      BY DEF Texts
  <2> QED BY <2>1, <2>2
<1> HIDE DEF rest, r, parts, off
<1>4. flat \in Texts /\ Len(flat) = off[Len(t)] /\ off[0] = 0
    BY <1>1 DEF Laid
<1> HIDE DEF flat
<1>5. e = Len(flat) /\ e \in Nat /\ BarAt(t, 0) = 0
    BY <1>1, <1>4 DEF Texts
<1> HIDE DEF e
<1>6. \A n \in 0 .. Len(t) : BarAt(t, n) \in Nat /\ BarAt(t, n) <= e
  <2>1. /\ off \in [0 .. Len(t) -> Nat]
        /\ \A a, b \in 0 .. Len(t) : a <= b => off[a] <= off[b]
      BY <1>1 DEF Laid
  <2>2. Len(t) \in 0 .. Len(t) /\ \A k \in 0 .. Len(t) : k <= Len(t)
      BY <1>1
  <2>3. e = off[Len(t)]
      BY <1>4, <1>5
  <2> QED BY <2>1, <2>2, <2>3, <1>1
<1>7. /\ r \in Texts /\ Len(r) = e + 2
      /\ \A q \in 1 .. e : r[q] = flat[q]
      /\ \A q \in 1 .. 2 : r[e + q] = rest[q]
  <2>1. /\ flat \o rest \in Texts /\ Len(flat \o rest) = Len(flat) + Len(rest)
        /\ \A q \in 1 .. Len(flat) : (flat \o rest)[q] = flat[q]
        /\ \A q \in 1 .. Len(rest) : (flat \o rest)[Len(flat) + q] = rest[q]
      BY <1>3, <1>4, ConcatText
  <2> QED BY <2>1, <1>2, <1>3, <1>5
<1>8. r[e + 1] = "0" /\ r[e + 2] = "|"
    BY <1>3, <1>7
<1>9. SubSeq(r, e + 1, e + 2) = rest
  <2> DEFINE sub == SubSeq(r, e + 1, e + 2)
  <2>1. e + 1 \in Nat /\ e + 2 \in Nat /\ 1 <= e + 1 /\ e + 1 <= e + 2 + 1 /\ e + 2 <= Len(r)
      BY <1>5, <1>7
  <2>2. /\ sub \in Texts /\ Len(sub) = e + 2 + 1 - (e + 1)
        /\ \A q \in 1 .. e + 2 + 1 - (e + 1) : sub[q] = r[(e + 1) - 1 + q]
    <3> DEFINE m == e + 1
               h == e + 2
    <3>1. m \in Nat /\ h \in Nat /\ 1 <= m /\ m <= h + 1 /\ h <= Len(r) /\ r \in Texts
        BY <1>7, <2>1
    <3> HIDE DEF m, h
    <3>2. /\ SubSeq(r, m, h) \in Texts /\ Len(SubSeq(r, m, h)) = h + 1 - m
          /\ \A q \in 1 .. h + 1 - m : SubSeq(r, m, h)[q] = r[m - 1 + q]
        BY <3>1, CutText
    <3> QED BY <3>2 DEF m, h
  <2> HIDE DEF sub
  <2>3. Len(sub) = 2 /\ e + 2 + 1 - (e + 1) = 2 /\ \A q \in 1 .. 2 : (e + 1) - 1 + q = e + q
      BY <1>5, <2>2
  <2>4. \A q \in 1 .. 2 : sub[q] = rest[q]
      BY <2>2, <2>3, <1>7
  <2>5. sub \in Seq(Characters) /\ rest \in Seq(Characters) /\ Len(sub) = Len(rest)
        /\ \A q \in 1 .. Len(sub) : sub[q] = rest[q]
      BY <1>3, <2>2, <2>3, <2>4 DEF Texts
  <2>6. sub = rest
      BY <2>5, SeqEqual
  <2> QED BY <2>6 DEF sub
<1> QED BY <1>1, <1>5, <1>6, <1>7, <1>8, <1>9 DEF e, r, rest, flat, parts

\* A string of a request: it starts after the bar of the one before, has no bar but its own,
\* and its characters lie where QuotedAt says.
LEMMA QuotedLie ==
    ASSUME NEW t \in Seq(Texts), NEW n \in 1 .. Len(t)
    PROVE  /\ t[n] \in Texts /\ Len(t[n]) \in Nat
           /\ BarAt(t, n - 1) \in Nat /\ BarAt(t, n) \in Nat /\ BarAt(t, n - 1) < BarAt(t, n)
           /\ BarAt(t, n) <= BarAt(t, Len(t))
           /\ Request(t)[BarAt(t, n)] = "|"
           /\ \A q \in Nat : BarAt(t, n - 1) < q /\ q < BarAt(t, n) => Request(t)[q] # "|"
           /\ QuotedAt(t, n, 0) = BarAt(t, n - 1)
           /\ QuotedAt(t, n, Len(t[n])) + 1 = BarAt(t, n)
           /\ \A k \in 0 .. Len(t[n]) :
                QuotedAt(t, n, k) \in Nat /\ QuotedAt(t, n, k) <= QuotedAt(t, n, Len(t[n]))
           /\ \A k \in 1 .. Len(t[n]) :
                /\ QuotedAt(t, n, k) = QuotedAt(t, n, k - 1) + Len(Quoted(t[n][k]))
                /\ \A p \in 1 .. Len(Quoted(t[n][k])) :
                     Request(t)[QuotedAt(t, n, k - 1) + p] = Quoted(t[n][k])[p]
<1> DEFINE parts == RequestParts(t)
           off == Offsets(parts)
           s == t[n]
           quo == Quotation(s)
           offs == Offsets(quo)
           flat == FlattenSeq(quo)
           part == parts[n]
           b == off[n - 1]
           e == BarAt(t, Len(t))
           r == Request(t)
           f == Len(flat)
<1>1. Len(parts) = Len(t) /\ Len(t) \in Nat /\ Laid(parts, off)
    BY RequestPartsHold
<1>2. /\ s \in Texts /\ f \in Nat /\ Len(part) = f + 1 /\ part[f + 1] = "|"
      /\ \A q \in 1 .. f : part[q] = flat[q]
    BY RequestPartsHold
<1>3. /\ Len(s) \in Nat /\ offs[0] = 0 /\ offs[Len(s)] = f
      /\ \A k \in 0 .. Len(s) : offs[k] \in Nat /\ offs[k] <= offs[Len(s)]
      /\ \A k \in 1 .. Len(s) : offs[k] = offs[k - 1] + Len(Quoted(s[k]))
      /\ \A k \in 1 .. Len(s) : \A p \in 1 .. Len(Quoted(s[k])) :
           /\ offs[k - 1] + p \in 1 .. f
           /\ flat[offs[k - 1] + p] = Quoted(s[k])[p]
      /\ \A q \in 1 .. f : flat[q] # "|"
    BY <1>2, QuotationHolds
<1>4. /\ BarAt(t, n - 1) = b /\ BarAt(t, n) = off[n] /\ s = t[n]
      /\ \A k : QuotedAt(t, n, k) = b + offs[k]
    BY DEF BarAt, QuotedAt
<1>5. e \in Nat /\ \A q \in 1 .. e : r[q] = FlattenSeq(parts)[q]
    BY RequestHolds
<1>6. \A m \in 0 .. Len(t) : BarAt(t, m) \in Nat /\ BarAt(t, m) <= e
    BY RequestHolds
<1> HIDE DEF parts, off, s, quo, offs, flat, part, b, e, r, f
<1>7. /\ b \in Nat /\ off[n] = b + Len(part) /\ off[n] \in Nat /\ off[n] <= e
      /\ \A p \in 1 .. Len(part) : FlattenSeq(parts)[b + p] = part[p]
  <2>1. n \in 1 .. Len(parts) /\ n - 1 \in 0 .. Len(t) /\ n \in 0 .. Len(t)
      BY <1>1
  <2>2. b \in Nat /\ off[n] \in Nat /\ off[n] <= e
      BY <1>4, <1>6, <2>1
  <2>3. off[n] = b + Len(part)
      BY <1>1, <2>1 DEF Laid, part, b
  <2>4. \A p \in 1 .. Len(part) : FlattenSeq(parts)[b + p] = part[p]
      BY <1>1, <2>1 DEF Laid, part, b
  <2> QED BY <2>2, <2>3, <2>4
<1>8. \A p \in 1 .. f + 1 : b + p \in 1 .. e /\ r[b + p] = part[p]
  <2> SUFFICES ASSUME NEW p \in 1 .. f + 1 PROVE b + p \in 1 .. e /\ r[b + p] = part[p]
      OBVIOUS
  <2>1. p \in 1 .. Len(part) /\ b + p \in 1 .. e
    <3> DEFINE l == Len(part)
               o == off[n]
    <3>1. l = f + 1 /\ o = b + l /\ o <= e /\ o \in Nat /\ b \in Nat /\ f \in Nat /\ e \in Nat
        BY <1>2, <1>5, <1>7
    <3> HIDE DEF l, o
    <3>2. p \in 1 .. l /\ b + p \in 1 .. e
        BY <3>1
    <3> QED BY <3>2 DEF l
  <2> QED BY <2>1, <1>5, <1>7
<1>9. off[n] = b + (f + 1) /\ f + 1 \in 1 .. f + 1
  <2> DEFINE l == Len(part)
             o == off[n]
  <2>1. l = f + 1 /\ o = b + l /\ b \in Nat /\ f \in Nat
      BY <1>2, <1>7
  <2> HIDE DEF l, o
  <2>2. o = b + (f + 1) /\ f + 1 \in 1 .. f + 1
      BY <2>1
  <2> QED BY <2>2 DEF o
<1>10. r[off[n]] = "|" /\ b < off[n]
  <2>1. r[b + (f + 1)] = part[f + 1]
      BY <1>8, <1>9
  <2>2. r[off[n]] = "|"
      BY <2>1, <1>2, <1>9
  <2>3. b < b + (f + 1)
      BY <1>2, <1>7
  <2> QED BY <2>2, <2>3, <1>9
<1>11. ASSUME NEW q \in Nat, b < q, q < off[n] PROVE r[q] # "|"
  <2> DEFINE p == q - b
  <2>1. p \in 1 .. f /\ p \in 1 .. f + 1 /\ q = b + p
      BY <1>2, <1>7, <1>9, <1>11
  <2> HIDE DEF p
  <2>2. r[b + p] = part[p] /\ part[p] = flat[p] /\ flat[p] # "|"
      BY <2>1, <1>2, <1>3, <1>8
  <2> QED BY <2>1, <2>2
<1>12. QuotedAt(t, n, 0) = b /\ QuotedAt(t, n, Len(s)) + 1 = off[n]
  <2>1. QuotedAt(t, n, 0) = b + 0 /\ QuotedAt(t, n, Len(s)) = b + f
      BY <1>3, <1>4
  <2> QED BY <2>1, <1>2, <1>7, <1>9
<1>13. \A k \in 0 .. Len(s) :
         QuotedAt(t, n, k) \in Nat /\ QuotedAt(t, n, k) <= QuotedAt(t, n, Len(s))
  <2> SUFFICES ASSUME NEW k \in 0 .. Len(s)
               PROVE  /\ QuotedAt(t, n, k) \in Nat
                      /\ QuotedAt(t, n, k) <= QuotedAt(t, n, Len(s))
      OBVIOUS
  <2>1. QuotedAt(t, n, k) = b + offs[k] /\ QuotedAt(t, n, Len(s)) = b + offs[Len(s)]
      BY <1>4
  <2>2. offs[k] \in Nat /\ offs[k] <= offs[Len(s)] /\ offs[Len(s)] \in Nat
      BY <1>2, <1>3
  <2> QED BY <2>1, <2>2, <1>7
<1>14. ASSUME NEW k \in 1 .. Len(s)
       PROVE  /\ QuotedAt(t, n, k) = QuotedAt(t, n, k - 1) + Len(Quoted(s[k]))
              /\ \A p \in 1 .. Len(Quoted(s[k])) :
                   r[QuotedAt(t, n, k - 1) + p] = Quoted(s[k])[p]
  <2> DEFINE c == Quoted(s[k])
             a == offs[k - 1]
             x == QuotedAt(t, n, k - 1)
  <2>1. x = b + a /\ QuotedAt(t, n, k) = b + offs[k]
      BY <1>4
  <2>2. offs[k] = a + Len(c) /\ a \in Nat /\ Len(c) \in Nat
    <3>1. k - 1 \in 0 .. Len(s)
        BY <1>3
    <3>2. offs[k] = a + Len(c) /\ a \in Nat
        BY <3>1, <1>3
    <3>3. c \in Texts
        BY <1>2, StringParts, QuotedIs
    <3> QED BY <3>2, <3>3 DEF Texts
  <2>3. \A p \in 1 .. Len(c) : a + p \in 1 .. f /\ flat[a + p] = c[p]
      BY <1>3
  <2> HIDE DEF c, a, x
  <2>4. QuotedAt(t, n, k) = x + Len(c)
      BY <2>1, <2>2, <1>7
  <2>5. ASSUME NEW p \in 1 .. Len(c) PROVE r[x + p] = c[p]
    <3>1. a + p \in 1 .. f /\ a + p \in 1 .. f + 1 /\ x + p = b + (a + p)
        BY <2>1, <2>2, <2>3, <1>2, <1>7
    <3>2. r[b + (a + p)] = part[a + p] /\ part[a + p] = flat[a + p]
        BY <3>1, <1>2, <1>8
    <3> QED BY <3>1, <3>2, <2>3
  <2> QED BY <2>4, <2>5 DEF c, x
<1>15. BarAt(t, n) <= BarAt(t, Len(t))
    BY <1>4, <1>7 DEF e
<1> QED BY <1>2, <1>3, <1>4, <1>7, <1>10, <1>11, <1>12, <1>13, <1>14, <1>15 DEF r, s

--------------------------------------------------------------------------------
(* What a table holds *)

\* What a table holds, character by character
LEMMA ContainIs ==
    ASSUME NEW t \in Seq(Texts), NEW C
    PROVE  /\ Contain(t, C) <=> \E n \in 1 .. Len(t) : \E k \in 1 .. Len(t[n]) : t[n][k] \in C
           /\ \A n \in 1 .. Len(t) :
                Contain(<<t[n]>>, C) <=> \E k \in 1 .. Len(t[n]) : t[n][k] \in C
<1>1. DOMAIN t = 1 .. Len(t) /\ \A n \in 1 .. Len(t) : t[n] \in Texts
    OBVIOUS
<1>2. \A s \in Texts : DOMAIN s = 1 .. Len(s)
    BY DEF Texts
<1>3. Contain(t, C) <=> \E n \in 1 .. Len(t) : \E k \in 1 .. Len(t[n]) : t[n][k] \in C
    BY <1>1, <1>2 DEF Contain
<1>4. ASSUME NEW n \in 1 .. Len(t)
      PROVE  Contain(<<t[n]>>, C) <=> \E k \in 1 .. Len(t[n]) : t[n][k] \in C
  <2> DEFINE s == t[n]
  <2>1. DOMAIN s = 1 .. Len(s)
      BY <1>1, <1>2
  <2>2. DOMAIN <<s>> = {1} /\ <<s>>[1] = s
      OBVIOUS
  <2>3. Contain(<<s>>, C) <=> \E m \in DOMAIN <<s>> : \E k \in DOMAIN <<s>>[m] : <<s>>[m][k] \in C
      BY DEF Contain
  <2> HIDE DEF s
  <2>4. Contain(<<s>>, C) <=> \E k \in DOMAIN s : s[k] \in C
      BY <2>2, <2>3
  <2> QED BY <2>1, <2>4 DEF s
<1> QED BY <1>3, <1>4

\* The announced length fits exactly the tables without characters of several bytes.
LEMMA RequestFits ==
    ASSUME NEW t \in Seq(Texts)
    PROVE  FitsAnnouncedLength(Request(t)) <=> ~Contain(t, {"acc", "uni"})
<1> DEFINE parts == RequestParts(t)
           off == Offsets(parts)
           flat == FlattenSeq(parts)
           e == BarAt(t, Len(t))
           r == Request(t)
           C == {"acc", "uni"}
<1>1. /\ Len(parts) = Len(t) /\ Len(t) \in Nat /\ Laid(parts, off)
      /\ \A n \in 1 .. Len(t) :
           LET f == FlattenSeq(Quotation(t[n]))
           IN /\ t[n] \in Texts /\ Len(f) \in Nat
              /\ Len(parts[n]) = Len(f) + 1 /\ parts[n][Len(f) + 1] = "|"
              /\ \A q \in 1 .. Len(f) : parts[n][q] = f[q]
    BY RequestPartsHold
<1>2. /\ e \in Nat /\ r \in Texts /\ Len(r) = e + 2 /\ r[e + 1] = "0" /\ r[e + 2] = "|"
      /\ \A q \in 1 .. e : r[q] = flat[q]
    BY RequestHolds
<1>3. e = Len(flat)
    BY <1>1 DEF Laid, BarAt
<1> HIDE DEF parts, off, e, r, C
<1>4. \A n \in 1 .. Len(t) : \A p \in 1 .. Len(parts[n]) :
         off[n - 1] + p \in 1 .. Len(flat) /\ flat[off[n - 1] + p] = parts[n][p]
    BY <1>1 DEF Laid
<1>5. \A q \in 1 .. Len(flat) : \E n \in 1 .. Len(t) : \E p \in 1 .. Len(parts[n]) :
         q = off[n - 1] + p
    BY <1>1 DEF Laid
<1> HIDE DEF flat
<1>6. \A n \in 1 .. Len(t) : (\E p \in 1 .. Len(parts[n]) : parts[n][p] \in C)
                              <=> \E k \in 1 .. Len(t[n]) : t[n][k] \in C
  <2> SUFFICES ASSUME NEW n \in 1 .. Len(t)
               PROVE  (\E p \in 1 .. Len(parts[n]) : parts[n][p] \in C)
                        <=> \E k \in 1 .. Len(t[n]) : t[n][k] \in C
      OBVIOUS
  <2> DEFINE f == FlattenSeq(Quotation(t[n]))
             part == parts[n]
  <2>1. /\ t[n] \in Texts /\ Len(f) \in Nat /\ Len(part) = Len(f) + 1 /\ part[Len(f) + 1] = "|"
        /\ \A q \in 1 .. Len(f) : part[q] = f[q]
      BY <1>1
  <2>2. (\E q \in 1 .. Len(f) : f[q] \in C) <=> \E k \in 1 .. Len(t[n]) : t[n][k] \in C
      BY <2>1, QuotationHolds DEF C
  <2> HIDE DEF f, part
  <2>3. "|" \notin C
      BY DEF C
  <2>4. (\E p \in 1 .. Len(part) : part[p] \in C) <=> \E q \in 1 .. Len(f) : f[q] \in C
    <3>1. ASSUME NEW p \in 1 .. Len(part), part[p] \in C
          PROVE  \E q \in 1 .. Len(f) : f[q] \in C
      <4>1. p # Len(f) + 1
          BY <2>1, <2>3, <3>1
      <4>2. p \in 1 .. Len(f)
        <5> DEFINE a == Len(f)
                   b == Len(part)
        <5>1. a \in Nat /\ b = a + 1 /\ p \in 1 .. b /\ p # a + 1
            BY <2>1, <4>1
        <5> HIDE DEF a, b
        <5>2. p \in 1 .. a
            BY <5>1
        <5> QED BY <5>2 DEF a
      <4> QED BY <2>1, <3>1, <4>2
    <3>2. ASSUME NEW q \in 1 .. Len(f), f[q] \in C
          PROVE  \E p \in 1 .. Len(part) : part[p] \in C
      <4>1. q \in 1 .. Len(part)
        <5> DEFINE a == Len(f)
                   b == Len(part)
        <5>1. a \in Nat /\ b = a + 1 /\ q \in 1 .. a
            BY <2>1
        <5> HIDE DEF a, b
        <5>2. q \in 1 .. b
            BY <5>1
        <5> QED BY <5>2 DEF b
      <4> QED BY <2>1, <3>2, <4>1
    <3> QED BY <3>1, <3>2
  <2> QED BY <2>2, <2>4 DEF part
<1>7. (\E q \in 1 .. Len(flat) : flat[q] \in C)
        <=> \E n \in 1 .. Len(t) : \E p \in 1 .. Len(parts[n]) : parts[n][p] \in C
  <2>1. ASSUME NEW q \in 1 .. Len(flat), flat[q] \in C
        PROVE  \E n \in 1 .. Len(t) : \E p \in 1 .. Len(parts[n]) : parts[n][p] \in C
    <3>1. PICK n \in 1 .. Len(t) : \E p \in 1 .. Len(parts[n]) : q = off[n - 1] + p
        BY <1>5
    <3>2. PICK p \in 1 .. Len(parts[n]) : q = off[n - 1] + p
        BY <3>1
    <3>3. parts[n][p] \in C
        BY <1>4, <2>1, <3>2
    <3> QED BY <3>3
  <2>2. ASSUME NEW n \in 1 .. Len(t), NEW p \in 1 .. Len(parts[n]), parts[n][p] \in C
        PROVE  \E q \in 1 .. Len(flat) : flat[q] \in C
      BY <1>4, <2>2
  <2> QED BY <2>1, <2>2
<1>8. (\E q \in 1 .. e + 2 : r[q] \in C) <=> \E q \in 1 .. e : flat[q] \in C
  <2>1. "0" \notin C /\ "|" \notin C
      BY DEF C
  <2>2. \A q \in 1 .. e + 2 : q \in 1 .. e \/ q = e + 1 \/ q = e + 2
      BY <1>2
  <2>3. \A q \in 1 .. e : q \in 1 .. e + 2
      BY <1>2
  <2> QED BY <1>2, <2>1, <2>2, <2>3
<1>9. FitsAnnouncedLength(r) <=> ~\E q \in 1 .. e + 2 : r[q] \in C
  <2>1. DOMAIN r = 1 .. e + 2
      BY <1>2 DEF Texts
  <2> QED BY <2>1 DEF FitsAnnouncedLength, C
<1>10. Contain(t, C) <=> \E n \in 1 .. Len(t) : \E k \in 1 .. Len(t[n]) : t[n][k] \in C
    BY ContainIs
<1>11. FitsAnnouncedLength(r) <=> ~Contain(t, C)
    BY <1>3, <1>6, <1>7, <1>8, <1>9, <1>10
<1> QED BY <1>11 DEF r, C

--------------------------------------------------------------------------------
(* The invariant of the string tables *)

\* The text gathered so far is the beginning of string n.
Gathered(n) ==
    /\ Len(token) <= Len(strings[n])
    /\ \A k \in 1 .. Len(token) : token[k] = strings[n][k]

\* The payload that a response was sent with, token by token
PayloadTokens == <<<<"0">>, <<"1f">>>>

\* Between two iterations of parse: what has been read, token by token
Parsing ==
    LET L == Len(Body(strings))
        table == Body(strings)
    IN /\ text = Answer(strings) /\ startNewString /\ stringTable = <<>>
       /\ \/ i = 1 /\ token = <<>> /\ results = <<>>
          \/ i = 2 /\ token = <<"0">> /\ results = <<>>
          \/ i = 3 /\ token = <<>> /\ results = <<<<"0">>>>
          \/ i = 4 /\ token = <<"1f">> /\ results = <<<<"0">>>>
          \/ i = 5 /\ token = <<>> /\ results = <<<<"0">>, <<"1f">>>>
          \/ i = L + 8 /\ token = <<>> /\ results = <<<<"0">>, <<"1f">>, table>>
          \/ i = L + 9 /\ token = <<"0">> /\ results = <<<<"0">>, <<"1f">>, table>>
          \/ i = L + 10 /\ token = <<>> /\ results = <<<<"0">>, <<"1f">>, table, <<"0">>>>
          \/ i = L + 11 /\ token = <<"1f">> /\ results = <<<<"0">>, <<"1f">>, table, <<"0">>>>

\* Between two iterations of deserializeStringTable: the strings read are the first ones,
\* and the scan is before a quote that opens a string, at the end of the table, or after
\* the characters of a string that were gathered.
Scanning ==
    LET n == Len(stringTable) + 1
    IN /\ text = Body(strings) /\ results = PayloadTokens
       /\ n <= Len(strings) + 1
       /\ \A k \in 1 .. Len(stringTable) : stringTable[k] = strings[k]
       /\ startNewString =>
            /\ token = <<>>
            /\ n <= Len(strings) => i = OpenAt(strings, n) + 1
            /\ n = Len(strings) + 1 => i = Len(text) + 1
       /\ ~startNewString =>
            /\ n <= Len(strings) /\ Gathered(n)
            /\ i = CharAt(strings, n, Len(token)) + 1

\* Strings without a backslash are read back.
PlainReadBack ==
    \A k \in 1 .. Len(stringTable) :
        ~Contain(<<strings[k]>>, {"\\"}) => stringTable[k] = strings[k]

\* While the servlet reads a request: it is between the bar of the last string read and
\* the bar of the next, and has gathered the beginning of a string without a backslash.
Serving ==
    LET n == Len(stringTable) + 1
    IN /\ text = Request(strings) /\ results = <<>>
       /\ ~Contain(strings, {"acc", "uni"})
       /\ n <= Len(strings) + 1 /\ PlainReadBack
       /\ n = Len(strings) + 1 => i = BarAt(strings, Len(strings)) + 1
       /\ n <= Len(strings) =>
            /\ BarAt(strings, n - 1) < i /\ i <= BarAt(strings, n)
            /\ ~Contain(<<strings[n]>>, {"\\"}) =>
                 Gathered(n) /\ i = QuotedAt(strings, n, Len(token)) + 1

\* Between any two steps of either direction
CodecInv ==
    /\ CodecTypeOK
    /\ stage = "sending" =>
         /\ text = <<>> /\ i = 1 /\ startNewString
         /\ token = <<>> /\ results = <<>> /\ stringTable = <<>>
    /\ direction = "response" => stage \in {"sending", "parsing", "scanning", "read"}
    /\ direction = "request" => stage \in {"sending", "serving", "unsent", "rejected", "read"}
    /\ stage = "parsing" => Parsing
    /\ stage = "scanning" => Scanning
    /\ stage = "serving" => Serving
    /\ stage = "read" /\ direction = "response" =>
         stringTable = strings /\ results = PayloadTokens
    /\ stage = "read" /\ direction = "request" =>
         /\ ~Contain(strings, {"acc", "uni"}) /\ results = <<<<"0", "|">>>>
         /\ Len(stringTable) = Len(strings) /\ PlainReadBack
    /\ stage = "unsent" => Contain(strings, {"acc", "uni"})
    /\ stage = "rejected" => ~Contain(strings, {"acc", "uni"}) /\ Contain(strings, {"\\"})

\* Where the scan is within a string: at the quote that closes it, or before the escape of
\* its next character.
LEMMA ScanningAt ==
    ASSUME CodecInv, stage = "scanning", ~startNewString,
           NEW n, n = Len(stringTable) + 1, NEW k, k = Len(token)
    PROVE  /\ n \in 1 .. Len(strings) /\ strings[n] \in Texts /\ Len(strings[n]) \in Nat
           /\ k \in 0 .. Len(strings[n]) /\ i = CharAt(strings, n, k) + 1 /\ i \in Nat
           /\ Len(text) \in Nat /\ i <= Len(text)
           /\ \/ k = Len(strings[n]) /\ text[i] = "quote"
              \/ \E c \in Characters :
                   /\ k + 1 \in 1 .. Len(strings[n]) /\ c = strings[n][k + 1]
                   /\ i + Len(Escaped(c)) = CharAt(strings, n, k + 1) + 1
                   /\ i + Len(Escaped(c)) <= Len(text)
                   /\ \A p \in 1 .. Len(Escaped(c)) : text[(i - 1) + p] = Escaped(c)[p]
<1>1. /\ text = Body(strings) /\ strings \in Seq(Texts) /\ stringTable \in Seq(Texts)
      /\ token \in Texts /\ n <= Len(strings) /\ Len(token) <= Len(strings[n])
      /\ i = CharAt(strings, n, k) + 1
    BY DEF CodecInv, CodecTypeOK, Scanning, Gathered, Texts
<1>2. n \in 1 .. Len(strings) /\ Len(strings) \in Nat
    BY <1>1
<1>3. k \in Nat
    BY <1>1 DEF Texts
<1>4. /\ strings[n] \in Texts /\ Len(strings[n]) \in Nat
      /\ \A j \in 0 .. Len(strings[n]) :
           /\ CharAt(strings, n, j) \in Nat
           /\ CharAt(strings, n, j) <= CharAt(strings, n, Len(strings[n]))
      /\ \A j \in 1 .. Len(strings[n]) :
           /\ CharAt(strings, n, j)
                = CharAt(strings, n, j - 1) + Len(Escaped(strings[n][j]))
           /\ \A p \in 1 .. Len(Escaped(strings[n][j])) :
                Body(strings)[CharAt(strings, n, j - 1) + p] = Escaped(strings[n][j])[p]
      /\ Body(strings)[CharAt(strings, n, Len(strings[n])) + 1] = "quote"
      /\ CharAt(strings, n, Len(strings[n])) + 1 <= Len(Body(strings))
  <2>1. strings \in Seq(Texts) /\ n \in 1 .. Len(strings)
      BY <1>1, <1>2
  <2>2. /\ strings[n] \in Texts /\ Len(strings[n]) \in Nat
        /\ \A j \in 0 .. Len(strings[n]) :
             /\ CharAt(strings, n, j) \in Nat
             /\ CharAt(strings, n, j) <= CharAt(strings, n, Len(strings[n]))
      BY <2>1, CharsLie
  <2>3. \A j \in 1 .. Len(strings[n]) :
             CharAt(strings, n, j)
               = CharAt(strings, n, j - 1) + Len(Escaped(strings[n][j]))
      BY <2>1, CharsLie
  <2>4. \A j \in 1 .. Len(strings[n]) :
             \A p \in 1 .. Len(Escaped(strings[n][j])) :
               Body(strings)[CharAt(strings, n, j - 1) + p] = Escaped(strings[n][j])[p]
      BY <2>1, CharsLie, Zenon
  <2>5. /\ Body(strings)[CharAt(strings, n, Len(strings[n])) + 1] = "quote"
        /\ CharAt(strings, n, Len(strings[n])) + 1 <= Len(Body(strings))
      BY <2>1, CharsLie
  <2> QED BY <2>2, <2>3, <2>4, <2>5
<1>5. Len(text) \in Nat
    BY <1>1, BodyHolds
<1>6. k \in 0 .. Len(strings[n]) /\ Len(strings[n]) \in 0 .. Len(strings[n])
    BY <1>1, <1>3, <1>4
<1>7. i \in Nat /\ i <= Len(text)
  <2> DEFINE x == CharAt(strings, n, k)
             y == CharAt(strings, n, Len(strings[n]))
  <2>1. x \in Nat /\ y \in Nat /\ x <= y /\ y + 1 <= Len(text) /\ i = x + 1
      BY <1>1, <1>4, <1>6
  <2> HIDE DEF x, y
  <2> QED BY <2>1, <1>5
<1>8. CASE k = Len(strings[n])
    BY <1>1, <1>2, <1>4, <1>5, <1>6, <1>7, <1>8
<1>9. CASE k # Len(strings[n])
  <2> DEFINE s == strings[n]
             c == s[k + 1]
  <2>1. k + 1 \in 1 .. Len(s) /\ k + 1 \in 0 .. Len(s) /\ (k + 1) - 1 = k
      BY <1>4, <1>6, <1>9
  <2>2. c \in Characters
      BY <1>4, <2>1, StringParts
  <2>3. /\ CharAt(strings, n, k + 1) = CharAt(strings, n, k) + Len(Escaped(c))
        /\ \A p \in 1 .. Len(Escaped(c)) : text[CharAt(strings, n, k) + p] = Escaped(c)[p]
    <3> DEFINE j == k + 1
    <3>1. j \in 1 .. Len(s) /\ j - 1 = k /\ c = s[j]
        BY <2>1
    <3> HIDE DEF j, c
    <3>2. /\ CharAt(strings, n, j) = CharAt(strings, n, j - 1) + Len(Escaped(c))
          /\ \A p \in 1 .. Len(Escaped(c)) :
               Body(strings)[CharAt(strings, n, j - 1) + p] = Escaped(c)[p]
        BY <1>4, <3>1
    <3> QED BY <1>1, <3>1, <3>2 DEF j
  <2>4. Len(Escaped(c)) \in Nat
      BY <2>2, EscapedIs DEF Texts
  <2> DEFINE x == CharAt(strings, n, k)
             z == CharAt(strings, n, k + 1)
             y == CharAt(strings, n, Len(s))
             l == Len(Escaped(c))
  <2>5. /\ x \in Nat /\ z \in Nat /\ y \in Nat /\ z <= y /\ y + 1 <= Len(text)
        /\ i = x + 1 /\ z = x + l /\ l \in Nat
      BY <1>1, <1>4, <1>6, <2>1, <2>3, <2>4
  <2> HIDE DEF x, y, z, l
  <2>6. i + l = z + 1 /\ i + l <= Len(text) /\ i - 1 = x
      BY <2>5, <1>5
  <2>7. /\ i + Len(Escaped(c)) = CharAt(strings, n, k + 1) + 1
        /\ i + Len(Escaped(c)) <= Len(text)
        /\ \A p \in 1 .. Len(Escaped(c)) : text[(i - 1) + p] = Escaped(c)[p]
      BY <2>3, <2>6 DEF x, z, l
  <2> HIDE DEF c
  <2>8. \E d \in Characters :
          /\ k + 1 \in 1 .. Len(s) /\ d = s[k + 1]
          /\ i + Len(Escaped(d)) = CharAt(strings, n, k + 1) + 1
          /\ i + Len(Escaped(d)) <= Len(text)
          /\ \A p \in 1 .. Len(Escaped(d)) : text[(i - 1) + p] = Escaped(d)[p]
    <3>1. c = s[k + 1]
        BY DEF c
    <3> QED BY <2>1, <2>2, <2>7, <3>1
  <2> QED BY <1>1, <1>2, <1>4, <1>5, <1>6, <1>7, <2>8
<1> QED BY <1>8, <1>9

\* What a string is the beginning of, with its next character
LEMMA GatheredGrows ==
    ASSUME NEW a \in Texts, NEW s \in Texts, NEW c \in Characters, Len(a) + 1 \in 1 .. Len(s),
           c = s[Len(a) + 1], \A k \in 1 .. Len(a) : a[k] = s[k]
    PROVE  /\ a \o <<c>> \in Texts /\ Len(a \o <<c>>) = Len(a) + 1
           /\ \A k \in 1 .. Len(a) + 1 : (a \o <<c>>)[k] = s[k]
<1> DEFINE e == <<c>>
           b == a \o e
<1>1. e \in Texts /\ Len(e) = 1 /\ e[1] = c
    BY SingleText
<1> HIDE DEF e
<1>2. /\ b \in Texts /\ Len(b) = Len(a) + Len(e) /\ Len(a) \in Nat
      /\ \A q \in 1 .. Len(a) : b[q] = a[q]
      /\ \A q \in 1 .. Len(e) : b[Len(a) + q] = e[q]
    BY <1>1, ConcatText
<1> HIDE DEF b
<1>3. Len(b) = Len(a) + 1 /\ b[Len(a) + 1] = c
    BY <1>1, <1>2
<1>4. \A k \in 1 .. Len(a) + 1 : b[k] = s[k]
    BY <1>2, <1>3
<1> QED BY <1>2, <1>3, <1>4 DEF b, e

\* A character read back leaves the scan before the next one.
LEMMA CharacterRead ==
    ASSUME CodecInv, stage = "scanning", ~startNewString,
           NEW c \in Characters, Len(token) + 1 \in 1 .. Len(strings[Len(stringTable) + 1]),
           c = strings[Len(stringTable) + 1][Len(token) + 1],
           i + Len(Escaped(c)) = CharAt(strings, Len(stringTable) + 1, Len(token) + 1) + 1,
           i + Len(Escaped(c)) <= Len(text),
           i' = i + Len(Escaped(c)), token' = token \o <<c>>,
           UNCHANGED <<direction, strings, stage, text, startNewString, results, stringTable>>
    PROVE  CodecInv'
<1> DEFINE n == Len(stringTable) + 1
           s == strings[n]
<1>1. /\ n \in 1 .. Len(strings) /\ s \in Texts /\ i \in Nat /\ Len(text) \in Nat
      /\ \A k \in 1 .. Len(token) : token[k] = s[k]
      /\ token \in Texts /\ i \in 1 .. Len(text) + 1
  <2>1. n \in 1 .. Len(strings) /\ s \in Texts /\ i \in Nat /\ Len(text) \in Nat
      BY ScanningAt
  <2>2. \A k \in 1 .. Len(token) : token[k] = s[k]
      BY DEF CodecInv, Scanning, Gathered
  <2>3. token \in Texts /\ i \in 1 .. Len(text) + 1
      BY DEF CodecInv, CodecTypeOK, Texts
  <2> QED BY <2>1, <2>2, <2>3
<1>2. /\ token' \in Texts /\ Len(token') = Len(token) + 1
      /\ \A k \in 1 .. Len(token) + 1 : token'[k] = s[k]
  <2> DEFINE a == token
  <2>1. /\ a \in Texts /\ Len(a) + 1 \in 1 .. Len(s) /\ c = s[Len(a) + 1]
        /\ \A k \in 1 .. Len(a) : a[k] = s[k] /\ s \in Texts
      BY <1>1
  <2> HIDE DEF s, a
  <2>2. /\ a \o <<c>> \in Texts /\ Len(a \o <<c>>) = Len(a) + 1
        /\ \A k \in 1 .. Len(a) + 1 : (a \o <<c>>)[k] = s[k]
      BY <1>1, <2>1, GatheredGrows
  <2> QED BY <2>2 DEF a
<1>3. Gathered(n)'
    BY <1>2 DEF Gathered
<1>4. i' = (CharAt(strings, n, Len(token)) + 1)'
  <2>1. CharAt(strings, n, Len(token))' = CharAt(strings, n, Len(token) + 1)
      BY <1>2 DEF CharAt, OpenAt
  <2> QED BY <2>1
<1>5. Scanning'
    BY <1>3, <1>4 DEF CodecInv, Scanning
<1>6. Len(Escaped(c)) \in Nat /\ i' \in Nat
  <2>1. Len(Escaped(c)) \in Nat
      BY EscapedIs DEF Texts
  <2> QED BY <2>1, <1>1
<1>7. CodecTypeOK'
  <2>1. i' \in 1 .. Len(text) + 1
      BY <1>1, <1>6
  <2>2. token' \in Seq(Characters)
      BY <1>2 DEF Texts
  <2> QED BY <2>1, <2>2 DEF CodecInv, CodecTypeOK
<1> QED BY <1>5, <1>7 DEF CodecInv

--------------------------------------------------------------------------------
(* Steps of deserializeStringTable *)

\* An escape is undone to the character that was escaped, whole.
LEMMA UnescapeStep ==
    ASSUME CodecInv, Unescape
    PROVE  CodecInv'
<1> DEFINE n == Len(stringTable) + 1
           k == Len(token)
<1>1. stage = "scanning" /\ ~startNewString /\ text[i] = "\\"
    BY DEF Unescape, Reading
<1>2. /\ k \in 0 .. Len(strings[n]) /\ i \in Nat
      /\ \/ k = Len(strings[n]) /\ text[i] = "quote"
         \/ \E c \in Characters :
              /\ k + 1 \in 1 .. Len(strings[n]) /\ c = strings[n][k + 1]
              /\ i + Len(Escaped(c)) = CharAt(strings, n, k + 1) + 1
              /\ i + Len(Escaped(c)) <= Len(text)
              /\ \A p \in 1 .. Len(Escaped(c)) : text[(i - 1) + p] = Escaped(c)[p]
  <2>1. n = Len(stringTable) + 1 /\ k = Len(token)
      OBVIOUS
  <2> HIDE DEF n, k
  <2> QED BY <1>1, <2>1, ScanningAt, SMTT(30)
<1>3. PICK c \in Characters :
              /\ k + 1 \in 1 .. Len(strings[n]) /\ c = strings[n][k + 1]
              /\ i + Len(Escaped(c)) = CharAt(strings, n, k + 1) + 1
              /\ i + Len(Escaped(c)) <= Len(text)
              /\ \A p \in 1 .. Len(Escaped(c)) : text[(i - 1) + p] = Escaped(c)[p]
    BY <1>1, <1>2
<1>4. (i - 1) + 1 = i /\ (i - 1) + 2 = i + 1 /\ (i - 1) + 3 = (i + 1) + 1
    BY <1>2
<1>5. i' = i + Len(Escaped(c)) /\ token' = token \o <<c>>
  <2>1. /\ i' = i + (IF text[i + 1] \in {"x", "u"} THEN 3 ELSE 2)
        /\ token' = token \o Unescaped(i + 1)
      BY DEF Unescape, Gather
  <2>2. CASE c \in Plain /\ Escaped(c) = <<c>>
    <3>1. 1 \in 1 .. Len(Escaped(c)) /\ Escaped(c)[1] = c
        BY <2>2
    <3>2. text[i] = c
        BY <3>1, <1>3, <1>4
    <3> QED BY <3>2, <1>1, <2>2 DEF Plain
  <2>3. CASE \E d \in Characters : Escaped(c) = <<"\\", d>>
    <3>1. PICK d \in Characters : Escaped(c) = <<"\\", d>>
        BY <2>3
    <3>2. Len(Escaped(c)) = 2 /\ 2 \in 1 .. Len(Escaped(c)) /\ Escaped(c)[2] = d
        BY <3>1
    <3>3. text[i + 1] = d
        BY <3>2, <1>3, <1>4
    <3>4. \/ c = "nul" /\ d = "0"
          \/ c = "nl" /\ d = "n"
          \/ c = "\\" /\ d = "\\"
          \/ c = "quote" /\ d = "quote"
      <4>1. Len(Escaped(c)) = 2 /\ Escaped(c)[2] = d
          BY <3>2
      <4> QED BY <4>1, EscapedIs
    <3>5. Unescaped(i + 1) = <<c>>
        BY <3>3, <3>4 DEF Unescaped
    <3>6. text[i + 1] \notin {"x", "u"}
        BY <3>3, <3>4
    <3> QED BY <2>1, <3>2, <3>5, <3>6
  <2>4. CASE \E d, g \in Characters : Escaped(c) = <<"\\", d, g>>
    <3>1. PICK d, g \in Characters : Escaped(c) = <<"\\", d, g>>
        BY <2>4
    <3>2. /\ Len(Escaped(c)) = 3 /\ 2 \in 1 .. Len(Escaped(c)) /\ Escaped(c)[2] = d
          /\ 3 \in 1 .. Len(Escaped(c)) /\ Escaped(c)[3] = g
        BY <3>1
    <3>3. text[i + 1] = d /\ text[(i + 1) + 1] = g
        BY <3>2, <1>3, <1>4
    <3>4. \/ c = "ctl" /\ d = "x" /\ g = "1f"
          \/ c = "uni" /\ d = "u" /\ g = "2028"
          \/ c = "sur" /\ d = "u" /\ g = "d800"
      <4>1. Len(Escaped(c)) = 3 /\ Escaped(c)[2] = d /\ Escaped(c)[3] = g
          BY <3>2
      <4> QED BY <4>1, EscapedIs
    <3>5. Unescaped(i + 1) = <<c>>
        BY <3>3, <3>4, DigitsReadBack DEF Unescaped
    <3>6. text[i + 1] \in {"x", "u"}
        BY <3>3, <3>4
    <3> QED BY <2>1, <3>2, <3>5, <3>6
  <2>5. {"\\", "0", "n", "quote", "x", "u", "1f", "2028", "d800"} \subseteq Characters
      BY DEF Characters, Special, Letters
  <2> QED BY <2>2, <2>3, <2>4, <2>5, EscapedIs
<1>6. UNCHANGED <<direction, strings, stage, text, startNewString, results, stringTable>>
    BY DEF Unescape, Gather
<1> QED BY <1>1, <1>3, <1>5, <1>6, CharacterRead

\* A character that stands alone is the string's own.
LEMMA CopyCharacterStep ==
    ASSUME CodecInv, CopyCharacter
    PROVE  CodecInv'
<1> DEFINE n == Len(stringTable) + 1
           k == Len(token)
<1>1. stage = "scanning" /\ ~startNewString /\ text[i] \notin {"quote", "\\"}
    BY DEF CopyCharacter, Reading
<1>2. /\ k \in 0 .. Len(strings[n]) /\ i \in Nat
      /\ \/ k = Len(strings[n]) /\ text[i] = "quote"
         \/ \E c \in Characters :
              /\ k + 1 \in 1 .. Len(strings[n]) /\ c = strings[n][k + 1]
              /\ i + Len(Escaped(c)) = CharAt(strings, n, k + 1) + 1
              /\ i + Len(Escaped(c)) <= Len(text)
              /\ \A p \in 1 .. Len(Escaped(c)) : text[(i - 1) + p] = Escaped(c)[p]
  <2>1. n = Len(stringTable) + 1 /\ k = Len(token)
      OBVIOUS
  <2> HIDE DEF n, k
  <2> QED BY <1>1, <2>1, ScanningAt, SMTT(30)
<1>3. PICK c \in Characters :
              /\ k + 1 \in 1 .. Len(strings[n]) /\ c = strings[n][k + 1]
              /\ i + Len(Escaped(c)) = CharAt(strings, n, k + 1) + 1
              /\ i + Len(Escaped(c)) <= Len(text)
              /\ \A p \in 1 .. Len(Escaped(c)) : text[(i - 1) + p] = Escaped(c)[p]
    BY <1>1, <1>2
<1>4. (i - 1) + 1 = i
    BY <1>2
<1>5. /\ 1 \in 1 .. Len(Escaped(c))
      /\ Escaped(c) = <<c>> \/ Escaped(c)[1] = "\\"
    BY EscapedIs
<1>6. text[i] = Escaped(c)[1]
    BY <1>3, <1>4, <1>5
<1>7. Escaped(c) = <<c>> /\ text[i] = c
    BY <1>1, <1>5, <1>6
<1>8. i' = i + Len(Escaped(c)) /\ token' = token \o <<c>>
    BY <1>7 DEF CopyCharacter, Gather
<1>9. UNCHANGED <<direction, strings, stage, text, startNewString, results, stringTable>>
    BY DEF CopyCharacter, Gather
<1> QED BY <1>1, <1>3, <1>8, <1>9, CharacterRead

\* The quote that opens a string
LEMMA OpenQuoteStep ==
    ASSUME CodecInv, OpenQuote
    PROVE  CodecInv'
<1> DEFINE n == Len(stringTable) + 1
<1>1. /\ stage = "scanning" /\ startNewString /\ i <= Len(text) /\ i' = i + 1
      /\ startNewString' = FALSE
      /\ UNCHANGED <<direction, strings, stage, text, token, results, stringTable>>
    BY DEF OpenQuote, Reading
<1>2. /\ text = Body(strings) /\ strings \in Seq(Texts) /\ stringTable \in Seq(Texts)
      /\ token = <<>> /\ n <= Len(strings) + 1
      /\ n <= Len(strings) => i = OpenAt(strings, n) + 1
      /\ n = Len(strings) + 1 => i = Len(text) + 1
    BY <1>1 DEF CodecInv, CodecTypeOK, Scanning, Texts
<1>3. Len(text) \in Nat /\ Len(strings) \in Nat
    BY <1>2, BodyHolds
<1>4. n \in 1 .. Len(strings) /\ i = OpenAt(strings, n) + 1
    BY <1>1, <1>2, <1>3
<1>5. /\ CharAt(strings, n, 0) = OpenAt(strings, n) + 1 /\ OpenAt(strings, n) \in Nat
      /\ strings[n] \in Texts /\ Len(strings[n]) \in Nat
    BY <1>2, <1>4, CharsLie
<1>6. i' = CharAt(strings, n, 0) + 1 /\ i' \in 1 .. Len(text) + 1
    BY <1>1, <1>3, <1>4, <1>5
<1>7. Len(token) = 0
    BY <1>2
<1>8. Gathered(n)'
    BY <1>1, <1>5, <1>7 DEF Gathered
<1>9. i' = (CharAt(strings, n, Len(token)) + 1)'
    BY <1>1, <1>6, <1>7 DEF CharAt, OpenAt
<1>10. Scanning'
    BY <1>1, <1>4, <1>8, <1>9 DEF CodecInv, Scanning
<1>11. CodecTypeOK'
    BY <1>1, <1>6 DEF CodecInv, CodecTypeOK
<1> QED BY <1>1, <1>10, <1>11 DEF CodecInv

\* Two texts with the same characters are the same.
LEMMA SameText ==
    ASSUME NEW a \in Texts, NEW s \in Texts, Len(a) = Len(s),
           \A k \in 1 .. Len(a) : a[k] = s[k]
    PROVE  a = s
    BY SeqEqual DEF Texts

\* A table with one string more
LEMMA TableGrows ==
    ASSUME NEW t \in Seq(Texts), NEW s \in Texts
    PROVE  /\ Append(t, s) \in Seq(Texts) /\ Len(Append(t, s)) = Len(t) + 1 /\ Len(t) \in Nat
           /\ \A k \in 1 .. Len(t) : Append(t, s)[k] = t[k]
           /\ Append(t, s)[Len(t) + 1] = s
    BY AppendProperties

\* The quote that closes a string, and the comma after it
LEMMA CloseQuoteStep ==
    ASSUME CodecInv, CloseQuote
    PROVE  CodecInv'
<1> DEFINE n == Len(stringTable) + 1
           k == Len(token)
           s == strings[n]
<1>1. /\ stage = "scanning" /\ ~startNewString /\ text[i] = "quote"
      /\ stringTable' = Append(stringTable, token) /\ token' = <<>> /\ startNewString' = TRUE
      /\ i' = IF i # Len(text) THEN i + 2 ELSE i + 1
      /\ UNCHANGED <<direction, strings, stage, text, results>>
    BY DEF CloseQuote, Reading
<1>2. /\ n \in 1 .. Len(strings) /\ s \in Texts /\ Len(s) \in Nat
      /\ k \in 0 .. Len(s) /\ i = CharAt(strings, n, k) + 1 /\ i \in Nat
      /\ Len(text) \in Nat /\ i <= Len(text)
      /\ \/ k = Len(s) /\ text[i] = "quote"
         \/ \E c \in Characters :
              /\ k + 1 \in 1 .. Len(s) /\ c = s[k + 1]
              /\ i + Len(Escaped(c)) = CharAt(strings, n, k + 1) + 1
              /\ i + Len(Escaped(c)) <= Len(text)
              /\ \A p \in 1 .. Len(Escaped(c)) : text[(i - 1) + p] = Escaped(c)[p]
  <2>1. /\ stage = "scanning" /\ ~startNewString
        /\ n = Len(stringTable) + 1 /\ k = Len(token)
      BY <1>1
  <2> HIDE DEF n, k
  <2>2. /\ n \in 1 .. Len(strings) /\ strings[n] \in Texts /\ Len(strings[n]) \in Nat
        /\ i = CharAt(strings, n, k) + 1 /\ Len(text) \in Nat /\ i <= Len(text)
      BY <2>1, ScanningAt, SMTT(30)
  <2>3. /\ k \in 0 .. Len(strings[n]) /\ i \in Nat
        /\ \/ k = Len(strings[n]) /\ text[i] = "quote"
           \/ \E c \in Characters :
                /\ k + 1 \in 1 .. Len(strings[n]) /\ c = strings[n][k + 1]
                /\ i + Len(Escaped(c)) = CharAt(strings, n, k + 1) + 1
                /\ i + Len(Escaped(c)) <= Len(text)
                /\ \A p \in 1 .. Len(Escaped(c)) : text[(i - 1) + p] = Escaped(c)[p]
      BY <2>1, ScanningAt, SMTT(30)
  <2> QED BY <2>2, <2>3
<1>3. /\ text = Body(strings) /\ strings \in Seq(Texts) /\ stringTable \in Seq(Texts)
      /\ token \in Texts /\ \A j \in 1 .. Len(token) : token[j] = s[j]
      /\ \A j \in 1 .. Len(stringTable) : stringTable[j] = strings[j]
    BY <1>1 DEF CodecInv, CodecTypeOK, Scanning, Gathered, Texts
<1>4. k = Len(s)
  <2> SUFFICES ASSUME NEW c \in Characters,
                      \A p \in 1 .. Len(Escaped(c)) : text[(i - 1) + p] = Escaped(c)[p]
               PROVE  FALSE
      BY <1>2
  <2>1. 1 \in 1 .. Len(Escaped(c)) /\ Escaped(c)[1] # "quote"
    <3>1. CASE c \in Plain /\ Escaped(c) = <<c>>
        BY <3>1 DEF Plain
    <3>2. CASE ~(c \in Plain /\ Escaped(c) = <<c>>)
      <4>1. 1 \in 1 .. Len(Escaped(c)) /\ Escaped(c)[1] = "\\"
          BY <3>2, EscapedIs
      <4> QED BY <4>1
    <3> QED BY <3>1, <3>2
  <2>2. (i - 1) + 1 = i
      BY <1>2
  <2> QED BY <1>1, <2>1, <2>2
<1>5. token = s
  <2>1. \A j \in 1 .. Len(token) : token[j] = s[j]
      BY <1>3
  <2> HIDE DEF s
  <2> QED BY <1>2, <1>3, <1>4, <2>1, SameText
<1>6. /\ stringTable' \in Seq(Texts) /\ Len(stringTable') = n
      /\ \A j \in 1 .. n : stringTable'[j] = strings[j]
  <2> DEFINE t == Append(stringTable, token)
  <2>1. /\ t \in Seq(Texts) /\ Len(t) = Len(stringTable) + 1 /\ Len(stringTable) \in Nat
        /\ \A j \in 1 .. Len(stringTable) : t[j] = stringTable[j]
        /\ t[Len(stringTable) + 1] = token
      BY <1>3, TableGrows
  <2> HIDE DEF t
  <2>2. \A j \in 1 .. n : j \in 1 .. Len(stringTable) \/ j = n
      BY <2>1
  <2>3. t[n] = strings[n]
      BY <2>1, <1>5
  <2>4. \A j \in 1 .. n : t[j] = strings[j]
      BY <2>1, <2>2, <2>3, <1>3
  <2> QED BY <1>1, <2>1, <2>4 DEF t
<1>7. /\ n = Len(strings) => i = Len(text)
      /\ n # Len(strings) => /\ n + 1 \in 1 .. Len(strings)
                             /\ OpenAt(strings, n + 1) = i + 1 /\ i # Len(text)
                             /\ i + 2 <= Len(text)
  <2>1. /\ n = Len(strings) => CharAt(strings, n, Len(s)) + 1 = Len(Body(strings))
        /\ n # Len(strings) => /\ n + 1 \in 1 .. Len(strings)
                               /\ OpenAt(strings, n + 1) = CharAt(strings, n, Len(s)) + 2
                               /\ CharAt(strings, n, Len(s)) + 1 # Len(Body(strings))
    <3>1. n \in 1 .. Len(strings) /\ s = strings[n]
        BY <1>2
    <3> HIDE DEF n, s
    <3> QED BY <1>3, <3>1, StringsLie
  <2> DEFINE x == CharAt(strings, n, Len(s))
  <2>2. i = x + 1 /\ x \in Nat
    <3>1. Len(s) \in 0 .. Len(s)
        BY <1>2
    <3>2. x \in Nat
        BY <1>2, <1>3, <3>1, CharsLie
    <3> QED BY <1>2, <1>4, <3>2
  <2>3. ASSUME n + 1 \in 1 .. Len(strings) PROVE OpenAt(strings, n + 1) + 1 <= Len(text)
    <3> DEFINE m == n + 1
    <3>1. m \in 1 .. Len(strings)
        BY <2>3
    <3> HIDE DEF m
    <3>2. OpenAt(strings, m) + 1 <= Len(text)
        BY <1>3, <3>1, StringsLie
    <3> QED BY <3>2 DEF m
  <2> HIDE DEF x
  <2>4. ASSUME n # Len(strings)
        PROVE  /\ n + 1 \in 1 .. Len(strings)
               /\ OpenAt(strings, n + 1) = i + 1 /\ i # Len(text) /\ i + 2 <= Len(text)
    <3>1. /\ n + 1 \in 1 .. Len(strings) /\ OpenAt(strings, n + 1) = x + 2
          /\ x + 1 # Len(text)
        BY <2>1, <2>4, <1>3 DEF x
    <3>2. OpenAt(strings, n + 1) + 1 <= Len(text)
        BY <2>3, <3>1
    <3> DEFINE o == OpenAt(strings, n + 1)
    <3>3. o = x + 2 /\ o + 1 <= Len(text)
        BY <3>1, <3>2
    <3> HIDE DEF o
    <3>4. o = i + 1 /\ i # Len(text) /\ i + 2 <= Len(text)
        BY <3>1, <3>3, <2>2, <1>2
    <3> QED BY <3>1, <3>4 DEF o
  <2>5. n = Len(strings) => i = Len(text)
      BY <2>1, <2>2, <1>3 DEF x
  <2> QED BY <2>4, <2>5
<1>8. Len(stringTable') + 1 = n + 1 /\ n \in Nat /\ Len(strings) \in Nat
    BY <1>2, <1>3, <1>6
<1>9. /\ n = Len(strings) => i' = Len(text) + 1
      /\ n # Len(strings) => n + 1 \in 1 .. Len(strings) /\ i' = OpenAt(strings, n + 1) + 1
      /\ i' \in 1 .. Len(text) + 1
  <2>1. CASE n = Len(strings)
      BY <1>1, <1>2, <1>7, <2>1
  <2>2. CASE n # Len(strings)
      BY <1>1, <1>2, <1>7, <2>2
  <2> QED BY <2>1, <2>2
<1>10. Scanning'
  <2> DEFINE m == n + 1
             st == stringTable'
  <2>1. /\ m <= Len(strings) + 1 /\ Len(st) + 1 = m
        /\ m <= Len(strings) => i' = OpenAt(strings, m) + 1
        /\ m = Len(strings) + 1 => i' = Len(text) + 1
      BY <1>2, <1>8, <1>9
  <2>2. \A j \in 1 .. Len(st) : st[j] = strings[j]
      BY <1>6
  <2>3. text = Body(strings) /\ results = PayloadTokens
      BY <1>1 DEF CodecInv, Scanning
  <2>5. (Len(stringTable) + 1)' = m
      BY <2>1
  <2> HIDE DEF m
  <2> QED BY <1>1, <2>1, <2>2, <2>3, <2>5 DEF Scanning
<1>11. CodecTypeOK'
  <2>1. token' \in Seq(Characters)
      BY <1>1
  <2>2. stringTable' \in Seq(Seq(Characters))
      BY <1>6 DEF Texts
  <2> QED BY <1>1, <1>9, <2>1, <2>2 DEF CodecInv, CodecTypeOK
<1> QED BY <1>1, <1>10, <1>11 DEF CodecInv

\* The end of the scan
LEMMA ScanEndStep ==
    ASSUME CodecInv, ScanEnd
    PROVE  CodecInv'
<1>1. /\ stage = "scanning" /\ i > Len(text) /\ stage' = "read"
      /\ UNCHANGED <<direction, strings, text, i, startNewString, token, results, stringTable>>
    BY DEF ScanEnd, ReadAll
<1>2. /\ text = Body(strings) /\ strings \in Seq(Texts) /\ stringTable \in Seq(Texts)
      /\ Len(stringTable) + 1 <= Len(strings) + 1 /\ results = PayloadTokens
      /\ \A k \in 1 .. Len(stringTable) : stringTable[k] = strings[k]
    BY <1>1 DEF CodecInv, CodecTypeOK, Scanning, Texts
<1>3. startNewString
  <2> SUFFICES ASSUME ~startNewString PROVE FALSE
      BY DEF CodecInv, CodecTypeOK
  <2>1. i <= Len(text) /\ i \in Nat /\ Len(text) \in Nat
      BY <1>1, ScanningAt
  <2> QED BY <1>1, <2>1
<1>4. Len(stringTable) = Len(strings)
  <2> SUFFICES ASSUME Len(stringTable) # Len(strings) PROVE FALSE
      OBVIOUS
  <2> DEFINE n == Len(stringTable) + 1
  <2>1. n \in 1 .. Len(strings)
      BY <1>2
  <2>2. i = OpenAt(strings, n) + 1
      BY <1>1, <1>3, <2>1 DEF CodecInv, Scanning
  <2> HIDE DEF n
  <2>3. OpenAt(strings, n) + 1 <= Len(text) /\ OpenAt(strings, n) \in Nat
      BY <1>2, <2>1, StringsLie, CharsLie
  <2>4. Len(text) \in Nat
      BY <1>2, BodyHolds
  <2> QED BY <1>1, <2>2, <2>3, <2>4
<1>5. stringTable = strings
    BY <1>2, <1>4, SeqEqual
<1>6. CodecTypeOK'
    BY <1>1 DEF CodecInv, CodecTypeOK, Ends
<1> QED BY <1>1, <1>2, <1>5, <1>6 DEF CodecInv, PayloadTokens

--------------------------------------------------------------------------------
(* Steps of parse *)

\* A sequence with one more element
LEMMA AppendIs ==
    ASSUME NEW S, NEW s \in Seq(S), NEW t \in Seq(S), NEW x \in S,
           Len(t) = Len(s) + 1, t[Len(s) + 1] = x, \A k \in 1 .. Len(s) : t[k] = s[k]
    PROVE  Append(s, x) = t
<1>1. Append(s, x) \in Seq(S) /\ Len(Append(s, x)) = Len(s) + 1
    BY AppendProperties
<1>2. Append(s, x)[Len(s) + 1] = x
    BY AppendProperties
<1>3. \A k \in 1 .. Len(s) : Append(s, x)[k] = s[k]
    BY AppendProperties
<1>4. \A k \in 1 .. Len(t) : Append(s, x)[k] = t[k]
    BY <1>2, <1>3
<1> QED BY <1>1, <1>4, SeqEqual

\* The tokens of an answer, as parse collects them
LEMMA TokensGrow ==
    ASSUME NEW table \in Texts
    PROVE  /\ Append(<<<<"0">>>>, <<"1f">>) = <<<<"0">>, <<"1f">>>>
           /\ Append(<<<<"0">>, <<"1f">>>>, table) = <<<<"0">>, <<"1f">>, table>>
           /\ Append(<<<<"0">>, <<"1f">>, table>>, <<"0">>) = <<<<"0">>, <<"1f">>, table, <<"0">>>>
           /\ Append(<<<<"0">>, <<"1f">>, table, <<"0">>>>, <<"1f">>)
                = <<<<"0">>, <<"1f">>, table, <<"0">>, <<"1f">>>>
<1> DEFINE zero == <<"0">>
           one == <<"1f">>
<1>1. zero \in Texts /\ one \in Texts
  <2>1. "0" \in Characters /\ "1f" \in Characters
      BY DEF Characters, Letters
  <2> QED BY <2>1, SingleText
<1> HIDE DEF zero, one
<1>2. /\ <<zero>> \in Seq(Texts) /\ <<zero, one>> \in Seq(Texts)
      /\ <<zero, one, table>> \in Seq(Texts) /\ <<zero, one, table, zero>> \in Seq(Texts)
      /\ <<zero, one, table, zero, one>> \in Seq(Texts)
    BY <1>1
<1>3. Append(<<zero>>, one) = <<zero, one>>
  <2> DEFINE s == <<zero>>
             t == <<zero, one>>
  <2>1. s \in Seq(Texts) /\ t \in Seq(Texts)
      BY <1>2
  <2>2. Len(t) = Len(s) + 1 /\ t[Len(s) + 1] = one
      OBVIOUS
  <2>3. \A k \in 1 .. Len(s) : t[k] = s[k]
      OBVIOUS
  <2> HIDE DEF s, t
  <2>4. Append(s, one) = t
      BY <1>1, <2>1, <2>2, <2>3, AppendIs
  <2> QED BY <2>4 DEF s, t
<1>4. Append(<<zero, one>>, table) = <<zero, one, table>>
  <2> DEFINE s == <<zero, one>>
             t == <<zero, one, table>>
  <2>1. s \in Seq(Texts) /\ t \in Seq(Texts)
      BY <1>2
  <2>2. Len(t) = Len(s) + 1 /\ t[Len(s) + 1] = table
      OBVIOUS
  <2>3. \A k \in 1 .. Len(s) : t[k] = s[k]
      OBVIOUS
  <2> HIDE DEF s, t
  <2>4. Append(s, table) = t
      BY <1>1, <2>1, <2>2, <2>3, AppendIs
  <2> QED BY <2>4 DEF s, t
<1>5. Append(<<zero, one, table>>, zero) = <<zero, one, table, zero>>
  <2> DEFINE s == <<zero, one, table>>
             t == <<zero, one, table, zero>>
  <2>1. s \in Seq(Texts) /\ t \in Seq(Texts)
      BY <1>2
  <2>2. Len(t) = Len(s) + 1 /\ t[Len(s) + 1] = zero
      OBVIOUS
  <2>3. \A k \in 1 .. Len(s) : t[k] = s[k]
      OBVIOUS
  <2> HIDE DEF s, t
  <2>4. Append(s, zero) = t
      BY <1>1, <2>1, <2>2, <2>3, AppendIs
  <2> QED BY <2>4 DEF s, t
<1>6. Append(<<zero, one, table, zero>>, one) = <<zero, one, table, zero, one>>
  <2> DEFINE s == <<zero, one, table, zero>>
             t == <<zero, one, table, zero, one>>
  <2>1. s \in Seq(Texts) /\ t \in Seq(Texts)
      BY <1>2
  <2>2. Len(t) = Len(s) + 1 /\ t[Len(s) + 1] = one
      OBVIOUS
  <2>3. \A k \in 1 .. Len(s) : t[k] = s[k]
      OBVIOUS
  <2> HIDE DEF s, t
  <2>4. Append(s, one) = t
      BY <1>1, <2>1, <2>2, <2>3, AppendIs
  <2> QED BY <2>4 DEF s, t
<1> QED BY <1>3, <1>4, <1>5, <1>6 DEF zero, one

\* What parse reads of the answer to a table, and where
LEMMA ParsingAt ==
    ASSUME CodecInv, stage = "parsing"
    PROVE  LET L == Len(Body(strings))
           IN /\ strings \in Seq(Texts) /\ L \in Nat /\ Len(text) = L + 10 /\ i \in Nat
              /\ text \in Texts /\ Parsing /\ token \in Texts /\ results \in Seq(Texts)
              /\ direction = "response" /\ Body(strings) \in Texts
              /\ text[1] = "0" /\ text[2] = "comma" /\ text[3] = "1f" /\ text[4] = "comma"
              /\ text[5] = "[" /\ text[L + 8] = "0" /\ text[L + 9] = "comma"
              /\ text[L + 10] = "1f" /\ LastBracket(text) = L + 6
              /\ SubSeq(text, 6, L + 5) = Body(strings)
<1>1. /\ strings \in Seq(Texts) /\ text \in Texts /\ token \in Texts /\ results \in Seq(Texts)
      /\ Parsing /\ text = Answer(strings)
    BY DEF CodecInv, CodecTypeOK, Texts, Parsing
<1>2. direction = "response"
    BY DEF CodecInv, CodecTypeOK
<1>3. i \in Nat
    BY DEF CodecInv, CodecTypeOK
<1>4. Body(strings) \in Texts
    BY <1>1, BodyHolds
<1> QED BY <1>1, <1>2, <1>3, <1>4, AnswerHolds, TableIsCutOut

\* The answer is parsed from its start.
LEMMA SendResponseStep ==
    ASSUME CodecInv, SendResponse
    PROVE  CodecInv'
<1>1. /\ stage = "sending" /\ direction = "response" /\ stage' = "parsing"
      /\ text' = Answer(strings)
      /\ UNCHANGED <<direction, strings, i, startNewString, token, results, stringTable>>
    BY DEF SendResponse, Answer
<1>2. /\ i = 1 /\ startNewString /\ token = <<>> /\ results = <<>> /\ stringTable = <<>>
    BY <1>1 DEF CodecInv
<1>3. strings \in Seq(Texts)
    BY DEF CodecInv, CodecTypeOK, Texts
<1>4. text' \in Texts /\ Len(text') \in Nat
  <2>1. text' \in Texts
      BY <1>1, <1>3, AnswerHolds
  <2> QED BY <2>1 DEF Texts
<1>5. Parsing'
    BY <1>1, <1>2 DEF Parsing
<1>6. CodecTypeOK'
  <2>1. i' \in 1 .. Len(text') + 2
      BY <1>1, <1>2, <1>4
  <2> QED BY <1>1, <1>4, <2>1 DEF CodecInv, CodecTypeOK, Texts
<1> QED BY <1>1, <1>5, <1>6 DEF CodecInv

\* A step of parse that leaves it between two characters keeps the invariant.
LEMMA StillParsing ==
    ASSUME CodecInv, stage = "parsing", Parsing', i' \in 1 .. Len(text) + 2,
           token' \in Texts, results' \in Seq(Texts),
           UNCHANGED <<direction, strings, stage, text, startNewString, stringTable>>
    PROVE  CodecInv'
<1>1. CodecTypeOK'
    BY DEF CodecInv, CodecTypeOK, Texts
<1> QED BY <1>1 DEF CodecInv

\* A character of a token
LEMMA ParseCharacterStep ==
    ASSUME CodecInv, ParseCharacter
    PROVE  CodecInv'
<1> DEFINE L == Len(Body(strings))
           table == Body(strings)
<1>1. /\ stage = "parsing" /\ i <= Len(text) /\ text[i] \notin {"comma", "["}
      /\ i' = i + 1 /\ token' = token \o <<text[i]>>
      /\ UNCHANGED <<direction, strings, stage, text, startNewString, results, stringTable>>
    BY DEF ParseCharacter, Reading, Gather
<1>2. /\ strings \in Seq(Texts) /\ L \in Nat /\ Len(text) = L + 10 /\ i \in Nat
      /\ text \in Texts /\ Parsing /\ token \in Texts /\ results \in Seq(Texts)
      /\ text[1] = "0" /\ text[2] = "comma" /\ text[3] = "1f" /\ text[4] = "comma"
      /\ text[5] = "[" /\ text[L + 8] = "0" /\ text[L + 9] = "comma"
      /\ text[L + 10] = "1f"
    BY <1>1, ParsingAt
<1>3. \/ i = 1 /\ token = <<>> /\ results = <<>>
      \/ i = 3 /\ token = <<>> /\ results = <<<<"0">>>>
      \/ i = L + 8 /\ token = <<>> /\ results = <<<<"0">>, <<"1f">>, table>>
      \/ i = L + 10 /\ token = <<>> /\ results = <<<<"0">>, <<"1f">>, table, <<"0">>>>
    BY <1>1, <1>2 DEF Parsing
<1>4. token' = <<text[i]>>
  <2>1. token = <<>>
      BY <1>3
  <2>2. i \in 1 .. Len(text)
      BY <1>1, <1>2 DEF CodecInv, CodecTypeOK
  <2>3. text[i] \in Characters
      BY <1>2, <2>2 DEF Texts
  <2>4. <<text[i]>> \in Texts
      BY <2>3, SingleText
  <2>5. <<>> \o <<text[i]>> = <<text[i]>>
      BY <2>4, ConcatEmptySeq DEF Texts
  <2> QED BY <1>1, <2>1, <2>5
<1>5. \/ i' = 2 /\ token' = <<"0">> /\ results' = <<>>
      \/ i' = 4 /\ token' = <<"1f">> /\ results' = <<<<"0">>>>
      \/ i' = L + 9 /\ token' = <<"0">> /\ results' = <<<<"0">>, <<"1f">>, table>>
      \/ i' = L + 11 /\ token' = <<"1f">> /\ results' = <<<<"0">>, <<"1f">>, table, <<"0">>>>
  <2> DEFINE three == <<<<"0">>, <<"1f">>, table>>
             four == <<<<"0">>, <<"1f">>, table, <<"0">>>>
  <2>1. \/ i = 1 /\ results = <<>>
        \/ i = 3 /\ results = <<<<"0">>>>
        \/ i = L + 8 /\ results = three
        \/ i = L + 10 /\ results = four
      BY <1>3
  <2> HIDE DEF L, three, four
  <2>2. /\ results' = results /\ i' = i + 1 /\ L \in Nat
        /\ text[1] = "0" /\ text[3] = "1f" /\ text[L + 8] = "0" /\ text[L + 10] = "1f"
      BY <1>1, <1>2
  <2>3. CASE i = 1 /\ results = <<>>
      BY <1>4, <2>2, <2>3
  <2>4. CASE i = 3 /\ results = <<<<"0">>>>
      BY <1>4, <2>2, <2>4
  <2>5. CASE i = L + 8 /\ results = three
    <3>1. i' = L + 9 /\ token' = <<"0">> /\ results' = three
        BY <1>4, <2>2, <2>5
    <3> QED BY <3>1 DEF three
  <2>6. CASE i = L + 10 /\ results = four
    <3>1. i' = L + 11 /\ token' = <<"1f">> /\ results' = four
        BY <1>4, <2>2, <2>6
    <3> QED BY <3>1 DEF four
  <2> QED BY <2>1, <2>3, <2>4, <2>5, <2>6
<1>6. Parsing'
  <2>1. /\ text' = Answer(strings)' /\ startNewString' /\ stringTable' = <<>>
      BY <1>1, <1>2 DEF Parsing, Answer, Response
  <2>2. Body(strings)' = table
      BY <1>1 DEF Body, TableParts
  <2> QED BY <1>5, <2>1, <2>2 DEF Parsing
<1>7. token' \in Texts
  <2>1. "0" \in Characters /\ "1f" \in Characters
      BY DEF Characters, Letters
  <2>2. <<"0">> \in Texts /\ <<"1f">> \in Texts
      BY <2>1, SingleText
  <2> QED BY <1>5, <2>2
<1>8. i' \in 1 .. Len(text) + 2
    BY <1>1, <1>2
<1> QED BY <1>1, <1>2, <1>6, <1>7, <1>8, StillParsing

\* The comma that ends a token
LEMMA ParseCommaStep ==
    ASSUME CodecInv, ParseComma
    PROVE  CodecInv'
<1> DEFINE L == Len(Body(strings))
           table == Body(strings)
<1>1. /\ stage = "parsing" /\ i <= Len(text) /\ text[i] = "comma"
      /\ i' = i + 1 /\ token' = <<>> /\ results' = Append(results, token)
      /\ UNCHANGED <<direction, strings, stage, text, startNewString, stringTable>>
    BY DEF ParseComma, Reading
<1>2. /\ strings \in Seq(Texts) /\ L \in Nat /\ Len(text) = L + 10 /\ i \in Nat
      /\ table \in Texts
      /\ text \in Texts /\ Parsing /\ token \in Texts /\ results \in Seq(Texts)
      /\ text[1] = "0" /\ text[2] = "comma" /\ text[3] = "1f" /\ text[4] = "comma"
      /\ text[5] = "[" /\ text[L + 8] = "0" /\ text[L + 9] = "comma"
      /\ text[L + 10] = "1f"
    BY <1>1, ParsingAt
<1>3. \/ i = 2 /\ token = <<"0">> /\ results = <<>>
      \/ i = 4 /\ token = <<"1f">> /\ results = <<<<"0">>>>
      \/ i = L + 9 /\ token = <<"0">> /\ results = <<<<"0">>, <<"1f">>, table>>
    BY <1>1, <1>2 DEF Parsing
<1>4. \/ i' = 3 /\ token' = <<>> /\ results' = <<<<"0">>>>
      \/ i' = 5 /\ token' = <<>> /\ results' = <<<<"0">>, <<"1f">>>>
      \/ i' = L + 10 /\ token' = <<>> /\ results' = <<<<"0">>, <<"1f">>, table, <<"0">>>>
  <2> HIDE DEF L, table
  <2>1. CASE i = 2 /\ token = <<"0">> /\ results = <<>>
    <3>1. Append(<<>>, <<"0">>) = <<<<"0">>>>
        OBVIOUS
    <3> QED BY <1>1, <2>1, <3>1
  <2>2. CASE i = 4 /\ token = <<"1f">> /\ results = <<<<"0">>>>
    <3>1. Append(<<<<"0">>>>, <<"1f">>) = <<<<"0">>, <<"1f">>>>
        BY <1>2, TokensGrow
    <3> QED BY <1>1, <2>2, <3>1
  <2>3. CASE i = L + 9 /\ token = <<"0">> /\ results = <<<<"0">>, <<"1f">>, table>>
    <3>1. Append(<<<<"0">>, <<"1f">>, table>>, <<"0">>) = <<<<"0">>, <<"1f">>, table, <<"0">>>>
        BY <1>2, TokensGrow
    <3>2. L + 9 + 1 = L + 10
        BY <1>2
    <3> QED BY <1>1, <2>3, <3>1, <3>2
  <2> QED BY <1>3, <2>1, <2>2, <2>3
<1>5. Parsing'
  <2>1. /\ text' = Answer(strings)' /\ startNewString' /\ stringTable' = <<>>
      BY <1>1, <1>2 DEF Parsing, Answer, Response
  <2>2. Body(strings)' = table
      BY <1>1 DEF Body, TableParts
  <2> QED BY <1>4, <2>1, <2>2 DEF Parsing
<1>6. token' \in Texts /\ results' \in Seq(Texts)
  <2>1. <<>> \in Texts
      BY DEF Texts
  <2>2. Append(results, token) \in Seq(Texts)
      BY <1>2, TableGrows
  <2> QED BY <1>1, <2>1, <2>2
<1>7. i' \in 1 .. Len(text) + 2
    BY <1>1, <1>2
<1> QED BY <1>1, <1>5, <1>6, <1>7, StillParsing

\* The table, cut out whole
LEMMA ParseTableStep ==
    ASSUME CodecInv, ParseTable
    PROVE  CodecInv'
<1> DEFINE L == Len(Body(strings))
           table == Body(strings)
<1>1. /\ stage = "parsing" /\ i <= Len(text) /\ text[i] = "["
      /\ results' = Append(results, SubSeq(text, i + 1, LastBracket(text) - 1))
      /\ i' = LastBracket(text) + 2
      /\ UNCHANGED <<direction, strings, stage, text, startNewString, token, stringTable>>
    BY DEF ParseTable, Reading, LastBracket
<1>2. /\ strings \in Seq(Texts) /\ L \in Nat /\ Len(text) = L + 10 /\ i \in Nat
      /\ text \in Texts /\ Parsing /\ token \in Texts /\ results \in Seq(Texts)
      /\ table \in Texts
      /\ text[1] = "0" /\ text[2] = "comma" /\ text[3] = "1f" /\ text[4] = "comma"
      /\ text[5] = "[" /\ text[L + 8] = "0" /\ text[L + 9] = "comma"
      /\ text[L + 10] = "1f" /\ LastBracket(text) = L + 6
      /\ SubSeq(text, 6, L + 5) = table
    BY <1>1, ParsingAt
<1>3. i = 5 /\ token = <<>> /\ results = <<<<"0">>, <<"1f">>>>
  <2>1. \/ i = 1 \/ i = 2 \/ i = 3 \/ i = 4
        \/ i = L + 8 \/ i = L + 9 \/ i = L + 10 \/ i = L + 11
        \/ i = 5 /\ token = <<>> /\ results = <<<<"0">>, <<"1f">>>>
      BY <1>2 DEF Parsing
  <2> HIDE DEF L, table
  <2>2. text[i] = "[" /\ i <= L + 10 /\ L \in Nat
      BY <1>1, <1>2
  <2>3. /\ i # 1 /\ i # 2 /\ i # 3 /\ i # 4 /\ i # L + 8 /\ i # L + 9 /\ i # L + 10
        /\ i # L + 11
      BY <1>2, <2>2
  <2> QED BY <2>1, <2>3
<1>4. i + 1 = 6 /\ LastBracket(text) - 1 = L + 5 /\ LastBracket(text) + 2 = L + 8
    BY <1>2, <1>3
<1>5. i' = L + 8 /\ token' = <<>> /\ results' = <<<<"0">>, <<"1f">>, table>>
  <2> HIDE DEF L, table
  <2>1. Append(<<<<"0">>, <<"1f">>>>, table) = <<<<"0">>, <<"1f">>, table>>
      BY <1>2, TokensGrow
  <2> QED BY <1>1, <1>2, <1>3, <1>4, <2>1
<1>6. Parsing'
  <2>1. /\ text' = Answer(strings)' /\ startNewString' /\ stringTable' = <<>>
      BY <1>1, <1>2 DEF Parsing, Answer, Response
  <2>2. Body(strings)' = table
      BY <1>1 DEF Body, TableParts
  <2> QED BY <1>5, <2>1, <2>2 DEF Parsing
<1>7. results' \in Seq(Texts)
  <2>1. Append(results, table) \in Seq(Texts)
      BY <1>2, TableGrows
  <2> QED BY <1>1, <1>2, <1>4, <2>1
<1>8. i' \in 1 .. Len(text) + 2
    BY <1>2, <1>5
<1> QED BY <1>1, <1>2, <1>6, <1>7, <1>8, StillParsing

\* The tokens are all there, the version is the expected one, and the scan starts.
LEMMA ParseEndStep ==
    ASSUME CodecInv, ParseEnd
    PROVE  CodecInv'
<1> DEFINE L == Len(Body(strings))
           table == Body(strings)
           all == <<<<"0">>, <<"1f">>, table, <<"0">>, <<"1f">>>>
<1>1. stage = "parsing" /\ i > Len(text)
    BY DEF ParseEnd, ReadAll
<1>2. /\ strings \in Seq(Texts) /\ L \in Nat /\ Len(text) = L + 10 /\ i \in Nat
      /\ Parsing /\ direction = "response" /\ table \in Texts
    BY <1>1, ParsingAt
<1>3. /\ i = L + 11 /\ token = <<"1f">> /\ results = <<<<"0">>, <<"1f">>, table, <<"0">>>>
      /\ startNewString /\ stringTable = <<>>
    BY <1>1, <1>2 DEF Parsing
<1>4. (IF token = <<>> THEN results ELSE Append(results, token)) = all
  <2> HIDE DEF table
  <2>1. <<"1f">> # <<>>
      OBVIOUS
  <2>2. Append(<<<<"0">>, <<"1f">>, table, <<"0">>>>, <<"1f">>) = all
      BY <1>2, TokensGrow
  <2> QED BY <1>3, <2>1, <2>2
<1>5. /\ Len(all) = 5 /\ all[5] = <<Version>> /\ all[3] = table
      /\ SubSeq(all, 1, 2) = PayloadTokens
  <2> HIDE DEF table
  <2>1. Len(all) = 5 /\ all[5] = <<Version>> /\ all[3] = table
      BY DEF Version
  <2>2. SubSeq(all, 1, 2) = PayloadTokens
    <3>1. Len(all) = 5 /\ all[1] = <<"0">> /\ all[2] = <<"1f">>
        OBVIOUS
    <3> HIDE DEF all
    <3>2. SubSeq(all, 1, 2) = [k \in 1 .. 2 |-> all[k]]
        BY <3>1
    <3>3. PayloadTokens = [k \in 1 .. 2 |-> all[k]]
        BY <3>1 DEF PayloadTokens
    <3> QED BY <3>2, <3>3
  <2> QED BY <2>1, <2>2
<1>6. /\ results' = PayloadTokens /\ stage' = "scanning" /\ text' = table
      /\ i' = 1 /\ token' = <<>>
      /\ UNCHANGED <<direction, strings, startNewString, stringTable>>
  <2>1. /\ results' = SubSeq(all, 1, Len(all) - 3)
        /\ IF all[Len(all)] = <<Version>>
             THEN stage' = "scanning" /\ text' = all[Len(all) - 2]
             ELSE stage' = "incompatible" /\ UNCHANGED text
        /\ i' = 1 /\ token' = <<>>
        /\ UNCHANGED <<direction, strings, startNewString, stringTable>>
    <3> HIDE DEF all
    <3> QED BY <1>4 DEF ParseEnd
  <2> HIDE DEF all, table
  <2>2. Len(all) - 3 = 2 /\ Len(all) - 2 = 3
      BY <1>5
  <2> QED BY <2>1, <2>2, <1>5
<1>7. Len(stringTable) = 0 /\ Len(strings) \in Nat
    BY <1>2, <1>3
<1>8. /\ 1 <= Len(strings) => 1 = OpenAt(strings, 1) + 1
      /\ 1 = Len(strings) + 1 => 1 = L + 1
    BY <1>2, <1>7, BodyHolds
<1>9. Scanning'
  <2>1. Len(stringTable)' = 0 /\ (Len(stringTable) + 1)' = 1
      BY <1>6, <1>7
  <2>2. OpenAt(strings, 1)' = OpenAt(strings, 1) /\ Body(strings)' = table
      BY <1>6 DEF OpenAt, Body, TableParts
  <2>3. /\ 1 <= Len(strings) => i' = OpenAt(strings, 1) + 1
        /\ 1 = Len(strings) + 1 => i' = Len(text') + 1
      BY <1>6, <1>8
  <2> HIDE DEF table, L
  <2> QED BY <1>3, <1>6, <1>7, <2>1, <2>2, <2>3 DEF Scanning
<1>10. CodecTypeOK'
  <2>1. PayloadTokens \in Seq(Seq(Characters))
    <3>1. "0" \in Characters /\ "1f" \in Characters
        BY DEF Characters, Letters
    <3>2. <<"0">> \in Texts /\ <<"1f">> \in Texts
        BY <3>1, SingleText
    <3> QED BY <3>2 DEF PayloadTokens, Texts
  <2>2. text' \in Seq(Characters) /\ i' \in 1 .. Len(text') + 1
      BY <1>2, <1>6 DEF Texts
  <2>3. token' \in Seq(Characters)
      BY <1>6
  <2> HIDE DEF table, L
  <2> QED BY <1>6, <2>1, <2>2, <2>3 DEF CodecInv, CodecTypeOK
<1> QED BY <1>2, <1>6, <1>9, <1>10 DEF CodecInv

--------------------------------------------------------------------------------
(* Steps of the servlet *)

\* Where the servlet is while it reads string n: after the bar of the string before, and
\* at most at its own bar
LEMMA ServingAt ==
    ASSUME CodecInv, stage = "serving", NEW n, n = Len(stringTable) + 1, n <= Len(strings)
    PROVE  /\ strings \in Seq(Texts) /\ stringTable \in Seq(Texts) /\ token \in Texts
           /\ text = Request(strings) /\ text \in Texts /\ Len(text) \in Nat
           /\ n \in 1 .. Len(strings) /\ Len(strings) \in Nat
           /\ strings[n] \in Texts /\ Len(strings[n]) \in Nat
           /\ i \in Nat /\ 1 <= i /\ BarAt(strings, n) \in Nat
           /\ BarAt(strings, n - 1) \in Nat /\ BarAt(strings, n - 1) < i
           /\ i <= BarAt(strings, n) /\ BarAt(strings, n) + 2 <= Len(text)
           /\ text[BarAt(strings, n)] = "|"
           /\ \A q \in Nat : i <= q /\ q < BarAt(strings, n) => text[q] # "|"
<1>1. /\ strings \in Seq(Texts) /\ stringTable \in Seq(Texts) /\ token \in Texts
      /\ text \in Texts /\ Len(text) \in Nat /\ i \in Nat /\ 1 <= i
    BY DEF CodecInv, CodecTypeOK, Texts
<1>2. text = Request(strings) /\ BarAt(strings, n - 1) < i /\ i <= BarAt(strings, n)
    BY DEF CodecInv, Serving
<1>3. Len(strings) \in Nat /\ Len(text) = BarAt(strings, Len(strings)) + 2
    BY <1>1, <1>2, RequestHolds
<1>4. n \in 1 .. Len(strings)
    BY <1>1, <1>3
<1>5. /\ strings[n] \in Texts /\ Len(strings[n]) \in Nat
      /\ BarAt(strings, n - 1) \in Nat /\ BarAt(strings, n) \in Nat
      /\ BarAt(strings, n) <= BarAt(strings, Len(strings))
      /\ text[BarAt(strings, n)] = "|"
      /\ \A q \in Nat : BarAt(strings, n - 1) < q /\ q < BarAt(strings, n) => text[q] # "|"
    BY <1>1, <1>2, <1>4, QuotedLie
<1>6. BarAt(strings, Len(strings)) \in Nat
    BY <1>1, RequestHolds
<1> DEFINE a == BarAt(strings, n - 1)
           b == BarAt(strings, n)
           e == BarAt(strings, Len(strings))
<1>7. /\ a \in Nat /\ b \in Nat /\ e \in Nat /\ a < i /\ i <= b /\ b <= e /\ Len(text) = e + 2
      /\ \A q \in Nat : a < q /\ q < b => text[q] # "|"
    BY <1>2, <1>3, <1>5, <1>6
<1> HIDE DEF a, b, e
<1>8. b + 2 <= Len(text) /\ \A q \in Nat : i <= q /\ q < b => text[q] # "|"
    BY <1>1, <1>7
<1> QED BY <1>1, <1>2, <1>3, <1>4, <1>5, <1>8 DEF b

\* What comes next of a string without a backslash: its bar, or its next character, quoted
LEMMA NextQuoted ==
    ASSUME CodecInv, stage = "serving", NEW n, n = Len(stringTable) + 1, n <= Len(strings),
           ~Contain(<<strings[n]>>, {"\\"}), NEW k, k = Len(token)
    PROVE  /\ k \in 0 .. Len(strings[n]) /\ \A j \in 1 .. k : token[j] = strings[n][j]
           /\ \/ k = Len(strings[n]) /\ i = BarAt(strings, n)
              \/ \E c \in Characters \ {"\\"} :
                   /\ k + 1 \in 1 .. Len(strings[n]) /\ c = strings[n][k + 1]
                   /\ i + Len(Quoted(c)) = QuotedAt(strings, n, k + 1) + 1
                   /\ i + Len(Quoted(c)) <= BarAt(strings, n)
                   /\ \A p \in 1 .. Len(Quoted(c)) : text[(i - 1) + p] = Quoted(c)[p]
<1> DEFINE s == strings[n]
<1>1. /\ strings \in Seq(Texts) /\ token \in Texts /\ text = Request(strings)
      /\ n \in 1 .. Len(strings) /\ s \in Texts /\ Len(s) \in Nat /\ i \in Nat
      /\ BarAt(strings, n) \in Nat
    BY ServingAt
<1>2. Gathered(n) /\ i = QuotedAt(strings, n, k) + 1
    BY DEF CodecInv, Serving
<1>3. k \in 0 .. Len(s) /\ \A j \in 1 .. k : token[j] = s[j]
    BY <1>1, <1>2 DEF Gathered, Texts
<1>4. /\ QuotedAt(strings, n, Len(s)) + 1 = BarAt(strings, n)
      /\ \A j \in 0 .. Len(s) :
           QuotedAt(strings, n, j) \in Nat /\ QuotedAt(strings, n, j) <= QuotedAt(strings, n, Len(s))
      /\ \A j \in 1 .. Len(s) :
           /\ QuotedAt(strings, n, j) = QuotedAt(strings, n, j - 1) + Len(Quoted(s[j]))
           /\ \A p \in 1 .. Len(Quoted(s[j])) :
                text[QuotedAt(strings, n, j - 1) + p] = Quoted(s[j])[p]
    BY <1>1, QuotedLie, SMTT(30)
<1>5. CASE k = Len(s)
    BY <1>2, <1>3, <1>4, <1>5
<1>6. CASE k # Len(s)
  <2> DEFINE c == s[k + 1]
             m == k + 1
  <2>1. m \in 1 .. Len(s) /\ m \in 0 .. Len(s) /\ m - 1 = k
      BY <1>1, <1>3, <1>6
  <2>2. c \in Characters \ {"\\"}
    <3>1. c \in Characters
        BY <1>1, <2>1, StringParts
    <3>2. \A j \in 1 .. Len(s) : s[j] \notin {"\\"}
      <4> DEFINE t == strings
                 C == {"\\"}
      <4>1. t \in Seq(Texts) /\ n \in 1 .. Len(t)
          BY <1>1
      <4> HIDE DEF t, C
      <4>2. \A q \in 1 .. Len(t) :
              Contain(<<t[q]>>, C) <=> \E j \in 1 .. Len(t[q]) : t[q][j] \in C
          BY <4>1, ContainIs
      <4>3. ~Contain(<<t[n]>>, C)
          BY DEF t, C
      <4>4. ~\E j \in 1 .. Len(t[n]) : t[n][j] \in C
          BY <4>1, <4>2, <4>3
      <4> QED BY <4>4 DEF t, C
    <3> QED BY <2>1, <3>1, <3>2
  <2>3. Len(Quoted(c)) \in Nat
      BY <2>2, QuotedIs DEF Texts
  <2> HIDE DEF m
  <2>4. /\ QuotedAt(strings, n, m) = QuotedAt(strings, n, m - 1) + Len(Quoted(s[m]))
        /\ \A p \in 1 .. Len(Quoted(s[m])) :
             text[QuotedAt(strings, n, m - 1) + p] = Quoted(s[m])[p]
      BY <1>4, <2>1
  <2>5. c = s[m]
      BY DEF m
  <2> HIDE DEF c
  <2> DEFINE x == QuotedAt(strings, n, k)
             y == QuotedAt(strings, n, m)
             z == QuotedAt(strings, n, Len(s))
             l == Len(Quoted(c))
  <2>6. /\ x \in Nat /\ y \in Nat /\ z \in Nat /\ l \in Nat
        /\ i = x + 1 /\ y = x + l /\ y <= z /\ z + 1 = BarAt(strings, n)
      BY <1>2, <1>3, <1>4, <2>1, <2>3, <2>4, <2>5
  <2>7. \A p \in 1 .. l : text[x + p] = Quoted(c)[p]
      BY <2>1, <2>4, <2>5
  <2> HIDE DEF x, y, z
  <2>8. i + l = y + 1 /\ i + l <= BarAt(strings, n) /\ i - 1 = x
      BY <2>6, <1>1
  <2>9. \A p \in 1 .. l : text[(i - 1) + p] = Quoted(c)[p]
      BY <2>7, <2>8
  <2> QED BY <1>3, <2>1, <2>2, <2>5, <2>8, <2>9 DEF m, y
<1> QED BY <1>5, <1>6

\* A step within string n that reads a character of it leaves the servlet within it.
LEMMA CharacterServed ==
    ASSUME CodecInv, stage = "serving", NEW n, n = Len(stringTable) + 1, n <= Len(strings),
           i' \in Nat, i < i', i' <= BarAt(strings, n), token' \in Texts,
           ~Contain(<<strings[n]>>, {"\\"}) =>
             \E c \in Characters :
               /\ Len(token) + 1 \in 1 .. Len(strings[n]) /\ c = strings[n][Len(token) + 1]
               /\ i' = QuotedAt(strings, n, Len(token) + 1) + 1 /\ token' = token \o <<c>>,
           UNCHANGED <<direction, strings, stage, text, startNewString, results, stringTable>>
    PROVE  CodecInv'
<1> DEFINE s == strings[n]
<1>1. /\ s \in Texts /\ token \in Texts /\ i \in Nat /\ Len(text) \in Nat
      /\ BarAt(strings, n) \in Nat /\ BarAt(strings, n) + 2 <= Len(text)
      /\ BarAt(strings, n - 1) \in Nat /\ BarAt(strings, n - 1) < i
      /\ n \in Nat /\ Len(strings) \in Nat
    BY ServingAt
<1>2. BarAt(strings, n - 1) < i' /\ i' \in 1 .. Len(text) + 1
    BY <1>1
<1>3. ASSUME ~Contain(<<strings[n]>>, {"\\"})
      PROVE  Gathered(n)' /\ i' = QuotedAt(strings, n, Len(token')) + 1
  <2>1. PICK c \in Characters :
               /\ Len(token) + 1 \in 1 .. Len(s) /\ c = s[Len(token) + 1]
               /\ i' = QuotedAt(strings, n, Len(token) + 1) + 1 /\ token' = token \o <<c>>
      BY <1>3
  <2>2. \A j \in 1 .. Len(token) : token[j] = s[j]
      BY <1>3, NextQuoted
  <2> DEFINE a == token
  <2>3. /\ a \in Texts /\ Len(a) + 1 \in 1 .. Len(s) /\ c = s[Len(a) + 1]
        /\ \A j \in 1 .. Len(a) : a[j] = s[j] /\ s \in Texts
      BY <1>1, <2>1, <2>2
  <2> HIDE DEF a, s
  <2>4. /\ Len(a \o <<c>>) = Len(a) + 1
        /\ \A j \in 1 .. Len(a) + 1 : (a \o <<c>>)[j] = s[j]
      BY <2>3, GatheredGrows, SMTT(30)
  <2>5. Len(token') = Len(token) + 1 /\ \A j \in 1 .. Len(token') : token'[j] = s[j]
      BY <2>1, <2>4 DEF a
  <2>6. Gathered(n)'
    <3>1. Len(token') <= Len(s)
        BY <2>1, <2>5
    <3> QED BY <2>5, <3>1 DEF Gathered, s
  <2> QED BY <2>1, <2>5, <2>6
<1>4. Serving'
  <2>1. /\ text' = Request(strings)' /\ results' = <<>> /\ ~Contain(strings, {"acc", "uni"})'
        /\ PlainReadBack'
      BY DEF CodecInv, Serving, PlainReadBack, Contain, Request
  <2>2. (Len(stringTable) + 1)' = n /\ n <= Len(strings) + 1 /\ n # Len(strings) + 1
      BY <1>1
  <2>3. /\ BarAt(strings, n - 1)' = BarAt(strings, n - 1) /\ BarAt(strings, n)' = BarAt(strings, n)
        /\ QuotedAt(strings, n, Len(token))' = QuotedAt(strings, n, Len(token'))
        /\ Contain(<<strings[n]>>, {"\\"})' = Contain(<<strings[n]>>, {"\\"})
      BY DEF BarAt, QuotedAt, RequestParts, Contain
  <2> QED BY <1>2, <1>3, <2>1, <2>2, <2>3 DEF Serving
<1>5. CodecTypeOK'
    BY <1>2 DEF CodecInv, CodecTypeOK, Texts
<1> QED BY <1>4, <1>5 DEF CodecInv

\* A request that fits its announced length is read from its start.
LEMMA SendRequestStep ==
    ASSUME CodecInv, SendRequest
    PROVE  CodecInv'
<1> DEFINE msg == Request(strings)
<1>1. /\ stage = "sending" /\ direction = "request"
      /\ IF FitsAnnouncedLength(msg)
           THEN stage' = "serving" /\ text' = msg
           ELSE stage' = "unsent" /\ UNCHANGED text
      /\ UNCHANGED <<direction, strings, i, startNewString, token, results, stringTable>>
    BY DEF SendRequest
<1>2. /\ text = <<>> /\ i = 1 /\ token = <<>> /\ results = <<>> /\ stringTable = <<>>
      /\ strings \in Seq(Texts)
    BY <1>1 DEF CodecInv, CodecTypeOK, Texts
<1>3. FitsAnnouncedLength(msg) <=> ~Contain(strings, {"acc", "uni"})
    BY <1>2, RequestFits
<1>4. Contain(strings, {"acc", "uni"})' <=> Contain(strings, {"acc", "uni"})
    BY <1>1 DEF Contain
<1>5. CASE FitsAnnouncedLength(msg)
  <2>1. stage' = "serving" /\ text' = msg /\ ~Contain(strings, {"acc", "uni"})'
      BY <1>1, <1>3, <1>4, <1>5
  <2>2. msg \in Texts /\ Len(msg) \in Nat /\ Len(strings) \in Nat /\ BarAt(strings, 0) = 0
    <3>1. msg \in Texts /\ Len(strings) \in Nat /\ BarAt(strings, 0) = 0
        BY <1>2, RequestHolds
    <3> QED BY <3>1 DEF Texts
  <2>3. Len(stringTable) = 0 /\ Len(token) = 0 /\ Len(stringTable) + 1 = 1
      BY <1>2
  <2>4. CodecTypeOK'
    <3>1. i' \in 1 .. Len(text') + 1
        BY <1>1, <1>2, <2>1, <2>2
    <3> QED BY <1>1, <2>1, <2>2, <3>1 DEF CodecInv, CodecTypeOK, Texts
  <2>5. PlainReadBack'
      BY <1>1, <2>3 DEF PlainReadBack
  <2>6. Len(strings) = 0 => i = BarAt(strings, Len(strings)) + 1
      BY <1>2, <2>2
  <2>7. ASSUME 1 <= Len(strings)
        PROVE  /\ BarAt(strings, 0) < i /\ i <= BarAt(strings, 1)
               /\ strings[1] \in Texts /\ i = QuotedAt(strings, 1, 0) + 1
    <3>1. 1 \in 1 .. Len(strings) /\ 1 - 1 = 0
        BY <2>2, <2>7
    <3>2. /\ strings[1] \in Texts /\ BarAt(strings, 1 - 1) < BarAt(strings, 1)
          /\ BarAt(strings, 1) \in Nat /\ QuotedAt(strings, 1, 0) = BarAt(strings, 1 - 1)
        BY <1>2, <3>1, QuotedLie
    <3> QED BY <1>2, <2>2, <3>1, <3>2
  <2>8. Serving'
    <3>1. (Len(stringTable) + 1)' = 1
        BY <1>1, <2>3
    <3>2. /\ BarAt(strings, 0)' = BarAt(strings, 0) /\ BarAt(strings, 1)' = BarAt(strings, 1)
          /\ BarAt(strings, Len(strings))' = BarAt(strings, Len(strings))
          /\ QuotedAt(strings, 1, Len(token))' = QuotedAt(strings, 1, 0)
          /\ msg' = msg /\ 1 - 1 = 0
        BY <1>1, <2>3 DEF BarAt, QuotedAt, RequestParts, Request
    <3>3. ASSUME 1 <= Len(strings)
          PROVE  Gathered(1)' /\ i' = QuotedAt(strings, 1, Len(token))' + 1
      <4>1. Len(strings[1]) \in Nat
          BY <2>7, <3>3 DEF Texts
      <4>2. Gathered(1)'
          BY <1>1, <2>3, <4>1 DEF Gathered
      <4> QED BY <1>1, <2>7, <3>2, <3>3, <4>2
    <3>4. /\ 1 = Len(strings) + 1 => i' = BarAt(strings, Len(strings))' + 1
          /\ 1 <= Len(strings) =>
               /\ BarAt(strings, 0)' < i' /\ i' <= BarAt(strings, 1)'
               /\ Gathered(1)' /\ i' = QuotedAt(strings, 1, Len(token))' + 1
          /\ 1 <= Len(strings) + 1
        BY <1>1, <2>2, <2>6, <2>7, <3>2, <3>3
    <3>5. BarAt(strings, 1 - 1)' = BarAt(strings, 0)'
        BY <3>2
    <3>6. strings' = strings /\ text' = msg' /\ results' = <<>>
        BY <1>1, <1>2, <2>1, <3>2
    <3> QED BY <2>1, <2>5, <3>1, <3>4, <3>5, <3>6 DEF Serving
  <2> QED BY <1>1, <2>1, <2>4, <2>8 DEF CodecInv
<1>6. CASE ~FitsAnnouncedLength(msg)
  <2>1. /\ stage' = "unsent" /\ text' = text /\ direction' = "request"
        /\ Contain(strings, {"acc", "uni"})'
      BY <1>1, <1>3, <1>4, <1>6
  <2>2. CodecTypeOK'
      BY <1>1, <2>1 DEF CodecInv, CodecTypeOK, Ends
  <2> QED BY <2>1, <2>2 DEF CodecInv
<1> QED BY <1>5, <1>6

\* Any character that is neither a bar nor a backslash stands for itself.
LEMMA ServerCopiesStep ==
    ASSUME CodecInv, ServerCopies
    PROVE  CodecInv'
<1> DEFINE n == Len(stringTable) + 1
<1>1. /\ stage = "serving" /\ Len(stringTable) < Len(strings) /\ text[i] \notin {"|", "\\"}
      /\ i' = i + 1 /\ token' = token \o <<text[i]>>
      /\ UNCHANGED <<direction, strings, stage, text, startNewString, results, stringTable>>
    BY DEF ServerCopies, ServesString, Reading, Gather
<1>2. n <= Len(strings) /\ n = Len(stringTable) + 1 /\ stringTable \in Seq(Texts)
  <2>1. stringTable \in Seq(Texts) /\ strings \in Seq(Texts)
      BY DEF CodecInv, CodecTypeOK, Texts
  <2> QED BY <1>1, <2>1
<1> HIDE DEF n
<1>3. /\ token \in Texts /\ text \in Texts /\ i \in Nat /\ Len(text) \in Nat /\ 1 <= i
      /\ BarAt(strings, n) \in Nat /\ i <= BarAt(strings, n)
      /\ BarAt(strings, n) + 2 <= Len(text) /\ text[BarAt(strings, n)] = "|"
    BY <1>1, <1>2, ServingAt
<1>4. i' \in Nat /\ i < i' /\ i' <= BarAt(strings, n)
  <2>1. i # BarAt(strings, n)
      BY <1>1, <1>3
  <2> QED BY <1>1, <1>3, <2>1
<1>5. token' \in Texts
  <2>1. i \in 1 .. Len(text)
      BY <1>3
  <2>2. text[i] \in Characters
      BY <1>3, <2>1 DEF Texts
  <2>3. <<text[i]>> \in Texts
      BY <2>2, SingleText
  <2>4. token \o <<text[i]>> \in Texts
      BY <1>3, <2>3, ConcatText
  <2> QED BY <1>1, <2>4
<1>6. ASSUME ~Contain(<<strings[n]>>, {"\\"})
      PROVE  \E c \in Characters :
               /\ Len(token) + 1 \in 1 .. Len(strings[n]) /\ c = strings[n][Len(token) + 1]
               /\ i' = QuotedAt(strings, n, Len(token) + 1) + 1 /\ token' = token \o <<c>>
  <2> DEFINE k == Len(token)
  <2>1. \/ i = BarAt(strings, n)
        \/ \E c \in Characters \ {"\\"} :
             /\ k + 1 \in 1 .. Len(strings[n]) /\ c = strings[n][k + 1]
             /\ i + Len(Quoted(c)) = QuotedAt(strings, n, k + 1) + 1
             /\ \A p \in 1 .. Len(Quoted(c)) : text[(i - 1) + p] = Quoted(c)[p]
    <3>1. k = Len(token)
        OBVIOUS
    <3> HIDE DEF k
    <3> QED BY <1>1, <1>2, <1>6, <3>1, NextQuoted
  <2>2. PICK c \in Characters \ {"\\"} :
             /\ k + 1 \in 1 .. Len(strings[n]) /\ c = strings[n][k + 1]
             /\ i + Len(Quoted(c)) = QuotedAt(strings, n, k + 1) + 1
             /\ \A p \in 1 .. Len(Quoted(c)) : text[(i - 1) + p] = Quoted(c)[p]
      BY <1>1, <1>3, <2>1
  <2>3. /\ 1 \in 1 .. Len(Quoted(c))
        /\ Quoted(c) = <<c>> \/ Quoted(c)[1] = "\\"
      BY QuotedIs
  <2>4. text[i] = Quoted(c)[1]
    <3>1. (i - 1) + 1 = i
        BY <1>3
    <3> QED BY <2>2, <2>3, <3>1
  <2>5. Quoted(c) = <<c>> /\ text[i] = c
      BY <1>1, <2>3, <2>4
  <2> QED BY <1>1, <2>2, <2>5
<1> QED BY <1>1, <1>2, <1>4, <1>5, <1>6, CharacterServed

\* The bar that ends a string is its own, and what has been gathered is the whole string.
LEMMA ServerEndsStringStep ==
    ASSUME CodecInv, ServerEndsString
    PROVE  CodecInv'
<1> PICK n : n = Len(stringTable) + 1
    OBVIOUS
<1> PICK m : m = n + 1
    OBVIOUS
<1>1. /\ stage = "serving" /\ Len(stringTable) < Len(strings) /\ text[i] = "|"
      /\ stringTable' = Append(stringTable, token) /\ token' = <<>> /\ i' = i + 1
      /\ UNCHANGED <<direction, strings, stage, text, startNewString, results>>
    BY DEF ServerEndsString, ServesString, Reading
<1>2. n <= Len(strings) /\ n = Len(stringTable) + 1 /\ n \in Nat
  <2>1. stringTable \in Seq(Texts) /\ strings \in Seq(Texts)
      BY DEF CodecInv, CodecTypeOK, Texts
  <2> QED BY <1>1, <2>1
<1>3. m = n + 1 /\ m - 1 = n
    BY <1>2
<1>4. /\ strings \in Seq(Texts) /\ stringTable \in Seq(Texts) /\ token \in Texts
      /\ Len(text) \in Nat
      /\ n \in 1 .. Len(strings) /\ Len(strings) \in Nat
      /\ strings[n] \in Texts /\ Len(strings[n]) \in Nat
      /\ i \in Nat /\ 1 <= i /\ BarAt(strings, n) \in Nat
      /\ i <= BarAt(strings, n) /\ BarAt(strings, n) + 2 <= Len(text)
      /\ \A q \in Nat : i <= q /\ q < BarAt(strings, n) => text[q] # "|"
    BY <1>1, <1>2, ServingAt
<1>5. i = BarAt(strings, n) /\ i' = BarAt(strings, n) + 1 /\ i' \in 1 .. Len(text) + 1
    BY <1>1, <1>4
<1>6. ASSUME ~Contain(<<strings[n]>>, {"\\"}) PROVE token = strings[n]
  <2> DEFINE k == Len(token)
  <2>1. k = Len(token)
      OBVIOUS
  <2> HIDE DEF k
  <2>2. /\ \A j \in 1 .. k : token[j] = strings[n][j]
        /\ \/ k = Len(strings[n])
           \/ \E c \in Characters \ {"\\"} : i + Len(Quoted(c)) <= BarAt(strings, n)
      BY <1>1, <1>2, <1>6, <2>1, NextQuoted
  <2>3. ASSUME NEW c \in Characters, i + Len(Quoted(c)) <= BarAt(strings, n) PROVE FALSE
    <3>1. Len(Quoted(c)) \in {1, 2, 3}
        BY QuotedIs
    <3> DEFINE l == Len(Quoted(c))
               b == BarAt(strings, n)
    <3>2. l \in {1, 2, 3} /\ b \in Nat /\ i = b /\ i + l <= b
        BY <1>4, <1>5, <2>3, <3>1
    <3> HIDE DEF l, b
    <3> QED BY <3>2
  <2>4. k = Len(strings[n])
      BY <2>2, <2>3
  <2> QED BY <1>4, <2>1, <2>2, <2>4, SameText
<1>7. /\ stringTable' \in Seq(Texts) /\ Len(stringTable') = n /\ stringTable'[n] = token
      /\ \A j \in 1 .. Len(stringTable) : stringTable'[j] = stringTable[j]
    BY <1>1, <1>2, <1>4, TableGrows
<1>8. PlainReadBack'
  <2> SUFFICES ASSUME NEW j \in 1 .. Len(stringTable'), ~Contain(<<strings[j]>>, {"\\"})
               PROVE  stringTable'[j] = strings[j]
    <3>1. \A j : Contain(<<strings[j]>>, {"\\"})' = Contain(<<strings[j]>>, {"\\"})
        BY <1>1 DEF Contain
    <3> QED BY <1>1, <3>1 DEF PlainReadBack
  <2>1. CASE j = n
      BY <1>6, <1>7, <2>1
  <2>2. CASE j # n
    <3>1. j \in 1 .. Len(stringTable)
        BY <1>2, <1>4, <1>7, <2>2
    <3>2. stringTable[j] = strings[j]
        BY <1>1, <3>1 DEF CodecInv, Serving, PlainReadBack
    <3> QED BY <1>7, <3>1, <3>2
  <2> QED BY <2>1, <2>2
<1>9. ASSUME m <= Len(strings)
      PROVE  /\ BarAt(strings, n) < i' /\ i' <= BarAt(strings, m) /\ Len(strings[m]) \in Nat
             /\ i' = QuotedAt(strings, m, 0) + 1
  <2>1. m \in 1 .. Len(strings)
      BY <1>2, <1>3, <1>4, <1>9
  <2>2. /\ strings[m] \in Texts /\ Len(strings[m]) \in Nat
        /\ BarAt(strings, m - 1) < BarAt(strings, m) /\ BarAt(strings, m) \in Nat
        /\ QuotedAt(strings, m, 0) = BarAt(strings, m - 1)
      BY <1>4, <2>1, QuotedLie
  <2>3. BarAt(strings, m - 1) = BarAt(strings, n)
      BY <1>3
  <2>4. BarAt(strings, n) < i' /\ i' = QuotedAt(strings, m, 0) + 1
      BY <1>4, <1>5, <2>2, <2>3
  <2>5. i' <= BarAt(strings, m)
      BY <1>4, <1>5, <2>2, <2>3
  <2> QED BY <2>2, <2>4, <2>5
<1>10. Serving'
  <2>1. (Len(stringTable) + 1)' = m
      BY <1>1, <1>3, <1>7
  <2>2. /\ text' = Request(strings)' /\ results' = <<>> /\ ~Contain(strings, {"acc", "uni"})'
      BY <1>1 DEF CodecInv, Serving, Contain, Request
  <2>3. Len(token') = 0
      BY <1>1
  <2>4. /\ BarAt(strings, m - 1)' = BarAt(strings, n) /\ BarAt(strings, m)' = BarAt(strings, m)
        /\ BarAt(strings, Len(strings))' = BarAt(strings, Len(strings))
        /\ QuotedAt(strings, m, Len(token))' = QuotedAt(strings, m, 0)
      BY <1>1, <1>3, <2>3 DEF BarAt, QuotedAt, RequestParts
  <2>5. m <= Len(strings) + 1
      BY <1>2, <1>3, <1>4
  <2>6. m = Len(strings) + 1 => i' = BarAt(strings, Len(strings))' + 1
    <3>1. m = Len(strings) + 1 => n = Len(strings)
        BY <1>2, <1>3, <1>4
    <3> QED BY <3>1, <1>5, <2>4
  <2>7. m <= Len(strings) => Gathered(m)'
      BY <1>1, <1>9, <2>3 DEF Gathered
  <2>8. m <= Len(strings) =>
          /\ BarAt(strings, m - 1)' < i' /\ i' <= BarAt(strings, m)'
          /\ Gathered(m)' /\ i' = QuotedAt(strings, m, Len(token))' + 1
      BY <1>9, <2>4, <2>7
  <2>9. strings' = strings
      BY <1>1
  <2> QED BY <1>8, <2>1, <2>2, <2>5, <2>6, <2>8, <2>9 DEF Serving
<1>11. CodecTypeOK'
  <2>1. token' \in Seq(Characters) /\ stringTable' \in Seq(Seq(Characters))
      BY <1>1, <1>7 DEF Texts
  <2> QED BY <1>1, <1>5, <2>1 DEF CodecInv, CodecTypeOK
<1> QED BY <1>1, <1>10, <1>11 DEF CodecInv

\* In a string without a backslash, a backslash of the request begins the quotation of the
\* string's next character, and what follows the backslash stands for that character.
LEMMA QuotationStands ==
    ASSUME CodecInv, stage = "serving", text[i] = "\\",
           NEW n, n = Len(stringTable) + 1, n <= Len(strings),
           ~Contain(<<strings[n]>>, {"\\"}), NEW k, k = Len(token)
    PROVE  \E c \in Characters :
             /\ k + 1 \in 1 .. Len(strings[n]) /\ c = strings[n][k + 1]
             /\ FollowsBackslash(i + 1) = <<c>>
             /\ i + (IF text[i + 1] = "u" THEN 3 ELSE 2) = QuotedAt(strings, n, k + 1) + 1
<1>1. i \in Nat /\ text[BarAt(strings, n)] = "|"
    BY ServingAt
<1>2. /\ k \in 0 .. Len(strings[n]) /\ \A j \in 1 .. k : token[j] = strings[n][j]
      /\ \/ k = Len(strings[n]) /\ i = BarAt(strings, n)
         \/ \E c \in Characters \ {"\\"} :
              /\ k + 1 \in 1 .. Len(strings[n]) /\ c = strings[n][k + 1]
              /\ i + Len(Quoted(c)) = QuotedAt(strings, n, k + 1) + 1
              /\ i + Len(Quoted(c)) <= BarAt(strings, n)
              /\ \A p \in 1 .. Len(Quoted(c)) : text[(i - 1) + p] = Quoted(c)[p]
    BY NextQuoted, SMTT(30)
<1>3. PICK c \in Characters \ {"\\"} :
           /\ k + 1 \in 1 .. Len(strings[n]) /\ c = strings[n][k + 1]
           /\ i + Len(Quoted(c)) = QuotedAt(strings, n, k + 1) + 1
           /\ \A p \in 1 .. Len(Quoted(c)) : text[(i - 1) + p] = Quoted(c)[p]
    BY <1>1, <1>2
<1>4. (i - 1) + 1 = i /\ (i - 1) + 2 = i + 1 /\ (i - 1) + 3 = (i + 1) + 1
    BY <1>1
<1>5. FollowsBackslash(i + 1) = <<c>>
      /\ i + (IF text[i + 1] = "u" THEN 3 ELSE 2) = i + Len(Quoted(c))
  <2>1. CASE Quoted(c) = <<c>>
    <3>1. 1 \in 1 .. Len(Quoted(c)) /\ Quoted(c)[1] = c
        BY <2>1
    <3>2. text[i] = c
        BY <1>3, <1>4, <3>1
    <3> QED BY <3>2
  <2>2. CASE \E d \in Characters : Quoted(c) = <<"\\", d>>
    <3>1. PICK d \in Characters : Quoted(c) = <<"\\", d>>
        BY <2>2
    <3>2. Len(Quoted(c)) = 2 /\ 2 \in 1 .. Len(Quoted(c)) /\ Quoted(c)[2] = d
        BY <3>1
    <3>3. text[i + 1] = d
        BY <1>3, <1>4, <3>2
    <3>4. \/ c = "nul" /\ d = "0"
          \/ c = "|" /\ d = "!"
      <4>1. Len(Quoted(c)) = 2 /\ Quoted(c)[2] = d
          BY <3>2
      <4>2. \/ Len(Quoted(c)) = 1
            \/ c = "nul" /\ Quoted(c)[2] = "0"
            \/ c = "|" /\ Quoted(c)[2] = "!"
            \/ Len(Quoted(c)) = 3
          BY QuotedIs
      <4> QED BY <4>1, <4>2
    <3> QED BY <3>2, <3>3, <3>4 DEF FollowsBackslash
  <2>3. CASE Quoted(c) = <<"\\", "u", "d800">> /\ c = "sur"
    <3>1. /\ Len(Quoted(c)) = 3 /\ 2 \in 1 .. Len(Quoted(c)) /\ Quoted(c)[2] = "u"
          /\ 3 \in 1 .. Len(Quoted(c)) /\ Quoted(c)[3] = "d800"
        BY <2>3
    <3>2. text[i + 1] = "u" /\ text[(i + 1) + 1] = "d800"
        BY <1>3, <1>4, <3>1
    <3>3. FollowsBackslash(i + 1) = <<c>>
        BY <2>3, <3>2, DigitsReadBack DEF FollowsBackslash
    <3> QED BY <3>1, <3>2, <3>3
  <2>4. {"0", "!"} \subseteq Characters
      BY DEF Characters, Letters
  <2> QED BY <2>1, <2>2, <2>3, <2>4, QuotedIs
<1> QED BY <1>3, <1>5

\* Undoing a quotation stays within the string, and is refused only in a string that has
\* backslashes of its own.
LEMMA ServerUnquotesStep ==
    ASSUME CodecInv, ServerUnquotes
    PROVE  CodecInv'
<1> DEFINE n == Len(stringTable) + 1
           k == Len(token)
           f == FollowsBackslash(i + 1)
           d == IF text[i + 1] = "u" THEN 3 ELSE 2
<1>1. /\ stage = "serving" /\ Len(stringTable) < Len(strings) /\ text[i] = "\\"
      /\ f # <<>> =>
           /\ i' = i + d /\ token' = token \o f
           /\ UNCHANGED <<direction, strings, stage, text, startNewString, results, stringTable>>
      /\ f = <<>> =>
           /\ stage' = "rejected"
           /\ UNCHANGED <<direction, strings, text, i, startNewString, token, results,
                          stringTable>>
    BY DEF ServerUnquotes, ServesString, Reading, Gather
<1>2. n <= Len(strings) /\ n = Len(stringTable) + 1 /\ k = Len(token) /\ n \in Nat
  <2>1. stringTable \in Seq(Texts) /\ strings \in Seq(Texts)
      BY DEF CodecInv, CodecTypeOK, Texts
  <2> QED BY <1>1, <2>1
<1>3. /\ f = <<>> \/ \E c \in Characters : f = <<c>>
      /\ f # <<>> => /\ text[i + 1] \in {"0", "!", "\\", "u"}
                     /\ text[i + 1] = "u" => text[(i + 1) + 1] \in {"2028", "d800"}
  <2>1. {"nul", "|", "\\", "uni", "sur"} \subseteq Characters
      BY DEF Characters, Special
  <2> QED BY <2>1, DigitsReadBack DEF FollowsBackslash
<1>4. d \in {2, 3} /\ (d = 3 <=> text[i + 1] = "u")
    OBVIOUS
<1> HIDE DEF n, k, f
<1>5. /\ strings \in Seq(Texts) /\ token \in Texts /\ i \in Nat /\ Len(text) \in Nat /\ 1 <= i
      /\ n \in 1 .. Len(strings)
      /\ BarAt(strings, n) \in Nat /\ i <= BarAt(strings, n)
      /\ text[BarAt(strings, n)] = "|"
    BY <1>1, <1>2, ServingAt
<1>6. ASSUME ~Contain(<<strings[n]>>, {"\\"})
      PROVE  \E c \in Characters :
               /\ k + 1 \in 1 .. Len(strings[n]) /\ c = strings[n][k + 1]
               /\ f = <<c>> /\ i + d = QuotedAt(strings, n, k + 1) + 1
    BY <1>1, <1>2, <1>6, QuotationStands DEF f
<1> HIDE DEF d
<1>7. CASE f # <<>>
  <2>1. i + d \in Nat /\ i < i + d /\ i + d <= BarAt(strings, n)
    <3> DEFINE b == BarAt(strings, n)
    <3>1. b \in Nat /\ i <= b /\ text[b] = "|"
        BY <1>5
    <3> HIDE DEF b
    <3>2. i # b /\ i + 1 # b
        BY <1>1, <1>3, <1>7, <3>1
    <3>3. d = 3 => (i + 1) + 1 # b
        BY <1>3, <1>4, <1>7, <3>1
    <3>4. i + d \in Nat /\ i < i + d /\ i + d <= b
        BY <1>4, <1>5, <3>1, <3>2, <3>3
    <3> QED BY <3>4 DEF b
  <2>2. token \o f \in Texts
    <3>1. f \in Texts
        BY <1>3, <1>7, SingleText
    <3> QED BY <1>5, <3>1, ConcatText
  <2>3. /\ i' = i + d /\ token' = token \o f
        /\ UNCHANGED <<direction, strings, stage, text, startNewString, results, stringTable>>
      BY <1>1, <1>7
  <2>4. ~Contain(<<strings[n]>>, {"\\"}) =>
          \E c \in Characters :
            /\ Len(token) + 1 \in 1 .. Len(strings[n]) /\ c = strings[n][Len(token) + 1]
            /\ i' = QuotedAt(strings, n, Len(token) + 1) + 1 /\ token' = token \o <<c>>
      BY <1>2, <1>6, <2>3
  <2>5. i' \in Nat /\ i < i' /\ i' <= BarAt(strings, n) /\ token' \in Texts
      BY <2>1, <2>2, <2>3
  <2> QED BY <1>1, <1>2, <2>3, <2>4, <2>5, CharacterServed
<1>8. CASE f = <<>>
  <2>1. Contain(<<strings[n]>>, {"\\"})
    <3>1. \A c \in Characters : <<c>> # <<>>
        OBVIOUS
    <3> QED BY <1>6, <1>8, <3>1
  <2>2. Contain(strings, {"\\"})
    <3> DEFINE t == strings
               C == {"\\"}
    <3>1. t \in Seq(Texts) /\ n \in 1 .. Len(t)
        BY <1>5
    <3> HIDE DEF t, C
    <3>2. /\ Contain(t, C) <=> \E m \in 1 .. Len(t) : \E j \in 1 .. Len(t[m]) : t[m][j] \in C
          /\ \A m \in 1 .. Len(t) :
               Contain(<<t[m]>>, C) <=> \E j \in 1 .. Len(t[m]) : t[m][j] \in C
        BY <3>1, ContainIs
    <3>3. Contain(<<t[n]>>, C)
        BY <2>1 DEF t, C
    <3>4. \E j \in 1 .. Len(t[n]) : t[n][j] \in C
        BY <3>1, <3>2, <3>3
    <3>5. Contain(t, C)
        BY <3>1, <3>2, <3>4
    <3> QED BY <3>5 DEF t, C
  <2>3. /\ stage' = "rejected"
        /\ UNCHANGED <<direction, strings, text, i, startNewString, token, results,
                       stringTable>>
      BY <1>1, <1>8
  <2>4. ~Contain(strings, {"acc", "uni"})' /\ Contain(strings, {"\\"})'
      BY <1>1, <2>2, <2>3 DEF CodecInv, Serving, Contain
  <2>5. CodecTypeOK'
      BY <1>1, <2>3 DEF CodecInv, CodecTypeOK, Ends
  <2>6. direction' = "request"
      BY <1>1, <2>3 DEF CodecInv, CodecTypeOK
  <2> QED BY <2>3, <2>4, <2>5, <2>6 DEF CodecInv
<1> QED BY <1>7, <1>8

\* What is left after the last string is the payload.
LEMMA ServerDoneStep ==
    ASSUME CodecInv, ServerDone
    PROVE  CodecInv'
<1>1. /\ stage = "serving" /\ Len(stringTable) = Len(strings) /\ stage' = "read"
      /\ results' = <<SubSeq(text, i, Len(text))>>
      /\ UNCHANGED <<direction, strings, text, i, startNewString, token, stringTable>>
    BY DEF ServerDone
<1>2. /\ strings \in Seq(Texts) /\ text = Request(strings) /\ PlainReadBack
      /\ ~Contain(strings, {"acc", "uni"})
      /\ Len(stringTable) + 1 = Len(strings) + 1 => i = BarAt(strings, Len(strings)) + 1
    BY <1>1 DEF CodecInv, CodecTypeOK, Serving, Texts
<1>3. results' = <<<<"0", "|">>>>
  <2> DEFINE e == BarAt(strings, Len(strings))
  <2>1. e \in Nat /\ Len(text) = e + 2 /\ SubSeq(text, e + 1, e + 2) = <<"0", "|">>
      BY <1>2, RequestHolds
  <2>2. i = e + 1
      BY <1>1, <1>2
  <2> HIDE DEF e
  <2> QED BY <1>1, <2>1, <2>2
<1>4. results' \in Seq(Seq(Characters))
  <2>1. "0" \in Characters /\ "|" \in Characters
      BY DEF Characters, Letters, Special
  <2> QED BY <1>3, <2>1
<1>5. CodecTypeOK'
    BY <1>1, <1>4 DEF CodecInv, CodecTypeOK, Ends
<1>6. ~Contain(strings, {"acc", "uni"})' /\ PlainReadBack'
    BY <1>1, <1>2 DEF Contain, PlainReadBack
<1>7. direction' = "request"
    BY <1>1 DEF CodecInv, CodecTypeOK
<1> QED BY <1>1, <1>3, <1>5, <1>6, <1>7 DEF CodecInv

--------------------------------------------------------------------------------
(* The theorems about the string tables *)

\* Nothing is read before a message is sent.
LEMMA CodecStarts ==
    ASSUME CodecInit
    PROVE  CodecInv
<1>1. /\ direction \in {"request", "response"} /\ strings \in Tables /\ stage = "sending"
      /\ text = <<>> /\ i = 1 /\ startNewString = TRUE
      /\ token = <<>> /\ results = <<>> /\ stringTable = <<>>
    BY DEF CodecInit
<1>2. strings \in Seq(Seq(Characters))
    BY <1>1, TablesAssumption
<1>3. CodecTypeOK
    BY <1>1, <1>2 DEF CodecTypeOK
<1> QED BY <1>1, <1>3 DEF CodecInv

\* Every step of either direction keeps the invariant.
LEMMA CodecSteps ==
    ASSUME CodecInv, [CodecNext]_codecVars
    PROVE  CodecInv'
<1>1. CASE UNCHANGED codecVars
  <2>1. UNCHANGED <<direction, strings, stage, text, i, startNewString, token, results,
                    stringTable>>
      BY <1>1 DEF codecVars
  <2>2. CodecTypeOK' /\ Parsing' = Parsing /\ Scanning' = Scanning /\ Serving' = Serving
        /\ PlainReadBack' = PlainReadBack
      BY <2>1 DEF CodecInv, CodecTypeOK, Parsing, Scanning, Serving, PlainReadBack, Gathered,
                  Body, TableParts, Answer, Response, Request, RequestParts, OpenAt, CharAt,
                  BarAt, QuotedAt, Contain
  <2>3. \A C : Contain(strings, C)' = Contain(strings, C)
      BY <2>1 DEF Contain
  <2> QED BY <2>1, <2>2, <2>3 DEF CodecInv
<1>2. CASE CodecNext
  <2>1. CASE CodecFinished
      BY <1>1, <2>1 DEF CodecFinished
  <2> QED BY <1>2, <2>1, SendRequestStep, ServerEndsStringStep, ServerCopiesStep,
             ServerUnquotesStep, ServerDoneStep, SendResponseStep, ParseCommaStep,
             ParseTableStep, ParseCharacterStep, ParseEndStep, OpenQuoteStep, CloseQuoteStep,
             UnescapeStep, CopyCharacterStep, ScanEndStep DEF CodecNext
<1> QED BY <1>1, <1>2

\* The invariant of the string tables, for every table of strings: between any two steps,
\* the reader of either message is exactly where what it has read of the table ends.
THEOREM CodecInvariant == CodecSpec => []CodecInv
<1>1. CodecInit => CodecInv
    BY CodecStarts
<1>2. CodecInv /\ [CodecNext]_codecVars => CodecInv'
    BY CodecSteps
<1> QED BY <1>1, <1>2, PTL DEF CodecSpec

\* A text whose characters are those of another one's beginning is a prefix of it.
LEMMA PrefixIs ==
    ASSUME NEW S, NEW a \in Seq(S), NEW s \in Seq(S), Len(a) <= Len(s),
           \A k \in 1 .. Len(a) : a[k] = s[k]
    PROVE  IsPrefix(a, s)
    BY DEF IsPrefix

\* What has been read of a response is a beginning of what was sent, whatever characters the
\* strings hold: brackets, quotes, commas and escapes included.
THEOREM ScanFollows == CodecSpec => []ScanFollowsTable
<1>1. CodecInv => ScanFollowsTable
  <2> SUFFICES ASSUME CodecInv PROVE ScanFollowsTable
      OBVIOUS
  <2>1. CodecTypeOK /\ strings \in Seq(Texts) /\ stringTable \in Seq(Texts) /\ token \in Texts
      BY DEF CodecInv, CodecTypeOK, Texts
  <2>2. ASSUME stage = "scanning"
        PROVE  IsPrefix(stringTable, strings)
    <3>1. /\ Len(stringTable) + 1 <= Len(strings) + 1
          /\ \A k \in 1 .. Len(stringTable) : stringTable[k] = strings[k]
        BY <2>2 DEF CodecInv, Scanning
    <3>2. Len(stringTable) \in Nat /\ Len(strings) \in Nat
        BY <2>1
    <3>3. Len(stringTable) <= Len(strings)
        BY <3>1, <3>2
    <3> QED BY <2>1, <3>1, <3>3, PrefixIs
  <2>3. ASSUME stage = "scanning", ~startNewString
        PROVE  /\ Len(stringTable) < Len(strings)
               /\ IsPrefix(token, strings[Len(stringTable) + 1])
    <3> DEFINE n == Len(stringTable) + 1
    <3>1. n <= Len(strings) /\ Gathered(n)
        BY <2>3 DEF CodecInv, Scanning
    <3>2. Len(stringTable) \in Nat /\ Len(strings) \in Nat
        BY <2>1
    <3>3. Len(stringTable) < Len(strings) /\ n \in 1 .. Len(strings)
        BY <3>1, <3>2
    <3> HIDE DEF n
    <3>4. strings[n] \in Texts
        BY <2>1, <3>3
    <3>5. IsPrefix(token, strings[n])
        BY <2>1, <3>1, <3>4, PrefixIs DEF Gathered, Texts
    <3> QED BY <3>3, <3>5 DEF n
  <2> QED BY <2>1, <2>2, <2>3 DEF ScanFollowsTable
<1> QED BY <1>1, CodecInvariant, PTL

\* A response is always read, and its strings and payload are the ones sent.
THEOREM ResponseIsReadBack == CodecSpec => []ResponseReadBack
<1>1. CodecInv => ResponseReadBack
  <2> SUFFICES ASSUME CodecInv, direction = "response", Over
               PROVE  /\ stage = "read" /\ stringTable = strings
                      /\ results = [k \in 1 .. 2 |-> <<Payload[k]>>]
      BY DEF ResponseReadBack
  <2>1. stage = "read" /\ stringTable = strings /\ results = PayloadTokens
      BY DEF CodecInv, Over, Ends
  <2>2. PayloadTokens = [k \in 1 .. 2 |-> <<Payload[k]>>]
      BY DEF PayloadTokens, Payload
  <2> QED BY <2>1, <2>2
<1> QED BY <1>1, CodecInvariant, PTL

\* A request is sent exactly when its announced length fits, and the servlet then reads back
\* every string without a backslash, and the payload, whatever the other strings hold.
THEOREM RequestIsReadBack == CodecSpec => []RequestReadBack
<1>1. CodecInv => RequestReadBack
  <2> SUFFICES ASSUME CodecInv, direction = "request", Over PROVE RequestReadBack
      BY DEF RequestReadBack
  <2> DEFINE wide == {"acc", "uni"}
             slash == {"\\"}
             bad == {"acc", "uni", "\\"}
  <2>1. strings \in Seq(Texts) /\ stringTable \in Seq(Texts)
      BY DEF CodecInv, CodecTypeOK, Texts
  <2>2. stage \in {"unsent", "rejected", "read"}
      BY DEF CodecInv, Over, Ends
  <2>3. stage = "unsent" <=> Contain(strings, wide)
      BY <2>2 DEF CodecInv
  <2>4. ASSUME ~Contain(strings, bad)
        PROVE  /\ ~Contain(strings, wide) /\ ~Contain(strings, slash)
               /\ \A n \in 1 .. Len(strings) : ~Contain(<<strings[n]>>, slash)
    <3> HIDE DEF wide, slash, bad
    <3>1. \A n \in 1 .. Len(strings) : \A k \in 1 .. Len(strings[n]) : strings[n][k] \notin bad
        BY <2>1, <2>4, ContainIs
    <3>2. wide \subseteq bad /\ slash \subseteq bad
        BY DEF wide, slash, bad
    <3>3. \A n \in 1 .. Len(strings) : \A k \in 1 .. Len(strings[n]) :
            strings[n][k] \notin wide /\ strings[n][k] \notin slash
        BY <3>1, <3>2
    <3>4. ~Contain(strings, wide)
        BY <2>1, <3>3, ContainIs
    <3>5. ~Contain(strings, slash)
        BY <2>1, <3>3, ContainIs
    <3>6. \A n \in 1 .. Len(strings) :
            Contain(<<strings[n]>>, slash) <=> \E k \in 1 .. Len(strings[n]) :
                                                 strings[n][k] \in slash
        BY <2>1, ContainIs
    <3> QED BY <3>3, <3>4, <3>5, <3>6
  <2>5. ASSUME stage = "read"
        PROVE  /\ results = <<<<"0", "|">>>> /\ Len(stringTable) = Len(strings)
               /\ \A n \in 1 .. Len(strings) :
                    ~Contain(<<strings[n]>>, slash) => stringTable[n] = strings[n]
      BY <2>5 DEF CodecInv, PlainReadBack
  <2>6. ~Contain(strings, bad) => stage = "read" /\ stringTable = strings
    <3> SUFFICES ASSUME ~Contain(strings, bad) PROVE stage = "read" /\ stringTable = strings
        OBVIOUS
    <3> HIDE DEF wide, slash, bad
    <3>1. stage # "unsent"
        BY <2>3, <2>4
    <3>2. stage # "rejected"
      <4>1. stage = "rejected" => Contain(strings, slash)
          BY DEF CodecInv, slash
      <4> QED BY <2>4, <4>1
    <3>3. stage = "read"
        BY <2>2, <3>1, <3>2
    <3>4. \A n \in 1 .. Len(strings) : stringTable[n] = strings[n]
        BY <2>4, <2>5, <3>3
    <3>5. Len(stringTable) = Len(strings)
        BY <2>5, <3>3
    <3>6. stringTable = strings
        BY <2>1, <3>4, <3>5, SeqEqual
    <3> QED BY <3>3, <3>6
  <2>7. DOMAIN strings = 1 .. Len(strings)
      BY <2>1
  <2>8. stage = "read" =>
          /\ results = <<<<Payload[1], "|">>>>
          /\ \A n \in DOMAIN strings :
               ~Contain(<<strings[n]>>, {"\\"}) => stringTable[n] = strings[n]
      BY <2>5, <2>7 DEF Payload
  <2> QED BY <2>3, <2>6, <2>8 DEF RequestReadBack
<1> QED BY <1>1, CodecInvariant, PTL

================================================================================
