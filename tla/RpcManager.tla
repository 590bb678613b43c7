--------------------------------- MODULE RpcManager ---------------------------------
(*******************************************************************************)
(* RPCManager, the request queue of the web runtime: requests are collected in    *)
(* transactions, sent by XMLHttpRequest, answered, timed out, suspended for a new *)
(* login, delayed until the page is loaded, logged while offline and resent.      *)
(*                                                                             *)
(* The runtime is one thread. An event (an answer, a timer, a delayed call) runs  *)
(* to completion, but the application's callbacks inside it may call the manager  *)
(* again: `reply` is the reply loop that such a callback interrupts.              *)
(*                                                                             *)
(* A helper takes the manager's state and returns it after one call of the code.  *)
(* The transaction with number t is mgr.tx[t]; 0 stands for null.                 *)
(*******************************************************************************)
EXTENDS Naturals, FiniteSets, SequencesExt

CONSTANTS Kinds,           \* the kinds of request the application sends
          MaxRequests,     \* bound: requests made
          MaxDisturbances  \* bound: cancellations, suspensions by the application,
                           \* callbacks that throw, retries and losses of the network

ASSUME KindsAssumption ==
    Kinds \subseteq {"plain", "prompt", "client", "clientPrompt", "login", "loginPrompt"}
ASSUME BoundsAssumption ==
    {MaxRequests, MaxDisturbances} \subseteq Nat

VARIABLES mgr,   \* the manager; the fields from `misled` on are not the code's
          reply  \* the reply in progress

vars == <<mgr, reply>>

--------------------------------------------------------------------------------
Flags == {"submitted", "suspended", "delayed", "offline", "cleared", "replying", "abort",
          "shown", "clearedPrompt", "withdrawn", "thrown"}

IsClient(kind) == kind \in {"client", "clientPrompt"}
IsLogin(kind) == kind \in {"login", "loginPrompt"}
HasPrompt(kind) == kind \in {"prompt", "clientPrompt", "loginPrompt"}

\* A transaction as it is created for its first request. `got` counts the answers of
\* each operation since the last submission; `flight` the attempts on their way, which
\* the code does not tell apart; `armed` is the timer that timeoutTimer names and
\* `orphans` the others; `slot` is the callback Comm keeps under the number.
NewTransaction(kind) ==
    [got |-> <<0>>, client |-> IsClient(kind), login |-> IsLogin(kind),
     prompt |-> HasPrompt(kind), flight |-> 0, armed |-> FALSE, orphans |-> 0,
     slot |-> FALSE, flags |-> {}]

Numbers(s) == 1 .. Len(s.tx)
Has(s, t, flag) == flag \in s.tx[t].flags
Flag(s, t, set) == [s EXCEPT !.tx[t].flags = @ \cup set]
Unflag(s, t, set) == [s EXCEPT !.tx[t].flags = @ \ set]

\* getTransaction finds it
IsLive(s, t) == t \in Numbers(s) /\ ~Has(s, t, "cleared")
Live(s) == {t \in Numbers(s) : IsLive(s, t)}

\* getLastSubmittedTransaction: the last one tracked, submitted or not
LastTracked(s) ==
    IF Live(s) = {} THEN 0 ELSE CHOOSE t \in Live(s) : \A u \in Live(s) : u <= t

\* The transactions of a set in the order of their numbers
Ascending(set) ==
    CHOOSE q \in [1 .. Cardinality(set) -> set] : \A i, j \in DOMAIN q : i < j => q[i] < q[j]

Idle == [t |-> 0, op |-> 0, relogin |-> 0, phase |-> "idle"]

Init ==
    /\ mgr = [tx |-> <<>>, cur |-> 0, queuing |-> FALSE, prompts |-> 0,
              loaded |-> FALSE, delaying |-> FALSE,
              netUp |-> TRUE, onLine |-> TRUE, playback |-> FALSE, log |-> <<>>,
              later |-> <<>>, misled |-> FALSE,
              unbalanced |-> FALSE, lost |-> {}, disturbances |-> 0]
    /\ reply = Idle

--------------------------------------------------------------------------------
(* Timers, prompts, and the end of a transaction *)

\* clearTransactionTimeout. Of a transaction that is gone it takes the timer of the
\* current one, or else of the last one.
StopTimer(s, t) ==
    LET u == IF IsLive(s, t) THEN t ELSE IF s.cur # 0 THEN s.cur ELSE LastTracked(s)
    IN IF u = 0 \/ ~s.tx[u].armed THEN s
       ELSE [s EXCEPT !.tx[u].armed = FALSE, !.lost = @ \cup ({u} \ {t})]

\* doClearPrompt: the count of prompts never goes below 0
ClearPrompt(s, t) ==
    IF ~s.tx[t].prompt \/ Has(s, t, "clearedPrompt") THEN s
    ELSE [s EXCEPT !.tx[t].flags = (@ \cup {"clearedPrompt"}) \ {"shown"},
                   !.prompts = IF @ = 0 THEN 0 ELSE @ - 1,
                   !.unbalanced = @ \/ s.tx[t].client
                                    \/ (Has(s, t, "offline") /\ ~Has(s, t, "shown"))]

ClearTransaction(s, t) ==
    IF IsLive(s, t) THEN Flag(StopTimer(s, t), t, {"cleared"}) ELSE s

\* Mutant: a suspended transaction keeps its prompt
SuspendPrompting(s, t) ==
    IF Has(s, t, "suspended") THEN s
    ELSE StopTimer(Flag(s, t,
            {"suspended"} \cup IF Has(s, t, "replying") THEN {"abort"} ELSE {}), t)

SuspendTransaction(s, t) ==
    IF Has(s, t, "suspended") THEN s
    ELSE ClearPrompt(StopTimer(Flag(s, t,
            {"suspended"} \cup IF Has(s, t, "replying") THEN {"abort"} ELSE {}), t), t)

--------------------------------------------------------------------------------
(* Sending: _sendQueue for each transaction of a set, in the order of their numbers *)

\* New answers are counted from here
Submit(x, flags) ==
    [x EXCEPT !.got = [op \in DOMAIN @ |-> 0], !.flags = @ \cup {"submitted"} \cup flags]

Delayed(s, set) ==
    [s EXCEPT !.delaying = TRUE,
              !.tx = [t \in DOMAIN @ |-> IF t \notin set THEN @[t]
                        ELSE [Submit(@[t], {"delayed"}) EXCEPT !.armed = FALSE]]]

\* offlineTransaction. The offline mark is never taken back: a transaction that was
\* logged once is not logged again, but new answers are counted from here all the same.
\* (The requests of a logged transaction are called back at once with a stand-in for the
\* answer, which is not counted here.)
Offline(s, set) ==
    LET new == {t \in set : ~Has(s, t, "offline")}
        again(x) == [x EXCEPT !.got = [op \in DOMAIN @ |-> 0]]
    IN [s EXCEPT
          !.tx = [t \in DOMAIN @ |->
                    IF t \in new THEN [Submit(@[t], {"offline"}) EXCEPT !.armed = FALSE]
                    ELSE IF t \in set THEN again(@[t]) ELSE @[t]],
          !.log = @ \o Ascending(new),
          !.lost = @ \cup {t \in set \ new : t \notin ToSet(s.log)}]

\* To the server by sendXmlHttpRequest; a transaction of client-only requests is
\* answered by a delayed call instead.
Transmitted(s, set) ==
    LET remote == {t \in set : ~s.tx[t].client}
        prompting == {t \in remote : s.tx[t].prompt}
        sent(x) == [Submit(x, IF x.prompt THEN {"shown"} ELSE {}) EXCEPT
                      !.flight = @ + 1, !.slot = TRUE,
                      !.armed = TRUE, !.orphans = IF x.armed THEN @ + 1 ELSE @]
    IN [s EXCEPT
          !.tx = [t \in DOMAIN @ |-> IF t \in remote THEN sent(@[t])
                                     ELSE IF t \in set THEN Submit(@[t], {}) ELSE @[t]],
          !.prompts = @ + Cardinality(prompting),
          !.later = @ \o Ascending(set \ remote)]

Submitted(s, set) ==
    IF ~s.loaded \/ s.delaying THEN Delayed(s, set)
    ELSE IF ~s.onLine /\ ~s.playback THEN Offline(s, set)
    ELSE Transmitted(s, set)

\* Mutant: the queue that was sent stays the current one
SentQueueKept(s) ==
    IF s.cur = 0 THEN s ELSE Submitted([s EXCEPT !.queuing = FALSE], {s.cur})

\* sendQueue
SentQueue(s) ==
    LET s1 == [s EXCEPT !.cur = 0, !.queuing = FALSE]
    IN IF s.cur = 0 THEN s1 ELSE Submitted(s1, {s.cur})

\* A transaction without some of its flags
Unmarked(x, gone) == [x EXCEPT !.flags = @ \ gone]

\* resubmitTransaction for each of a set: the queue the application is filling is
\* put back afterwards, but not that it is queuing.
Resubmitted(s, set) ==
    LET kept == [s EXCEPT
                   !.tx = [t \in DOMAIN @ |-> IF t \notin set THEN @[t]
                             ELSE Unmarked(@[t], {"suspended", "clearedPrompt"})],
                   !.queuing = FALSE]
    IN IF set = {} THEN s ELSE Submitted(kept, set)

\* resendTransactionsFlagged for all transactions
ResentAll(s, flag) ==
    LET set == {t \in Live(s) : Has(s, t, flag)}
    IN Resubmitted([s EXCEPT !.tx = [t \in DOMAIN @ |->
                       IF t \in set THEN Unmarked(@[t], {flag}) ELSE @[t]]], set)

\* playbackNextOfflineTransaction. When the logged transaction is gone,
\* resubmitTransaction takes the last one tracked.
PlayedBack(s) ==
    IF s.log = <<>> THEN [s EXCEPT !.playback = FALSE, !.onLine = s.netUp]
    ELSE LET t == Head(s.log)
             u == IF IsLive(s, t) THEN t ELSE LastTracked(s)
             s1 == [s EXCEPT !.log = Tail(@)]
         IN IF u = 0 THEN s1
            ELSE Resubmitted([s1 EXCEPT !.misled = @ \/ u # t,
                                        !.unbalanced = @ \/ Has(s, u, "shown")],
                             {u})

--------------------------------------------------------------------------------
(* The reply loop of _performTransactionReply *)

\* Mutant: a transaction that was suspended during its reply is cleared
FinishedAlways(s, t) ==
    LET s1 == Unflag(ClearTransaction(ClearPrompt(s, t), t), t, {"abort", "replying"})
    IN IF Has(s1, t, "offline") THEN PlayedBack(s1) ELSE s1

\* Mutant: a transaction is not cleared after its reply
FinishedKept(s, t) ==
    LET s1 == Unflag(ClearPrompt(s, t), t, {"abort", "replying"})
    IN IF Has(s1, t, "offline") THEN PlayedBack(s1) ELSE s1

\* What follows the loop
FinishedReply(s, t) ==
    LET s1 == ClearPrompt(s, t)
        s2 == IF {"suspended", "abort"} \cap s1.tx[t].flags = {} THEN ClearTransaction(s1, t) ELSE s1
        s3 == Unflag(s2, t, {"abort", "replying"})
    IN IF Has(s3, t, "offline") THEN PlayedBack(s3) ELSE s3

\* The next operation of the reply r: its callback is called, unless its status says
\* that a new login is needed; after the last one the transaction is cleared.
Perform(s, r) ==
    LET t == r.t
        op == r.op + 1
    IN IF op <= Len(s.tx[t].got) /\ {"suspended", "abort"} \cap s.tx[t].flags = {}
       THEN /\ mgr' = IF op # r.relogin THEN [s EXCEPT !.tx[t].got[op] = @ + 1]
                      ELSE IF IsLive(s, t) THEN SuspendTransaction(StopTimer(s, t), t)
                      ELSE s
            /\ reply' = [r EXCEPT !.op = op]
       ELSE /\ mgr' = FinishedReply(s, t)
            /\ reply' = Idle

\* _performTransactionReply up to the first operation
BeginReply(s, t, relogin) ==
    LET s1 == StopTimer(s, t)
    IN IF IsLive(s, t)
       THEN Perform(Flag(s1, t, {"replying"}),
                    [t |-> t, op |-> 0, relogin |-> relogin, phase |-> "callback"])
       ELSE mgr' = s1 /\ reply' = Idle

--------------------------------------------------------------------------------
(* What the application calls, from an event of its own or from a callback *)

Requests == FoldLeft(LAMBDA n, x : n + Len(x.got), 0, mgr.tx)

\* addRequestToTransaction: the request becomes the last one of the queue
Joined(x, kind) ==
    [x EXCEPT !.got = Append(@, 0),
              !.client = @ /\ IsClient(kind),
              !.prompt = @ \/ HasPrompt(kind)]

\* canQueueRequest: with one URL and one transport only a request with credentials
\* does not join the queue; sendNoQueue then leaves the queue as it was.
SendRequest(kind) ==
    /\ LET new == Append(mgr.tx, NewTransaction(kind))
           joined == [mgr EXCEPT !.tx[mgr.cur] = Joined(@, kind)]
           queued == IF mgr.cur = 0
                     THEN [mgr EXCEPT !.tx = new, !.cur = Len(new)]
                     ELSE joined
       IN /\ Requests < MaxRequests
          /\ mgr.cur # 0 /\ ~IsLogin(kind) => ~Has(mgr, mgr.cur, "submitted")
          /\ mgr' = IF IsLogin(kind)
                    THEN Submitted([mgr EXCEPT !.tx = new], {Len(new)})
                    ELSE IF mgr.queuing THEN queued
                    ELSE SentQueue(queued)
    /\ UNCHANGED reply

MayDisturb == mgr.disturbances < MaxDisturbances
Disturbed(s) == [s EXCEPT !.disturbances = @ + 1]

StartQueue ==
    /\ mgr' = [mgr EXCEPT !.queuing = TRUE]
    /\ UNCHANGED reply

SendQueue ==
    /\ mgr' = SentQueue(mgr)
    /\ UNCHANGED reply

\* cancelQueue without a number: the manager goes on queuing
CancelQueue ==
    /\ mgr.cur # 0 /\ MayDisturb
    /\ mgr' = [Flag(Disturbed(mgr), mgr.cur, {"withdrawn"}) EXCEPT !.cur = 0]
    /\ UNCHANGED reply

\* Mutant: the prompt goes but the transaction stays
CancelPrompt(t) ==
    /\ IsLive(mgr, t) /\ Has(mgr, t, "submitted") /\ t # mgr.cur /\ MayDisturb
    /\ mgr' = Flag(ClearPrompt(Disturbed(mgr), t), t, {"withdrawn"})
    /\ UNCHANGED reply

\* cancelQueue with the number of a transaction that is no longer the current one.
\* The field it looks for the request in is never set: the request goes on.
CancelTransaction(t) ==
    /\ IsLive(mgr, t) /\ Has(mgr, t, "submitted") /\ t # mgr.cur /\ MayDisturb
    /\ mgr' = Flag(ClearTransaction(ClearPrompt(Disturbed(mgr), t), t), t, {"withdrawn"})
    /\ UNCHANGED reply

Suspend(t) ==
    /\ IsLive(mgr, t) /\ Has(mgr, t, "submitted") /\ t # mgr.cur /\ MayDisturb
    /\ mgr' = SuspendTransaction(Disturbed(mgr), t)
    /\ UNCHANGED reply

\* resendTransaction
Resend(t) ==
    /\ IsLive(mgr, t) /\ Has(mgr, t, "suspended")
    /\ mgr' = Resubmitted(mgr, {t})
    /\ UNCHANGED reply

\* handleLoginSuccess() of the login window, without a transaction
LoginSuccess ==
    /\ mgr' = ResentAll(mgr, "suspended")
    /\ UNCHANGED reply

\* The application's code of this callback or event handler returns
NextOperation ==
    /\ reply.phase = "callback"
    /\ Perform(mgr, reply)

\* performTransactionReply after handleTransportError
EndHook ==
    /\ reply.phase = "hook"
    /\ LET t == reply.t
           s == Unflag(mgr, t, {"abort", "replying"})
       IN IF {"suspended", "abort"} \cap mgr.tx[t].flags # {}
          THEN mgr' = s /\ reply' = Idle
          ELSE BeginReply(s, t, 0)

\* handleLoginRequired, handleLoginSuccess and handleMaxLoginAttemptsExceeded after
\* the callback of a request with credentials: its prompt stays
EndCredentials ==
    /\ reply.phase = "credentials"
    /\ mgr' = [ClearTransaction(mgr, reply.t) EXCEPT
                 !.unbalanced = @ \/ Has(mgr, reply.t, "shown")]
    /\ reply' = Idle

\* A callback throws: fireCallback of Comm and Timer catches it, what was left of the
\* reply is not done
CallbackThrows ==
    /\ reply.phase # "idle" /\ MayDisturb
    /\ mgr' = [Flag(Disturbed(mgr), reply.t, {"thrown"}) EXCEPT
                 !.unbalanced = @ \/ Has(mgr, reply.t, "shown")]
    /\ reply' = Idle

--------------------------------------------------------------------------------
(* Events *)

\* Mutant: what was delayed is not sent when the page is loaded
PageLoadOnly ==
    /\ reply = Idle /\ ~mgr.loaded
    /\ mgr' = [mgr EXCEPT !.loaded = TRUE, !.delaying = FALSE]
    /\ UNCHANGED reply

\* Page.setEvent("load", RPCManager, "resendDelayedTransactions")
PageLoad ==
    /\ reply = Idle /\ ~mgr.loaded
    /\ mgr' = ResentAll([mgr EXCEPT !.loaded = TRUE, !.delaying = FALSE], "delayed")
    /\ UNCHANGED reply

\* _timeoutTransaction, called by the timer of the transaction or by an orphan
Timeout(t, x) ==
    /\ reply = Idle
    /\ LET s == [mgr EXCEPT !.tx[t] = x]
       IN IF ~IsLive(mgr, t) THEN mgr' = s /\ UNCHANGED reply
          ELSE IF ~mgr.onLine THEN mgr' = Offline(s, {t}) /\ UNCHANGED reply
          ELSE BeginReply(s, t, 0)

TimerFires(t) ==
    /\ mgr.tx[t].armed
    /\ Timeout(t, [mgr.tx[t] EXCEPT !.armed = FALSE])

OrphanFires(t) ==
    /\ mgr.tx[t].orphans > 0
    /\ Timeout(t, [mgr.tx[t] EXCEPT !.orphans = @ - 1])

\* performXmlTransactionReply takes the callback, performTransactionReply the marks of
\* an earlier reply
Received(t) ==
    [Unflag(mgr, t, {"abort", "replying"}) EXCEPT
        !.tx[t].slot = FALSE, !.tx[t].flight = @ - 1]

\* Mutant: the answer of a cleared transaction is taken
ExpectedCleared(t) ==
    reply = Idle /\ mgr.tx[t].flight > 0 /\ mgr.tx[t].slot

Expected(t) ==
    /\ reply = Idle /\ mgr.tx[t].flight > 0
    /\ mgr.tx[t].slot /\ IsLive(mgr, t)

\* The answer of a transaction that is cleared, or a second answer
AnswerDropped(t) ==
    /\ reply = Idle /\ mgr.tx[t].flight > 0
    /\ ~(mgr.tx[t].slot /\ IsLive(mgr, t))
    /\ mgr' = [mgr EXCEPT !.tx[t].slot = FALSE, !.tx[t].flight = @ - 1]
    /\ UNCHANGED reply

\* Results; the operation `relogin` of them (0: none) reports that the session is over
Results(t, relogin) ==
    /\ Expected(t)
    /\ mgr.tx[t].login => relogin = 0
    /\ BeginReply(Received(t), t, relogin)

\* An HTTP status that is no success: handleTransportError is called first
TransportError(t) ==
    /\ Expected(t)
    /\ mgr' = Flag(Received(t), t, {"replying"})
    /\ reply' = [Idle EXCEPT !.t = t, !.phase = "hook"]

\* The loginRequired marker in the text of the answer
LoginRequired(t) ==
    /\ Expected(t) /\ ~mgr.tx[t].login
    /\ mgr' = SuspendTransaction(StopTimer(Received(t), t), t)
    /\ UNCHANGED reply

\* Any login marker in the answer of a request with credentials
CredentialsAnswered(t) ==
    /\ Expected(t) /\ mgr.tx[t].login
    /\ mgr' = [StopTimer(Received(t), t) EXCEPT !.tx[t].got[1] = @ + 1]
    /\ reply' = [Idle EXCEPT !.t = t, !.phase = "credentials"]

\* HTTP status 12030 of Internet Explorer: sent again at once, the timer of this
\* attempt goes on
Retry(t) ==
    /\ Expected(t) /\ MayDisturb
    /\ mgr' = Resubmitted([Disturbed(Received(t)) EXCEPT !.unbalanced = @ \/ Has(mgr, t, "shown")], {t})
    /\ UNCHANGED reply

\* A delayed call: the answer of a client-only transaction
RunLater ==
    /\ reply = Idle /\ mgr.later # <<>>
    /\ BeginReply([mgr EXCEPT !.later = Tail(@)], Head(mgr.later), 0)

\* isc.goOffline, isc.goOnline
GoOffline ==
    /\ reply = Idle /\ mgr.netUp /\ MayDisturb
    /\ mgr' = [Disturbed(mgr) EXCEPT !.netUp = FALSE, !.onLine = FALSE]
    /\ UNCHANGED reply

GoOnline ==
    /\ reply = Idle /\ ~mgr.netUp
    /\ mgr' = PlayedBack([mgr EXCEPT !.netUp = TRUE, !.playback = TRUE])
    /\ UNCHANGED reply

--------------------------------------------------------------------------------
Next ==
    \/ \E kind \in Kinds : SendRequest(kind)
    \/ StartQueue \/ SendQueue \/ CancelQueue \/ LoginSuccess
    \/ NextOperation \/ EndHook \/ EndCredentials \/ CallbackThrows
    \/ \E t \in Numbers(mgr) :
         \/ CancelTransaction(t) \/ Suspend(t) \/ Resend(t)
         \/ TimerFires(t) \/ OrphanFires(t)
         \/ AnswerDropped(t)
         \/ \E op \in 0 .. Len(mgr.tx[t].got) : Results(t, op)
         \/ TransportError(t) \/ LoginRequired(t) \/ CredentialsAnswered(t) \/ Retry(t)
    \/ RunLater \/ PageLoad \/ GoOffline \/ GoOnline

Spec == Init /\ [][Next]_vars

--------------------------------------------------------------------------------
(* Properties *)

TypeOK ==
    /\ \A t \in Numbers(mgr) :
         LET x == mgr.tx[t] IN
         /\ x.got \in Seq(Nat) /\ x.got # <<>>
         /\ {x.client, x.login, x.prompt, x.armed, x.slot} \subseteq BOOLEAN
         /\ {x.flight, x.orphans} \subseteq Nat
         /\ x.flags \subseteq Flags
    /\ {mgr.cur, reply.t} \subseteq {0} \cup Numbers(mgr)
    /\ {mgr.queuing, mgr.loaded, mgr.delaying, mgr.netUp, mgr.onLine, mgr.playback,
        mgr.misled, mgr.unbalanced} \subseteq BOOLEAN
    /\ mgr.prompts \in Nat
    /\ ToSet(mgr.log) \cup ToSet(mgr.later) \cup mgr.lost \subseteq Numbers(mgr)
    /\ reply.phase \in {"idle", "callback", "hook", "credentials"}

\* However late, repeated or incomplete the answers, timeouts and retries: the
\* callback of a request is called at most once for each time its transaction is submitted
\* or handed to the offline log, unless one of its callbacks threw and so kept it alive,
\* or it carries credentials, whose late answer is delivered to a suspended request too.
AnsweredOncePerSend ==
    \A t \in Numbers(mgr) : \A op \in DOMAIN mgr.tx[t].got :
        \/ mgr.tx[t].got[op] <= 1
        \/ Has(mgr, t, "thrown") \/ t \in mgr.lost
        \/ mgr.tx[t].login

\* The manager forgets a transaction only when each of its requests was answered since
\* its last submission, or the application withdrew it: not after a login interrupted
\* the reply, nor when it was resent by a callback of the very reply. (Not so for
\* requests with credentials, nor for the queue of a misled playback.)
ClearedIsAnswered ==
    \A t \in Numbers(mgr) :
        Has(mgr, t, "cleared") /\ ~Has(mgr, t, "withdrawn") /\ ~mgr.tx[t].login /\ ~mgr.misled
            => \A op \in DOMAIN mgr.tx[t].got : mgr.tx[t].got[op] >= 1

\* A submitted transaction is never left without something that will bring it on: the
\* application suspended it, the page has to load, it is in the log of the offline
\* ones, its delayed call or its reply is under way, or its timer runs. What
\* loses it is known: a callback that throws, a second loss of the network, and the
\* timer that clearTransactionTimeout stops for another one.
WayForward(t) ==
    \/ Has(mgr, t, "suspended")
    \/ Has(mgr, t, "delayed") /\ ~mgr.loaded
    \/ t \in ToSet(mgr.log) \cup ToSet(mgr.later)
    \/ reply.t = t
    \/ mgr.tx[t].armed

NobodyForgotten ==
    \A t \in Live(mgr) :
        Has(mgr, t, "submitted") => WayForward(t) \/ Has(mgr, t, "thrown") \/ t \in mgr.lost

\* The count behind the mask that blocks the user's clicks is the number of
\* transactions that show a prompt, so that the mask goes when the last of them ends,
\* and not before, except after the events that `unbalanced` notes and a misled playback.
PromptsBalanced ==
    ~mgr.unbalanced /\ ~mgr.misled =>
        /\ mgr.prompts = Cardinality({t \in Numbers(mgr) : Has(mgr, t, "shown")})
        /\ \A t \in Numbers(mgr) : Has(mgr, t, "cleared") => ~Has(mgr, t, "shown")

\* The manager's numbers refer to transactions, and the queue being filled has not been
\* submitted, unless the playback took it for a logged transaction that was gone.
OpenQueueUnsent ==
    /\ TypeOK
    /\ mgr.cur # 0 /\ ~mgr.misled =>
         {"submitted", "cleared"} \cap mgr.tx[mgr.cur].flags = {}

\* What the application withdrew is not sent afterwards, with the same exception.
WithdrawnStaysUnsent ==
    [][\A t \in Numbers(mgr) :
         Has(mgr, t, "withdrawn") /\ mgr'.tx[t].flight > mgr.tx[t].flight => mgr'.misled]_vars

\* Once a transaction is cleared no answer reaches its requests, but for those of the
\* reply during which it was withdrawn.
NoAnswerAfterClear ==
    [][\A t \in Numbers(mgr) :
         Has(mgr, t, "cleared") /\ (\E op \in DOMAIN mgr.tx[t].got : mgr'.tx[t].got[op] > mgr.tx[t].got[op]) => reply.t = t]_vars
================================================================================
