--------------------------- MODULE RpcManagerProofs ---------------------------
(*******************************************************************************)
(* The manager of the remote calls keeps its promises for any number of requests   *)
(* and disturbances. The invariant is a fact about each transaction, Good, judged   *)
(* against its Situation: what the manager and the reply under way say of it. Most *)
(* steps are Beside the other transactions, so that a step is proved by what it does *)
(* to one; sending, resending and the log are steps of a whole set. Steps says what  *)
(* no step does, whatever the state.                                              *)
(*******************************************************************************)
EXTENDS RpcManager, FiniteSetTheorems, FunctionTheorems, WellFoundedInduction, TLAPS

--------------------------------------------------------------------------------
(* Numbers and sequences *)

\* A bounded set of numbers that is not empty has a greatest one.
LEMMA BoundedMax ==
    ASSUME NEW b \in Nat, NEW S, S \subseteq 1..b, S # {}
    PROVE  \E i \in S : \A j \in S : j <= i
<1> DEFINE R == OpToRel(<, Nat)
           T == {b - i : i \in S}
<1>1. \A m, n \in Nat : n < m => <<n, m>> \in R
    BY DEF OpToRel
<1>2. \A i \in S : i \in 1..b /\ b - i \in Nat
  <2>1. \A i \in 1..b : b - i \in Nat
      OBVIOUS
  <2> QED
      BY <2>1
<1>3. PICK x \in T : \A y \in T : <<y, x>> \notin R
  <2>1. T \subseteq Nat /\ T # {}
      BY <1>2
  <2> HIDE DEF T, R
  <2> QED
      BY <2>1, NatLessThanWellFounded, WFMin DEF R
<1> HIDE DEF R
<1>4. PICK i \in S : x = b - i
    OBVIOUS
<1>5. ASSUME NEW j \in S PROVE j <= i
  <2>1. ~(b - j < b - i)
      BY <1>1, <1>2, <1>3, <1>4
  <2> QED
      BY <1>2, <2>1
<1> QED
    BY <1>5

\* The order of their numbers
IsAscending(q) == \A i, j \in DOMAIN q : i < j => q[i] < q[j]

\* The elements of a finite set of naturals can be listed in ascending order.
LEMMA AscendingExists ==
    ASSUME NEW S, S \subseteq Nat, IsFiniteSet(S)
    PROVE  \E q \in [1 .. Cardinality(S) -> S] : \A i, j \in DOMAIN q : i < j => q[i] < q[j]
<1> DEFINE n == Cardinality(S)
           Upto(x) == {y \in S : y <= x}
           rank == [x \in S |-> Cardinality(Upto(x))]
<1>1. n \in Nat
    BY FS_CardinalityType
<1>2. \A x \in S : /\ IsFiniteSet(Upto(x)) /\ Cardinality(Upto(x)) <= n
                   /\ Cardinality(Upto(x)) \in Nat
  <2> TAKE x \in S
  <2>1. Upto(x) \in SUBSET S
      OBVIOUS
  <2> QED
      BY <2>1, FS_Subset, FS_CardinalityType
<1>3. \A x \in S : Cardinality(Upto(x)) # 0
  <2> TAKE x \in S
  <2>1. x \in Upto(x)
      OBVIOUS
  <2> QED
      BY <1>2, <2>1, FS_EmptySet
<1>4. rank \in [S -> 1..n]
    BY <1>1, <1>2, <1>3
<1>5. \A x, y \in S : x < y => rank[x] < rank[y]
  <2> SUFFICES ASSUME NEW x \in S, NEW y \in S, x < y
               PROVE  Cardinality(Upto(x)) < Cardinality(Upto(y))
      OBVIOUS
  <2>0. x \in Nat /\ y \in Nat /\ \A z \in S : z \in Nat
      OBVIOUS
  <2>3. \A z \in S : z <= x => z <= y
      BY <2>0
  <2>4. y <= y /\ ~(y <= x)
      BY <2>0
  <2>1. Upto(x) \in SUBSET Upto(y) /\ y \in Upto(y) /\ y \notin Upto(x)
      BY <2>3, <2>4
  <2>2. Cardinality(Upto(x)) <= Cardinality(Upto(y)) /\ Cardinality(Upto(x)) # Cardinality(Upto(y))
      BY <1>2, <2>1, FS_Subset
  <2> QED
      BY <1>2, <2>2
<1> HIDE DEF rank, Upto
<1>6. rank \in Injection(S, 1..n)
  <2>1. \A x, y \in S : rank[x] = rank[y] => x = y
    <3> SUFFICES ASSUME NEW x \in S, NEW y \in S, rank[x] = rank[y] PROVE x = y
        OBVIOUS
    <3>1. x \in Nat /\ y \in Nat /\ rank[x] \in 1..n /\ rank[y] \in 1..n
        BY <1>4
    <3>2. ~(x < y) /\ ~(y < x)
        BY <1>5, <3>1
    <3> QED
        BY <3>1, <3>2
  <2> QED
      BY <1>4, <2>1 DEF Injection, IsInjective
<1>7. IsFiniteSet(1..n) /\ Cardinality(1..n) = n
    BY <1>1, FS_Interval
<1>8. rank \in Surjection(S, 1..n)
    BY <1>6, <1>7, FS_Injection
<1>9. \A i \in 1..n : \E x \in S : rank[x] = i
    BY <1>8 DEF Surjection
<1> DEFINE q == [i \in 1..n |-> CHOOSE x \in S : rank[x] = i]
<1>10. \A i \in 1..n : q[i] \in S /\ rank[q[i]] = i
    BY <1>9
<1>11. \A i, j \in 1..n : i < j => q[i] < q[j]
  <2> SUFFICES ASSUME NEW i \in 1..n, NEW j \in 1..n, i < j PROVE q[i] < q[j]
      OBVIOUS
  <2> DEFINE a == q[i]
             b == q[j]
  <2>1. a \in S /\ b \in S /\ rank[a] = i /\ rank[b] = j
      BY <1>10
  <2> HIDE DEF a, b
  <2>2. a \in Nat /\ b \in Nat
      BY <2>1
  <2>3. a = b \/ a < b \/ b < a
      BY <2>2
  <2>4. a < b
      BY <1>5, <2>1, <2>3
  <2> QED
      BY <2>4 DEF a, b
<1>12. q \in [1..n -> S] /\ DOMAIN q = 1..n
    BY <1>10
<1> HIDE DEF q
<1> QED
    BY <1>11, <1>12

\* A list of the elements of a finite set in ascending order holds each of them.
LEMMA AscendingHoldsAll ==
    ASSUME NEW S, S \subseteq Nat, IsFiniteSet(S),
           NEW q \in [1 .. Cardinality(S) -> S], \A i, j \in DOMAIN q : i < j => q[i] < q[j]
    PROVE  /\ q \in Seq(S) /\ Len(q) = Cardinality(S)
           /\ {q[i] : i \in DOMAIN q} = S
<1> DEFINE n == Cardinality(S)
<1>1. n \in Nat /\ IsFiniteSet(1..n) /\ Cardinality(1..n) = n
    BY FS_CardinalityType, FS_Interval
<1>2. q \in Injection(1..n, S)
  <2>1. \A i, j \in 1..n : q[i] = q[j] => i = j
    <3> SUFFICES ASSUME NEW i \in 1..n, NEW j \in 1..n, q[i] = q[j] PROVE i = j
        OBVIOUS
    <3>0. q[i] \in S /\ DOMAIN q = 1..n
        OBVIOUS
    <3>3. i \in Nat /\ j \in Nat
        BY <1>1
    <3>4. q[i] \in Nat
        BY <3>0
    <3>1. i \in Nat /\ j \in Nat /\ q[i] \in Nat
        BY <3>3, <3>4
    <3>2. ~(i < j) /\ ~(j < i)
        BY <3>0, <3>1
    <3> QED
        BY <3>1, <3>2
  <2> QED
      BY <2>1 DEF Injection, IsInjective
<1>3. q \in Surjection(1..n, S)
    BY <1>1, <1>2, FS_Injection
<1>4. \A x \in S : \E i \in 1..n : q[i] = x
    BY <1>3 DEF Surjection
<1>5. q \in Seq(S) /\ Len(q) = n
    BY <1>1
<1>6. {q[i] : i \in DOMAIN q} = S
  <2>1. DOMAIN q = 1..n /\ \A i \in 1..n : q[i] \in S
      OBVIOUS
  <2> QED
      BY <1>4, <2>1
<1> QED
    BY <1>5, <1>6

--------------------------------------------------------------------------------
(* The inductive invariant, by transaction *)

\* The states of the manager and of the reply, by their types
Phases == {"idle", "callback", "hook", "credentials"}

Tx == [got : Seq(Nat) \ {<<>>}, client : BOOLEAN, login : BOOLEAN, prompt : BOOLEAN,
       flight : Nat, armed : BOOLEAN, orphans : Nat, slot : BOOLEAN, flags : SUBSET Flags]

Manager == [tx : Seq(Tx), cur : Nat, queuing : BOOLEAN, prompts : Nat,
            loaded : BOOLEAN, delaying : BOOLEAN, netUp : BOOLEAN, onLine : BOOLEAN,
            playback : BOOLEAN, log : Seq(Nat), later : Seq(Nat), misled : BOOLEAN,
            unbalanced : BOOLEAN, lost : SUBSET Nat, disturbances : Nat]

Replies == [t : Nat, op : Nat, relogin : Nat, phase : Phases]

\* The log and the delayed calls
Queued(s) == ToSet(s.log) \cup ToSet(s.later)

\* What the record of transaction t is judged against: what the manager and the reply r
\* say about it.
Situation(s, r, t) ==
    [loaded |-> s.loaded, misled |-> s.misled, balanced |-> ~s.misled /\ ~s.unbalanced,
     open |-> s.cur = t, queued |-> t \in Queued(s),
     lost |-> t \in s.lost, phase |-> IF r.t = t THEN r.phase ELSE "idle", op |-> r.op]

\* A transaction of which less is known: a callback of it threw, or its timer was stopped for
\* another one, or it carries credentials.
Excused(x, e) == "thrown" \in x.flags \/ e.lost \/ x.login
\* No request of it was answered since it was sent
Fresh(x) == \A op \in DOMAIN x.got : x.got[op] = 0

\* Until it is submitted nothing is under way for it.
UnsentOK(x, e) ==
    "submitted" \notin x.flags =>
        /\ x.flags \subseteq {"withdrawn"} /\ x.flight = 0 /\ ~x.armed /\ x.orphans = 0 /\ ~x.slot
        /\ ~e.queued /\ Fresh(x) /\ e.phase = "idle"

\* The queue being filled was neither submitted nor withdrawn, and what was withdrawn is gone
\* or was never sent.
QueueOK(x, e) ==
    ~e.misled =>
        /\ e.open => "submitted" \notin x.flags /\ "withdrawn" \notin x.flags
        /\ "withdrawn" \in x.flags => "cleared" \in x.flags \/ "submitted" \notin x.flags

\* `replying` and `abort` mark the transaction whose reply is under way, or that threw in it.
\* Who is suspended in its own reply aborts it.
MarksOK(x, e) ==
    /\ "replying" \in x.flags \/ "abort" \in x.flags =>
          e.phase \in {"callback", "hook"} \/ "thrown" \in x.flags
    /\ e.phase \in {"callback", "hook"} => "replying" \in x.flags
    /\ e.phase = "callback" /\ "suspended" \in x.flags => "abort" \in x.flags
    /\ e.phase = "credentials" => x.login

\* At most one answer for a request; none for the requests still to come in the reply loop,
\* none at all while the transaction waits for an answer, nor after an abort and a new submission.
OnceOK(x, e) ==
    \/ Excused(x, e)
    \/ /\ \A op \in DOMAIN x.got : x.got[op] <= 1
       /\ "cleared" \notin x.flags /\ "suspended" \notin x.flags /\ e.phase = "idle" => Fresh(x)
       /\ "abort" \in x.flags /\ "suspended" \notin x.flags => Fresh(x)
       /\ e.phase \in {"callback", "hook"} /\ "abort" \notin x.flags /\ "suspended" \notin x.flags =>
             \A op \in DOMAIN x.got : op > e.op => x.got[op] = 0

\* What was cleared was answered; the loop so far has answered each request up to op.
ClearedOK(x, e) ==
    \/ e.misled
    \/ x.login
    \/ /\ "cleared" \in x.flags /\ "withdrawn" \notin x.flags => \A op \in DOMAIN x.got : x.got[op] >= 1
       /\ e.phase = "callback" /\ "abort" \notin x.flags /\ "suspended" \notin x.flags
             /\ "withdrawn" \notin x.flags =>
             \A op \in DOMAIN x.got : op <= e.op => x.got[op] >= 1
       /\ e.phase \in {"callback", "hook"} /\ "cleared" \in x.flags => "withdrawn" \in x.flags

\* Something will bring on what was submitted.
ForwardOK(x, e) ==
    "submitted" \in x.flags /\ "cleared" \notin x.flags =>
        \/ "suspended" \in x.flags
        \/ "delayed" \in x.flags /\ ~e.loaded
        \/ e.queued \/ x.armed
        \/ "thrown" \in x.flags \/ e.lost
        \/ e.phase # "idle" /\ "abort" \notin x.flags

\* The prompt is on show from the submission until doClearPrompt, and only of what was sent
\* after the load of the page.
PromptOK(x, e) ==
    /\ ~e.loaded /\ "submitted" \in x.flags /\ "cleared" \notin x.flags => "delayed" \in x.flags
    /\ e.balanced =>
        /\ "shown" \in x.flags =>
              /\ x.prompt /\ e.loaded
              /\ "clearedPrompt" \notin x.flags /\ "cleared" \notin x.flags /\ "suspended" \notin x.flags
        /\ "submitted" \in x.flags /\ e.loaded /\ x.prompt /\ ~x.client
           /\ "clearedPrompt" \notin x.flags /\ "offline" \notin x.flags /\ "cleared" \notin x.flags
              => "shown" \in x.flags
        /\ e.phase \in {"callback", "hook"} /\ "cleared" \in x.flags /\ x.prompt =>
              "clearedPrompt" \in x.flags

\* All but that something brings it on
Sound(x, e) ==
    /\ UnsentOK(x, e) /\ QueueOK(x, e) /\ MarksOK(x, e) /\ OnceOK(x, e)
    /\ ClearedOK(x, e) /\ PromptOK(x, e)

\* What is known of the record x of one transaction in the situation e
Good(x, e) == Sound(x, e) /\ ForwardOK(x, e)

\* The transactions whose prompt is on show
Shown(s) == {t \in Numbers(s) : Has(s, t, "shown")}

\* Types, with the numbers in the queue, the log and the timers naming transactions
Typed(s) ==
    /\ s \in Manager
    /\ s.cur \in {0} \cup Numbers(s)
    /\ Queued(s) \cup s.lost \subseteq Numbers(s)

\* The reply under way is that of a transaction.
ReplyOK(s, r) ==
    /\ r \in Replies
    /\ r.t \in {0} \cup Numbers(s)
    /\ r.t = 0 <=> r.phase = "idle"
    /\ r.phase = "hook" => r.op = 0

\* The prompts on show are counted.
Balance(s) ==
    /\ s.delaying => ~s.loaded
    /\ ~s.misled /\ ~s.unbalanced => s.prompts = Cardinality(Shown(s))

\* The inductive invariant
WF(s, r) ==
    /\ Typed(s) /\ ReplyOK(s, r) /\ Balance(s)
    /\ \A t \in Numbers(s) : Good(s.tx[t], Situation(s, r, t))

GoodInv == WF(mgr, reply)

(* One transaction *)

\* What another transaction's step may change around x
LEMMA GoodElsewhere ==
    ASSUME NEW x, NEW e, NEW f, Good(x, e),
           f.loaded = e.loaded, e.misled => f.misled, f.balanced => e.balanced,
           f.open => e.open, f.queued = e.queued, e.lost => f.lost,
           f.phase = e.phase, f.phase # "idle" => f.op = e.op
    PROVE  Good(x, f)
BY DEF Good, Sound, UnsentOK, QueueOK, MarksOK, OnceOK, ClearedOK, ForwardOK, PromptOK, Excused

\* Its timer is stopped in place of another's
LEMMA GoodDisarmed ==
    ASSUME NEW x \in Tx, NEW e, NEW f, NEW y \in Tx, Good(x, e), y = [x EXCEPT !.armed = FALSE],
           f.loaded = e.loaded, e.misled => f.misled, f.balanced => e.balanced,
           f.open => e.open, f.queued = e.queued, f.lost,
           f.phase = e.phase, f.phase # "idle" => f.op = e.op
    PROVE  Good(y, f)
<1>1. /\ y.got = x.got /\ y.client = x.client /\ y.login = x.login /\ y.prompt = x.prompt
      /\ y.flight = x.flight /\ ~y.armed /\ y.orphans = x.orphans /\ y.slot = x.slot /\ y.flags = x.flags
    BY DEF Tx
<1> QED
BY <1>1 DEF Good, Sound, UnsentOK, QueueOK, MarksOK, OnceOK, ClearedOK, ForwardOK, PromptOK, Excused, Fresh

--------------------------------------------------------------------------------
(* What each event does to a good transaction *)

\* A transaction that _sendQueue may take
Sendable(x, e) ==
    /\ UnsentOK(x, e) /\ MarksOK(x, e)
    /\ ~e.misled => /\ ~e.open
                    /\ "withdrawn" \notin x.flags /\ "cleared" \notin x.flags /\ "suspended" \notin x.flags
                    /\ ~x.login /\ e.phase = "callback" => "abort" \in x.flags
    /\ e.balanced => /\ ~e.misled
                      /\ "clearedPrompt" \notin x.flags /\ "shown" \notin x.flags

\* One that resubmitTransaction may take
Resendable(x, e) ==
    /\ UnsentOK(x, e) /\ MarksOK(x, e)
    /\ ~e.misled => /\ ~e.open
                    /\ "withdrawn" \notin x.flags /\ "cleared" \notin x.flags
                    /\ ~x.login /\ e.phase = "callback" => "abort" \in x.flags
    /\ e.balanced => ~e.misled /\ "shown" \notin x.flags

\* The same but for what a submission, an answer or a timer may change
Same(x, y) == /\ y.client = x.client /\ y.login = x.login /\ y.prompt = x.prompt

\* Submitted, in each of the three ways
LEMMA SentIsGood ==
    ASSUME NEW x, NEW y, NEW e, NEW f, Sendable(x, e), Same(x, y),
           f.loaded = e.loaded, f.misled = e.misled, f.balanced = e.balanced, f.open = e.open,
           f.phase = e.phase, f.op = e.op,
           NEW more, y.flags = x.flags \cup {"submitted"} \cup more,
           Fresh(y),
           \/ more = {"delayed"} /\ ~f.loaded
           \/ /\ f.loaded
              /\ \/ f.queued \/ y.armed \/ f.lost
              /\ \/ more = {"shown"} /\ x.prompt
                 \/ more = {} /\ (x.client \/ ~x.prompt \/ "offline" \in x.flags)
                 \/ more = {"offline"}
    PROVE  Good(y, f)
<1>1. /\ Sound(y, f)
  <2>1. UnsentOK(y, f)
      BY DEF UnsentOK
  <2>2. QueueOK(y, f)
      BY DEF QueueOK, Sendable
  <2>3. MarksOK(y, f)
      BY DEF MarksOK, Sendable, Same
  <2>4. OnceOK(y, f)
    <3>1. \A op \in DOMAIN y.got : y.got[op] = 0 /\ y.got[op] <= 1
        BY DEF Fresh
    <3> QED
        BY <3>1 DEF OnceOK, Fresh
  <2>5. ClearedOK(y, f)
      BY DEF ClearedOK, Sendable, Same
  <2>6. PromptOK(y, f)
      BY DEF PromptOK, Sendable, Same
  <2> QED
      BY <2>1, <2>2, <2>3, <2>4, <2>5, <2>6 DEF Sound
<1>2. ForwardOK(y, f)
    BY DEF ForwardOK
<1> QED
    BY <1>1, <1>2 DEF Good

\* The same but for the flags
Marked(x, y) == Same(x, y) /\ y.got = x.got /\ y.flight = x.flight /\ y.armed = x.armed
                /\ y.orphans = x.orphans /\ y.slot = x.slot

\* The situation is the same but for what may only excuse more
Around(e, f) == /\ f.loaded = e.loaded /\ (e.misled => f.misled) /\ (f.balanced => e.balanced)
                /\ f.open = e.open /\ f.phase = e.phase
                /\ (f.queued => e.queued) /\ (f.balanced => ~f.misled)

\* resubmitTransaction hands over what may be sent
LEMMA ResentIsSendable ==
    ASSUME NEW x, NEW y, NEW e, NEW f, Resendable(x, e), Marked(x, y), Around(e, f),
           y.flags = x.flags \ {"suspended", "clearedPrompt"}
    PROVE  Sendable(y, f)
<1>1. UnsentOK(y, f)
    BY DEF Resendable, Marked, Around, UnsentOK, Fresh
<1>2. MarksOK(y, f)
    BY DEF Resendable, Marked, Same, Around, MarksOK
<1> QED
    BY <1>1, <1>2 DEF Resendable, Marked, Same, Around, Sendable

\* What is suspended and tracked may be sent again
LEMMA SuspendedIsResendable ==
    ASSUME NEW x, NEW y, NEW e, NEW f, Good(x, e), Marked(x, y), Around(e, f),
           "suspended" \in x.flags, "cleared" \notin x.flags,
           y.flags \in {x.flags, x.flags \ {"suspended"}}
    PROVE  Resendable(y, f)
<1>1. "submitted" \in x.flags
    BY DEF Good, Sound, UnsentOK
<1>2. UnsentOK(y, f)
    BY <1>1 DEF UnsentOK
<1>3. MarksOK(y, f)
    BY DEF Good, Sound, Marked, Same, Around, MarksOK
<1> QED
    BY <1>1, <1>2, <1>3 DEF Good, Sound, QueueOK, MarksOK, PromptOK, Marked, Same, Around, Resendable

\* So may what was delayed until the page was loaded
LEMMA DelayedIsResendable ==
    ASSUME NEW x, NEW y, NEW e, NEW f, Good(x, e), Marked(x, y),
           ~e.loaded, f.loaded, e.balanced => ~e.misled, e.phase = "idle",
           f.misled = e.misled, f.balanced = e.balanced, f.open = e.open, f.phase = e.phase,
           f.op = e.op, f.queued = e.queued,
           "delayed" \in x.flags, "cleared" \notin x.flags,
           y.flags = x.flags \ {"delayed"}
    PROVE  Resendable(y, f)
<1>1. "submitted" \in x.flags
    BY DEF Good, Sound, UnsentOK
<1>2. UnsentOK(y, f)
    BY <1>1 DEF UnsentOK
<1>3. MarksOK(y, f)
    BY DEF Good, Sound, Marked, Same, MarksOK
<1> QED
    BY <1>1, <1>2, <1>3 DEF Good, Sound, QueueOK, PromptOK, Marked, Same, Resendable

\* The load of the page changes nothing for the rest
LEMMA NotDelayedIsGood ==
    ASSUME NEW x, NEW e, NEW f, Good(x, e),
           ~e.loaded, f.loaded, e.phase = "idle",
           f.misled = e.misled, f.balanced = e.balanced, f.open = e.open, f.phase = e.phase,
           f.op = e.op, f.queued = e.queued, f.lost = e.lost, e.balanced => ~e.misled,
           ~("delayed" \in x.flags /\ "cleared" \notin x.flags)
    PROVE  Good(x, f)
<1>1. UnsentOK(x, f) /\ QueueOK(x, f) /\ MarksOK(x, f) /\ OnceOK(x, f) /\ ClearedOK(x, f)
    BY DEF Good, Sound, UnsentOK, QueueOK, MarksOK, OnceOK, ClearedOK, Excused
<1>2. PromptOK(x, f)
    BY DEF Good, Sound, PromptOK
<1>3. ForwardOK(x, f)
    BY DEF Good, Sound, PromptOK, ForwardOK
<1> QED
    BY <1>1, <1>2, <1>3 DEF Good, Sound

\* The playback resends the transaction it took from the log, or another one
LEMMA LoggedIsResendable ==
    ASSUME NEW x, NEW e, NEW f, Good(x, e), Around(e, f), e.phase = "idle",
           \/ "submitted" \in x.flags /\ "cleared" \notin x.flags
           \/ f.misled,
           f.balanced => "shown" \notin x.flags
    PROVE  Resendable(x, f)
<1>1. UnsentOK(x, f) /\ MarksOK(x, f)
    BY DEF Good, Sound, Around, UnsentOK, MarksOK
<1> QED
    BY <1>1 DEF Good, Sound, QueueOK, Around, Resendable

\* A transaction that is gone needs nothing to bring it on.
LEMMA GoneIsGood ==
    ASSUME NEW x, NEW y, NEW e, NEW f, Sound(x, e), "submitted" \in x.flags, "cleared" \in x.flags,
           f.loaded = e.loaded, e.misled => f.misled, f.balanced => e.balanced,
           f.open => e.open, e.lost => f.lost,
           f.phase = e.phase, f.phase # "idle" => f.op = e.op,
           Same(x, y), y.got = x.got, y.flags = x.flags
    PROVE  Good(y, f)
<1>1. UnsentOK(y, f) /\ QueueOK(y, f) /\ MarksOK(y, f)
    BY DEF Sound, Same, UnsentOK, QueueOK, MarksOK
<1>2. OnceOK(y, f) /\ ClearedOK(y, f)
    BY DEF Sound, Same, OnceOK, ClearedOK, Excused, Fresh
<1>3. PromptOK(y, f)
    BY DEF Sound, Same, PromptOK
<1>4. ForwardOK(y, f)
    BY DEF ForwardOK
<1> QED
    BY <1>1, <1>2, <1>3, <1>4 DEF Good, Sound

\* sendQueue hands over the queue that was being filled
LEMMA QueueIsSendable ==
    ASSUME NEW x, NEW e, NEW f, Good(x, e), e.open, ~f.open,
           f.loaded = e.loaded, f.misled = e.misled, f.balanced = e.balanced,
           f.phase = e.phase, f.op = e.op, f.queued = e.queued, e.balanced => ~e.misled
    PROVE  Sendable(x, f)
<1>1. UnsentOK(x, f) /\ MarksOK(x, f)
    BY DEF Good, Sound, UnsentOK, MarksOK
<1>2. ~e.misled => x.flags = {} /\ e.phase = "idle"
    BY DEF Good, Sound, QueueOK, UnsentOK
<1> QED
    BY <1>1, <1>2 DEF Sendable

\* suspendTransaction
LEMMA SuspendedIsGood ==
    ASSUME NEW x, NEW y, NEW e, NEW f, Sound(x, e), Around(e, f), e.lost => f.lost,
           "submitted" \in x.flags, "cleared" \notin x.flags,
           Same(x, y), y.got = x.got,
           \/ y.flags = x.flags /\ "suspended" \in x.flags
           \/ /\ "suspended" \notin x.flags
              /\ y.flags = LET g == x.flags \cup {"suspended"}
                                       \cup IF "replying" \in x.flags THEN {"abort"} ELSE {}
                           IN IF ~x.prompt \/ "clearedPrompt" \in x.flags THEN g
                              ELSE (g \cup {"clearedPrompt"}) \ {"shown"}
    PROVE  Good(y, f)
<1>1. /\ "submitted" \in y.flags /\ "suspended" \in y.flags /\ "cleared" \notin y.flags
      /\ \A m \in {"withdrawn", "thrown", "replying", "delayed", "offline"} : m \in y.flags <=> m \in x.flags
      /\ "abort" \in y.flags => "abort" \in x.flags \/ "replying" \in x.flags
      /\ "abort" \in x.flags => "abort" \in y.flags
      /\ "replying" \in x.flags => "abort" \in y.flags \/ "suspended" \in x.flags
      /\ "shown" \in y.flags => "shown" \in x.flags /\ (y.prompt /\ "suspended" \notin x.flags => "clearedPrompt" \in x.flags)
      /\ "suspended" \notin x.flags /\ x.prompt => "clearedPrompt" \in y.flags
      /\ "clearedPrompt" \in x.flags => "clearedPrompt" \in y.flags
      /\ "clearedPrompt" \in y.flags => "clearedPrompt" \in x.flags \/ x.prompt
      /\ "suspended" \in x.flags => y.flags = x.flags
    BY DEF Same
<1>2. UnsentOK(y, f) /\ QueueOK(y, f)
    BY <1>1 DEF Sound, Same, Around, UnsentOK, QueueOK
<1>3. MarksOK(y, f)
    BY <1>1 DEF Sound, Same, Around, MarksOK
<1>4. OnceOK(y, f)
    BY <1>1 DEF Sound, Same, Around, OnceOK, Excused, Fresh
<1>5. ClearedOK(y, f)
    BY <1>1 DEF Sound, Same, Around, ClearedOK
<1>6. PromptOK(y, f)
    BY <1>1 DEF Sound, Same, Around, PromptOK
<1>7. ForwardOK(y, f)
    BY <1>1 DEF ForwardOK
<1> QED
    BY <1>2, <1>3, <1>4, <1>5, <1>6, <1>7 DEF Good, Sound

\* A transaction in its reply loop. It may have been suspended when the loop began.
Ready(x, e) ==
    /\ "submitted" \in x.flags /\ "replying" \in x.flags /\ e.phase = "callback"
    /\ QueueOK(x, e) /\ OnceOK(x, e) /\ ClearedOK(x, e) /\ PromptOK(x, e) /\ ForwardOK(x, e)

\* The flags after doClearPrompt
PromptFlags(x) ==
    IF ~x.prompt \/ "clearedPrompt" \in x.flags THEN x.flags
    ELSE (x.flags \cup {"clearedPrompt"}) \ {"shown"}

\* Between two operations of its reply loop a transaction is ready for the next one
LEMMA GoodIsReady ==
    ASSUME NEW x, NEW e, Good(x, e), e.phase = "callback"
    PROVE  Ready(x, e)
BY DEF Good, Sound, UnsentOK, MarksOK, Ready

\* What is ready and was not suspended is as it should be
LEMMA ReadyIsGood ==
    ASSUME NEW x, NEW e, Ready(x, e), "suspended" \notin x.flags
    PROVE  Good(x, e)
<1>1. UnsentOK(x, e) /\ MarksOK(x, e)
    BY DEF Ready, UnsentOK, MarksOK
<1> QED
    BY <1>1 DEF Ready, Good, Sound

\* The reply loop begins
LEMMA StartsReady ==
    ASSUME NEW x, NEW y, NEW e, NEW f, Sound(x, e), e.phase = "idle", Same(x, y), y.got = x.got,
           x.got \in Seq(Nat),
           "submitted" \in x.flags, "cleared" \notin x.flags, y.flags = x.flags \cup {"replying"},
           f.loaded = e.loaded, f.misled = e.misled, f.balanced => e.balanced, f.open = e.open,
           e.lost => f.lost, f.phase = "callback", f.op = 0
    PROVE  Ready(y, f)
<1>1. QueueOK(y, f)
    BY DEF Sound, QueueOK
<1>2. OnceOK(y, f)
    BY DEF Sound, OnceOK, MarksOK, Excused, Fresh, Same
<1>3. ClearedOK(y, f)
  <2>1. \A op \in DOMAIN x.got : ~(op <= 0)
      OBVIOUS
  <2> QED
      BY <2>1 DEF Sound, ClearedOK, Same
<1>4. PromptOK(y, f)
    BY DEF Sound, PromptOK, Same
<1>5. ForwardOK(y, f)
    BY DEF Sound, MarksOK, ForwardOK
<1> QED
    BY <1>1, <1>2, <1>3, <1>4, <1>5 DEF Ready

\* The callback of the next operation is called
LEMMA AnswerIsGood ==
    ASSUME NEW x, NEW y, NEW e, NEW f, Ready(x, e), Same(x, y), y.armed = x.armed,
           x.got \in Seq(Nat), e.op \in Nat, e.op + 1 \in DOMAIN x.got,
           y.got = [x.got EXCEPT ![e.op + 1] = @ + 1], y.flags = x.flags,
           "suspended" \notin x.flags, "abort" \notin x.flags,
           f.loaded = e.loaded, f.misled = e.misled, f.balanced = e.balanced, f.open = e.open,
           f.lost = e.lost, f.phase = e.phase, f.op = e.op + 1, f.queued = e.queued
    PROVE  Good(y, f)
<1>0. /\ DOMAIN y.got = DOMAIN x.got
      /\ \A op \in DOMAIN x.got : op \in Nat /\ x.got[op] \in Nat
      /\ \A op \in DOMAIN x.got : y.got[op] = IF op = e.op + 1 THEN x.got[op] + 1 ELSE x.got[op]
    OBVIOUS
<1>1. QueueOK(y, f)
    BY DEF Ready, QueueOK
<1>2. OnceOK(y, f)
  <2>1. CASE Excused(x, e)
      BY <2>1 DEF OnceOK, Excused, Same
  <2>2. CASE ~Excused(x, e)
    <3>1. /\ \A op \in DOMAIN x.got : x.got[op] <= 1
          /\ \A op \in DOMAIN x.got : op > e.op => x.got[op] = 0
        BY <2>2 DEF Ready, OnceOK
    <3>4. x.got[e.op + 1] = 0
        BY <3>1
    <3>2. \A op \in DOMAIN x.got : y.got[op] <= 1
        BY <1>0, <3>1, <3>4
    <3>3. \A op \in DOMAIN x.got : op > f.op => y.got[op] = 0
        BY <1>0, <3>1
    <3> QED
        BY <1>0, <3>2, <3>3 DEF Ready, OnceOK
  <2> QED
      BY <2>1, <2>2
<1>3. ClearedOK(y, f)
  <2>1. CASE e.misled \/ x.login
      BY <2>1 DEF ClearedOK, Same
  <2>2. CASE ~e.misled /\ ~x.login
    <3>1. \A op \in DOMAIN x.got : x.got[op] >= 1 => y.got[op] >= 1
        BY <1>0
    <3>2. \A op \in DOMAIN x.got : op <= f.op => op <= e.op \/ op = e.op + 1
        BY <1>0
    <3>3. y.got[e.op + 1] >= 1
        BY <1>0
    <3> QED
        BY <1>0, <2>2, <3>1, <3>2, <3>3 DEF Ready, ClearedOK, Same
  <2> QED
      BY <2>1, <2>2
<1>4. PromptOK(y, f) /\ ForwardOK(y, f)
    BY DEF Ready, PromptOK, ForwardOK, Same
<1>5. UnsentOK(y, f) /\ MarksOK(y, f)
    BY DEF Ready, UnsentOK, MarksOK
<1> QED
    BY <1>1, <1>2, <1>3, <1>4, <1>5 DEF Good, Sound

\* The operation of a transaction that is gone asks for a new login
LEMMA UnansweredIsGood ==
    ASSUME NEW x, NEW e, NEW f, Ready(x, e), x.got \in Seq(Nat), e.op \in Nat,
           "suspended" \notin x.flags, "abort" \notin x.flags, "cleared" \in x.flags,
           f.loaded = e.loaded, f.misled = e.misled, f.balanced = e.balanced, f.open = e.open,
           f.lost = e.lost, f.phase = e.phase, f.op = e.op + 1, f.queued = e.queued
    PROVE  Good(x, f)
<1>0. \A op \in DOMAIN x.got : op > e.op + 1 => op > e.op
    OBVIOUS
<1>1. QueueOK(x, f) /\ PromptOK(x, f) /\ ForwardOK(x, f)
    BY DEF Ready, QueueOK, PromptOK, ForwardOK
<1>2. OnceOK(x, f)
    BY <1>0 DEF Ready, OnceOK, Excused
<1>3. ClearedOK(x, f)
    BY DEF Ready, ClearedOK
<1>5. UnsentOK(x, f) /\ MarksOK(x, f)
    BY DEF Ready, UnsentOK, MarksOK
<1> QED
    BY <1>1, <1>2, <1>3, <1>5 DEF Good, Sound

\* After the last operation the transaction is cleared
LEMMA FinishedIsGood ==
    ASSUME NEW x, NEW y, NEW e, NEW f, Ready(x, e), Same(x, y), y.got = x.got,
           x.got \in Seq(Nat), e.op \in Nat,
           f.loaded = e.loaded, f.misled = e.misled, f.balanced => e.balanced, f.open = e.open,
           e.lost => f.lost, f.phase = "idle", f.queued = e.queued, e.balanced => ~e.misled,
           \/ /\ "suspended" \notin x.flags /\ "abort" \notin x.flags
              /\ \A op \in DOMAIN x.got : op <= e.op
              /\ y.flags = (PromptFlags(x) \cup {"cleared"}) \ {"abort", "replying"}
           \/ /\ "suspended" \in x.flags \/ "abort" \in x.flags
              /\ y.armed = x.armed
              /\ y.flags = PromptFlags(x) \ {"abort", "replying"}
    PROVE  Good(y, f)
<1>0. /\ "submitted" \in y.flags /\ "abort" \notin y.flags /\ "replying" \notin y.flags
      /\ \A m \in {"withdrawn", "thrown", "suspended", "delayed", "offline"} : m \in y.flags <=> m \in x.flags
      /\ "shown" \in y.flags => "shown" \in x.flags /\ (x.prompt => "clearedPrompt" \in x.flags)
      /\ x.prompt => "clearedPrompt" \in y.flags
      /\ "clearedPrompt" \in y.flags => "clearedPrompt" \in x.flags \/ x.prompt
      /\ "cleared" \in x.flags => "cleared" \in y.flags
      /\ \/ /\ "suspended" \notin x.flags /\ "abort" \notin x.flags
            /\ \A op \in DOMAIN x.got : op <= e.op
            /\ "cleared" \in y.flags
         \/ /\ "suspended" \in x.flags \/ "abort" \in x.flags
            /\ y.armed = x.armed
            /\ "cleared" \in y.flags <=> "cleared" \in x.flags
    BY DEF PromptFlags, Ready
<1>1. UnsentOK(y, f) /\ QueueOK(y, f)
    BY <1>0 DEF Ready, UnsentOK, QueueOK
<1>2. MarksOK(y, f)
    BY <1>0 DEF MarksOK
<1>3. OnceOK(y, f)
    BY <1>0 DEF Ready, OnceOK, Excused, Fresh, Same
<1>4. ClearedOK(y, f)
    BY <1>0 DEF Ready, ClearedOK, Same
<1>5. PromptOK(y, f)
    BY <1>0 DEF Ready, PromptOK, Same
<1>6. ForwardOK(y, f)
    BY <1>0 DEF Ready, ForwardOK
<1> QED
    BY <1>1, <1>2, <1>3, <1>4, <1>5, <1>6 DEF Good, Sound

\* The loop is not even begun: the hook of a transport error ends
LEMMA HookEndsGood ==
    ASSUME NEW x, NEW y, NEW e, NEW f, Good(x, e), Marked(x, y), e.phase = "hook", e.op = 0,
           x.got \in Seq(Nat),
           f.loaded = e.loaded, f.misled = e.misled, f.balanced = e.balanced, f.open = e.open,
           f.lost = e.lost, f.phase = "idle", f.queued = e.queued,
           y.flags = x.flags \ {"abort", "replying"}
    PROVE  /\ Sound(y, f) /\ "submitted" \in y.flags
           /\ "suspended" \in x.flags \/ "abort" \in x.flags => Good(y, f)
<1>0. \A op \in DOMAIN x.got : op > 0
    OBVIOUS
<1>1. "submitted" \in x.flags
    BY DEF Good, Sound, UnsentOK
<1>2. UnsentOK(y, f) /\ QueueOK(y, f) /\ MarksOK(y, f)
    BY <1>1 DEF Good, Sound, Marked, Same, UnsentOK, QueueOK, MarksOK
<1>3. OnceOK(y, f)
    BY <1>0 DEF Good, Sound, Marked, Same, OnceOK, Excused, Fresh
<1>4. ClearedOK(y, f)
    BY DEF Good, Sound, Marked, Same, ClearedOK
<1>5. PromptOK(y, f)
    BY DEF Good, Sound, Marked, Same, PromptOK
<1>6. "suspended" \in x.flags \/ "abort" \in x.flags => ForwardOK(y, f)
    BY DEF Good, Marked, ForwardOK
<1> QED
    BY <1>1, <1>2, <1>3, <1>4, <1>5, <1>6 DEF Good, Sound

\* The same situation, or one that may only excuse more
Kept(e, f) == /\ f.loaded = e.loaded /\ (e.misled => f.misled) /\ (f.balanced => e.balanced)
              /\ (f.open => e.open) /\ f.queued = e.queued /\ (e.lost => f.lost)
              /\ (f.balanced => ~f.misled)

\* An answer arrives, or a timer fires
LEMMA ReceivedIsSound ==
    ASSUME NEW x, NEW y, NEW e, NEW f, Sound(x, e), e.phase = "idle", Same(x, y), y.got = x.got,
           "submitted" \in x.flags, f.loaded = e.loaded, e.misled => f.misled, f.balanced => e.balanced,
           f.open => e.open, e.lost => f.lost, f.phase = "idle",
           y.flags = x.flags \/ y.flags = x.flags \ {"abort", "replying"}
    PROVE  Sound(y, f) /\ "submitted" \in y.flags
<1>1. UnsentOK(y, f) /\ QueueOK(y, f) /\ MarksOK(y, f)
    BY DEF Sound, Same, UnsentOK, QueueOK, MarksOK
<1>3. OnceOK(y, f)
    BY DEF Sound, Same, OnceOK, Excused, Fresh
<1>4. ClearedOK(y, f)
    BY DEF Sound, Same, ClearedOK
<1>5. PromptOK(y, f)
    BY DEF Sound, Same, PromptOK
<1> QED
    BY <1>1, <1>3, <1>4, <1>5 DEF Sound

\* handleTransportError is called
LEMMA HookIsGood ==
    ASSUME NEW x, NEW y, NEW e, NEW f, Sound(x, e), e.phase = "idle", Same(x, y), y.got = x.got,
           "submitted" \in x.flags, "cleared" \notin x.flags, Kept(e, f), f.phase = "hook",
           f.open = e.open,
           y.flags = (x.flags \ {"abort", "replying"}) \cup {"replying"}
    PROVE  Good(y, f)
<1>1. UnsentOK(y, f) /\ QueueOK(y, f) /\ MarksOK(y, f)
    BY DEF Sound, Same, UnsentOK, QueueOK, MarksOK, Kept
<1>3. OnceOK(y, f)
    BY DEF Sound, Same, OnceOK, Excused, Fresh, Kept
<1>4. ClearedOK(y, f)
    BY DEF Sound, Same, ClearedOK, Kept
<1>5. PromptOK(y, f)
    BY DEF Sound, Same, PromptOK, Kept
<1>6. ForwardOK(y, f)
    BY DEF ForwardOK
<1> QED
    BY <1>1, <1>3, <1>4, <1>5, <1>6 DEF Good, Sound

\* The callback of a request with credentials is called
LEMMA CredentialsGood ==
    ASSUME NEW x, NEW y, NEW e, NEW f, Sound(x, e), e.phase = "idle", Same(x, y), x.login,
           "submitted" \in x.flags, Kept(e, f), f.phase = "credentials",
           f.open = e.open,
           y.flags = x.flags \ {"abort", "replying"}
    PROVE  Good(y, f)
<1>1. UnsentOK(y, f) /\ QueueOK(y, f) /\ MarksOK(y, f)
    BY DEF Sound, Same, UnsentOK, QueueOK, MarksOK, Kept
<1>3. OnceOK(y, f) /\ ClearedOK(y, f)
    BY DEF Same, OnceOK, Excused, ClearedOK
<1>5. PromptOK(y, f)
    BY DEF Sound, Same, PromptOK, Kept
<1>6. ForwardOK(y, f)
    BY DEF ForwardOK
<1> QED
    BY <1>1, <1>3, <1>5, <1>6 DEF Good, Sound

\* The callback of a request with credentials has returned
LEMMA CredentialsEndGood ==
    ASSUME NEW x, NEW y, NEW e, NEW f, Good(x, e), e.phase = "credentials", Same(x, y),
           Kept(e, f), f.phase = "idle", f.open = e.open, f.balanced => "shown" \notin x.flags,
           y.flags = x.flags \cup {"cleared"}
    PROVE  Good(y, f)
<1>1. "submitted" \in x.flags /\ x.login
    BY DEF Good, Sound, UnsentOK, MarksOK
<1>2. UnsentOK(y, f) /\ QueueOK(y, f) /\ MarksOK(y, f)
    BY <1>1 DEF Good, Sound, Same, UnsentOK, QueueOK, MarksOK, Kept
<1>3. OnceOK(y, f) /\ ClearedOK(y, f)
    BY <1>1 DEF Same, OnceOK, Excused, ClearedOK
<1>5. PromptOK(y, f)
    BY DEF Good, Sound, Same, PromptOK, Kept
<1>6. ForwardOK(y, f)
    BY DEF ForwardOK
<1> QED
    BY <1>2, <1>3, <1>5, <1>6 DEF Good, Sound

\* cancelQueue of a transaction that was sent
LEMMA CancelledIsGood ==
    ASSUME NEW x, NEW y, NEW e, NEW f, Good(x, e), Same(x, y), y.got = x.got,
           "submitted" \in x.flags, "cleared" \notin x.flags,
           Kept(e, f), f.phase = e.phase, f.op = e.op, ~f.open,
           y.flags = PromptFlags(x) \cup {"cleared", "withdrawn"}
    PROVE  Good(y, f)
<1>0. /\ "submitted" \in y.flags /\ "withdrawn" \in y.flags /\ "cleared" \in y.flags
      /\ \A m \in {"abort", "replying", "thrown", "suspended", "delayed", "offline"} : m \in y.flags <=> m \in x.flags
      /\ "shown" \in y.flags => "shown" \in x.flags /\ (x.prompt => "clearedPrompt" \in x.flags)
      /\ x.prompt => "clearedPrompt" \in y.flags
    BY DEF PromptFlags
<1>1. UnsentOK(y, f) /\ QueueOK(y, f) /\ MarksOK(y, f)
    BY <1>0 DEF Good, Sound, Same, UnsentOK, QueueOK, MarksOK, Kept
<1>3. OnceOK(y, f)
    BY <1>0 DEF Good, Sound, Same, OnceOK, Excused, Fresh, Kept
<1>4. ClearedOK(y, f)
    BY <1>0 DEF ClearedOK
<1>5. PromptOK(y, f)
    BY <1>0 DEF Good, Sound, Same, PromptOK, Kept
<1>6. ForwardOK(y, f)
    BY <1>0 DEF ForwardOK
<1> QED
    BY <1>1, <1>3, <1>4, <1>5, <1>6 DEF Good, Sound

\* A callback throws
LEMMA ThrownIsGood ==
    ASSUME NEW x, NEW y, NEW e, NEW f, Good(x, e), Marked(x, y), e.phase # "idle",
           Kept(e, f), f.phase = "idle", f.open = e.open,
           y.flags = x.flags \cup {"thrown"}
    PROVE  Good(y, f)
<1>0. "submitted" \in x.flags
    BY DEF Good, Sound, UnsentOK
<1>1. UnsentOK(y, f) /\ QueueOK(y, f) /\ MarksOK(y, f)
    BY <1>0 DEF Good, Sound, Same, UnsentOK, QueueOK, MarksOK, Kept
<1>3. OnceOK(y, f) /\ ForwardOK(y, f)
    BY DEF OnceOK, Excused, ForwardOK
<1>4. ClearedOK(y, f)
    BY DEF Good, Sound, Marked, Same, ClearedOK, Kept
<1>5. PromptOK(y, f)
    BY DEF Good, Sound, Marked, Same, PromptOK, Kept
<1> QED
    BY <1>1, <1>3, <1>4, <1>5 DEF Good, Sound

\* A timeout while offline: the transaction is logged again
LEMMA LoggedAgainIsGood ==
    ASSUME NEW x, NEW y, NEW e, NEW f, Sound(x, e), Same(x, y), Fresh(y),
           "submitted" \in x.flags, "cleared" \notin x.flags, e.phase = "idle",
           f.loaded = e.loaded, f.misled = e.misled, f.balanced = e.balanced, f.open = e.open,
           e.lost => f.lost, f.phase = "idle", f.queued \/ f.lost,
           y.flags = x.flags \cup {"submitted", "offline"}
    PROVE  Good(y, f)
<1>1. UnsentOK(y, f) /\ QueueOK(y, f) /\ MarksOK(y, f)
    BY DEF Sound, Same, UnsentOK, QueueOK, MarksOK
<1>3. OnceOK(y, f)
  <2>1. \A op \in DOMAIN y.got : y.got[op] = 0 /\ y.got[op] <= 1
      BY DEF Fresh
  <2> QED
      BY <2>1 DEF OnceOK, Fresh
<1>4. ClearedOK(y, f)
    BY DEF Sound, Same, ClearedOK
<1>5. PromptOK(y, f)
    BY DEF Sound, Same, PromptOK
<1>6. ForwardOK(y, f)
    BY DEF ForwardOK
<1> QED
    BY <1>1, <1>3, <1>4, <1>5, <1>6 DEF Good, Sound

\* A late answer is dropped
LEMMA DroppedIsGood ==
    ASSUME NEW x, NEW y, NEW e, Good(x, e), Same(x, y), y.got = x.got, y.flags = x.flags,
           y.armed = x.armed, "submitted" \in x.flags
    PROVE  Good(y, e)
<1>1. UnsentOK(y, e) /\ QueueOK(y, e) /\ MarksOK(y, e)
    BY DEF Good, Sound, Same, UnsentOK, QueueOK, MarksOK
<1>3. OnceOK(y, e) /\ ClearedOK(y, e)
    BY DEF Good, Sound, Same, OnceOK, ClearedOK, Excused, Fresh
<1>5. PromptOK(y, e) /\ ForwardOK(y, e)
    BY DEF Good, Sound, Same, PromptOK, ForwardOK
<1> QED
    BY <1>1, <1>3, <1>5 DEF Good, Sound

\* A transaction that is being filled, or was withdrawn before it was sent
LEMMA UnsentIsGood ==
    ASSUME NEW x, NEW e, "submitted" \notin x.flags, x.flags \subseteq {"withdrawn"},
           e.open /\ ~e.misled => x.flags = {},
           x.flight = 0, ~x.armed, x.orphans = 0, ~x.slot, ~e.queued, Fresh(x), e.phase = "idle"
    PROVE  Good(x, e)
<1>1. UnsentOK(x, e) /\ QueueOK(x, e) /\ MarksOK(x, e)
    BY DEF UnsentOK, QueueOK, MarksOK
<1>3. OnceOK(x, e)
  <2>1. \A op \in DOMAIN x.got : x.got[op] = 0 /\ x.got[op] <= 1
      BY DEF Fresh
  <2> QED
      BY <2>1 DEF OnceOK, Fresh
<1>4. ClearedOK(x, e) /\ PromptOK(x, e) /\ ForwardOK(x, e)
    BY DEF ClearedOK, PromptOK, ForwardOK
<1> QED
    BY <1>1, <1>3, <1>4 DEF Good, Sound

\* What does not open it again
LEMMA WithdrawnUnsentIsGood ==
    ASSUME NEW x, NEW y, NEW e, NEW f, Good(x, e), Marked(x, y), e.open, ~f.open,
           f.loaded = e.loaded, f.misled = e.misled, f.balanced = e.balanced, f.queued = e.queued,
           f.lost = e.lost, f.phase = e.phase, f.op = e.op,
           y.flags = x.flags \cup {"withdrawn"}
    PROVE  Good(y, f)
<1>1. UnsentOK(y, f) /\ QueueOK(y, f) /\ MarksOK(y, f)
    BY DEF Good, Sound, Marked, Same, UnsentOK, QueueOK, MarksOK, Fresh
<1>3. OnceOK(y, f)
    BY DEF Good, Sound, Marked, Same, OnceOK, Excused, Fresh
<1>4. ClearedOK(y, f)
    BY DEF Good, Sound, Marked, Same, ClearedOK
<1>5. PromptOK(y, f) /\ ForwardOK(y, f)
    BY DEF Good, Sound, Marked, Same, PromptOK, ForwardOK
<1> QED
    BY <1>1, <1>3, <1>4, <1>5 DEF Good, Sound

--------------------------------------------------------------------------------
(* What each helper of the manager does, to the transaction it is about and to the others *)

(* The helpers that concern one transaction *)

\* The helper's step concerns transaction t: of another one it stops the timer at most,
\* and then that one counts as lost.
Beside(s, s2, t) ==
    /\ s2 \in Manager /\ Len(s2.tx) = Len(s.tx)
    /\ s2.cur = s.cur /\ s2.loaded = s.loaded /\ s2.delaying = s.delaying /\ s2.misled = s.misled
    /\ s2.log = s.log /\ s2.later = s.later
    /\ s.unbalanced => s2.unbalanced
    /\ s.lost \subseteq s2.lost /\ s2.lost \subseteq s.lost \cup Numbers(s)
    /\ \A u \in Numbers(s) \ {t} :
         \/ s2.tx[u] = s.tx[u]
         \/ u \in s2.lost /\ s2.tx[u] = [s.tx[u] EXCEPT !.armed = FALSE]

\* The fields of the manager
LEMMA ManagerFields ==
    ASSUME NEW s \in Manager
    PROVE  /\ s.tx \in Seq(Tx) /\ s.cur \in Nat /\ s.prompts \in Nat
           /\ s.queuing \in BOOLEAN /\ s.loaded \in BOOLEAN /\ s.delaying \in BOOLEAN
           /\ s.netUp \in BOOLEAN /\ s.onLine \in BOOLEAN /\ s.playback \in BOOLEAN
           /\ s.log \in Seq(Nat) /\ s.later \in Seq(Nat) /\ s.misled \in BOOLEAN
           /\ s.unbalanced \in BOOLEAN /\ s.lost \in SUBSET Nat /\ s.disturbances \in Nat
           /\ Numbers(s) = DOMAIN s.tx /\ Numbers(s) \subseteq Nat \ {0}
           /\ Len(s.tx) \in Nat
           /\ \A t \in Numbers(s) : s.tx[t] \in Tx
BY DEF Manager, Numbers

\* The fields of a transaction
LEMMA TxFields ==
    ASSUME NEW x \in Tx
    PROVE  /\ x.got \in Seq(Nat) /\ x.got # <<>> /\ x.client \in BOOLEAN /\ x.login \in BOOLEAN
           /\ x.prompt \in BOOLEAN /\ x.flight \in Nat /\ x.armed \in BOOLEAN /\ x.orphans \in Nat
           /\ x.slot \in BOOLEAN /\ x.flags \in SUBSET Flags
BY DEF Tx

\* One transaction is replaced
IsPut(s, s2, t, y) == s2 = [s EXCEPT !.tx[t] = y]

\* The fields after it
LEMMA Replaced ==
    ASSUME NEW s \in Manager, NEW t \in Numbers(s), NEW y \in Tx, NEW s2,
           IsPut(s, s2, t, y)
    PROVE  /\ s2 \in Manager /\ Len(s2.tx) = Len(s.tx) /\ Numbers(s2) = Numbers(s)
           /\ s2.tx[t] = y /\ \A u \in Numbers(s) \ {t} : s2.tx[u] = s.tx[u]
           /\ s2.cur = s.cur /\ s2.loaded = s.loaded /\ s2.delaying = s.delaying
           /\ s2.misled = s.misled /\ s2.log = s.log /\ s2.later = s.later
           /\ s2.unbalanced = s.unbalanced /\ s2.lost = s.lost /\ s2.prompts = s.prompts
<1>1. s.tx \in Seq(Tx) /\ Numbers(s) = DOMAIN s.tx
    BY ManagerFields
<1>2. s2 = [s EXCEPT !.tx = [s.tx EXCEPT ![t] = y]]
    BY DEF IsPut
<1>3. /\ [s.tx EXCEPT ![t] = y] \in Seq(Tx) /\ Len([s.tx EXCEPT ![t] = y]) = Len(s.tx)
      /\ [s.tx EXCEPT ![t] = y][t] = y
      /\ \A u \in Numbers(s) \ {t} : [s.tx EXCEPT ![t] = y][u] = s.tx[u]
    BY <1>1
<1> QED
    BY <1>2, <1>3 DEF Manager, Numbers

\* No other transaction has changed then
LEMMA ReplacedBeside ==
    ASSUME NEW s \in Manager, NEW t \in Numbers(s), NEW y \in Tx, NEW s2,
           IsPut(s, s2, t, y)
    PROVE  /\ Beside(s, s2, t) /\ s2.tx[t] = y
           /\ s2.prompts = s.prompts /\ s2.unbalanced = s.unbalanced /\ s2.lost = s.lost
           /\ \A u \in Numbers(s) \ {t} : s2.tx[u] = s.tx[u]
<1>1. /\ s2 \in Manager /\ Len(s2.tx) = Len(s.tx) /\ Numbers(s2) = Numbers(s)
      /\ s2.tx[t] = y /\ \A u \in Numbers(s) \ {t} : s2.tx[u] = s.tx[u]
      /\ s2.cur = s.cur /\ s2.loaded = s.loaded /\ s2.delaying = s.delaying
      /\ s2.misled = s.misled /\ s2.log = s.log /\ s2.later = s.later
      /\ s2.unbalanced = s.unbalanced /\ s2.lost = s.lost /\ s2.prompts = s.prompts
    BY Replaced
<1> QED
    BY <1>1 DEF Beside

\* More transactions count as lost
IsLoss(s, s2, set) == s2 = [s EXCEPT !.lost = @ \cup set]

\* Transactions that count as lost from now on
LEMMA LostAdded ==
    ASSUME NEW s \in Manager, NEW set \in SUBSET Nat, NEW s2, IsLoss(s, s2, set)
    PROVE  /\ s2 \in Manager /\ s2.tx = s.tx /\ s2.lost = s.lost \cup set
           /\ s2.prompts = s.prompts /\ s2.unbalanced = s.unbalanced
           /\ s2.cur = s.cur /\ s2.loaded = s.loaded /\ s2.delaying = s.delaying
           /\ s2.misled = s.misled /\ s2.log = s.log /\ s2.later = s.later
BY DEF Manager, IsLoss

\* Marks are set on a transaction
LEMMA FlagEffect ==
    ASSUME NEW s \in Manager, NEW t \in Numbers(s), NEW set \in SUBSET Flags, NEW s2,
           s2 = Flag(s, t, set)
    PROVE  /\ Beside(s, s2, t)
           /\ s2.prompts = s.prompts /\ s2.unbalanced = s.unbalanced /\ s2.lost = s.lost
           /\ Marked(s.tx[t], s2.tx[t]) /\ s2.tx[t].flags = s.tx[t].flags \cup set
           /\ \A u \in Numbers(s) \ {t} : s2.tx[u] = s.tx[u]
<1> DEFINE x == s.tx[t]
           y == [x EXCEPT !.flags = @ \cup set]
<1>1. x \in Tx
    BY ManagerFields
<1> HIDE DEF x
<1>2. y \in Tx /\ Marked(x, y) /\ y.flags = x.flags \cup set
    BY <1>1 DEF Tx, Marked, Same
<1>3. IsPut(s, s2, t, y)
    BY DEF IsPut, Flag, x
<1> HIDE DEF y
<1> QED
    BY <1>2, <1>3, ReplacedBeside DEF x

\* Marks are deleted from a transaction
LEMMA UnflagEffect ==
    ASSUME NEW s \in Manager, NEW t \in Numbers(s), NEW set \in SUBSET Flags, NEW s2,
           s2 = Unflag(s, t, set)
    PROVE  /\ Beside(s, s2, t)
           /\ s2.prompts = s.prompts /\ s2.unbalanced = s.unbalanced /\ s2.lost = s.lost
           /\ Marked(s.tx[t], s2.tx[t]) /\ s2.tx[t].flags = s.tx[t].flags \ set
           /\ \A u \in Numbers(s) \ {t} : s2.tx[u] = s.tx[u]
<1> DEFINE x == s.tx[t]
           y == [x EXCEPT !.flags = @ \ set]
<1>1. x \in Tx
    BY ManagerFields
<1> HIDE DEF x
<1>2. y \in Tx /\ Marked(x, y) /\ y.flags = x.flags \ set
    BY <1>1 DEF Tx, Marked, Same
<1>3. IsPut(s, s2, t, y)
    BY DEF IsPut, Unflag, x
<1> HIDE DEF y
<1> QED
    BY <1>2, <1>3, ReplacedBeside DEF x

\* clearTransactionTimeout
LEMMA StopTimerEffect ==
    ASSUME NEW s \in Manager, NEW t \in Numbers(s), NEW s2, s2 = StopTimer(s, t),
           s.cur \in {0} \cup Numbers(s)
    PROVE  /\ Beside(s, s2, t)
           /\ s2.prompts = s.prompts /\ s2.unbalanced = s.unbalanced
           /\ Same(s.tx[t], s2.tx[t]) /\ s2.tx[t].got = s.tx[t].got
           /\ s2.tx[t].flags = s.tx[t].flags /\ s2.tx[t].flight = s.tx[t].flight
<1> DEFINE u == IF IsLive(s, t) THEN t ELSE IF s.cur # 0 THEN s.cur ELSE LastTracked(s)
<1>1. CASE u = 0 \/ ~s.tx[u].armed
  <2>1. s2 = s
      BY <1>1 DEF StopTimer
  <2> QED
      BY <2>1 DEF Beside, Same
<1>2. CASE u # 0 /\ s.tx[u].armed
  <2>1. u \in Numbers(s)
    <3>1. CASE IsLive(s, t) \/ s.cur # 0
        BY <3>1
    <3>2. CASE ~IsLive(s, t) /\ s.cur = 0
      <4>1. LastTracked(s) # 0
          BY <1>2, <3>2
      <4>2. Live(s) # {}
          BY <4>1 DEF LastTracked
      <4>3. \E v \in Live(s) : \A w \in Live(s) : w <= v
        <5>1. Len(s.tx) \in Nat /\ Live(s) \subseteq 1..Len(s.tx)
            BY ManagerFields DEF Live, Numbers
        <5> QED
            BY <4>2, <5>1, BoundedMax
      <4>4. LastTracked(s) \in Live(s)
          BY <4>2, <4>3 DEF LastTracked
      <4> QED
          BY <3>2, <4>4 DEF Live
    <3> QED
        BY <3>1, <3>2
  <2> HIDE DEF u
  <2> DEFINE x == s.tx[u]
             y == [x EXCEPT !.armed = FALSE]
             s1 == [s EXCEPT !.tx[u] = y]
  <2>2. x \in Tx
      BY <2>1, ManagerFields
  <2> HIDE DEF x
  <2>3. y \in Tx /\ Same(x, y) /\ y.got = x.got /\ y.flags = x.flags /\ y.flight = x.flight
      BY <2>2 DEF Tx, Same
  <2>4. IsLoss(s1, s2, {u} \ {t})
    <3>1. s2 = [s EXCEPT !.tx[u].armed = FALSE, !.lost = @ \cup ({u} \ {t})]
        BY <1>2 DEF StopTimer, u
    <3> QED
        BY <3>1 DEF x, IsLoss
  <2>5. y = [s.tx[u] EXCEPT !.armed = FALSE]
      BY DEF x
  <2>12. IsPut(s, s1, u, y)
      BY DEF IsPut
  <2> HIDE DEF y, s1
  <2>6. /\ Beside(s, s1, u) /\ s1.tx[u] = y
        /\ s1.prompts = s.prompts /\ s1.unbalanced = s.unbalanced /\ s1.lost = s.lost
        /\ \A v \in Numbers(s) \ {u} : s1.tx[v] = s.tx[v]
      BY <2>1, <2>3, <2>12, ReplacedBeside
  <2>7. s1 \in Manager /\ Len(s1.tx) = Len(s.tx)
      BY <2>6 DEF Beside
  <2>8. u \in Nat
      BY <2>1, ManagerFields
  <2>9. /\ s2 \in Manager /\ s2.tx = s1.tx /\ s2.lost = s1.lost \cup ({u} \ {t})
        /\ s2.prompts = s1.prompts /\ s2.unbalanced = s1.unbalanced
        /\ s2.cur = s1.cur /\ s2.loaded = s1.loaded /\ s2.delaying = s1.delaying
        /\ s2.misled = s1.misled /\ s2.log = s1.log /\ s2.later = s1.later
    <3> DEFINE gone == {u} \ {t}
    <3>1. gone \in SUBSET Nat
        BY <2>8
    <3>2. IsLoss(s1, s2, gone)
        BY <2>4
    <3> HIDE DEF gone
    <3>3. /\ s2 \in Manager /\ s2.tx = s1.tx /\ s2.lost = s1.lost \cup gone
          /\ s2.prompts = s1.prompts /\ s2.unbalanced = s1.unbalanced
          /\ s2.cur = s1.cur /\ s2.loaded = s1.loaded /\ s2.delaying = s1.delaying
          /\ s2.misled = s1.misled /\ s2.log = s1.log /\ s2.later = s1.later
        BY <2>7, <3>1, <3>2, LostAdded
    <3> QED
        BY <3>3 DEF gone
  <2>10. Same(s.tx[t], s2.tx[t]) /\ s2.tx[t].got = s.tx[t].got
           /\ s2.tx[t].flags = s.tx[t].flags /\ s2.tx[t].flight = s.tx[t].flight
    <3>1. CASE u = t
        BY <2>3, <2>6, <2>9, <3>1 DEF x
    <3>2. CASE u # t
        BY <2>6, <2>9, <3>2 DEF Same
    <3> QED
        BY <3>1, <3>2
  <2>11. \A v \in Numbers(s) \ {t} :
            \/ s2.tx[v] = s.tx[v]
            \/ v \in s2.lost /\ s2.tx[v] = [s.tx[v] EXCEPT !.armed = FALSE]
      BY <2>5, <2>6, <2>9
  <2> QED
      BY <2>1, <2>6, <2>7, <2>9, <2>10, <2>11 DEF Beside
<1> QED
    BY <1>1, <1>2

\* The count of prompts, and the note that it is off, have changed
IsCounted(s, s2, p, b) == s2 = [s EXCEPT !.prompts = p, !.unbalanced = b]

\* The count of prompts has changed, or the note that it is off
LEMMA CountedEffect ==
    ASSUME NEW s \in Manager, NEW p \in Nat, NEW b \in BOOLEAN, NEW s2, IsCounted(s, s2, p, b)
    PROVE  /\ s2 \in Manager /\ s2.tx = s.tx /\ s2.lost = s.lost
           /\ s2.prompts = p /\ s2.unbalanced = b
           /\ s2.cur = s.cur /\ s2.loaded = s.loaded /\ s2.delaying = s.delaying
           /\ s2.misled = s.misled /\ s2.log = s.log /\ s2.later = s.later
BY DEF Manager, IsCounted

\* One helper after another
LEMMA BesideTransitive ==
    ASSUME NEW s \in Manager, NEW s1, NEW s2, NEW t, Beside(s, s1, t), Beside(s1, s2, t)
    PROVE  Beside(s, s2, t)
<1>1. Numbers(s1) = Numbers(s)
    BY DEF Beside, Numbers
<1>2. ASSUME NEW u \in Numbers(s) \ {t}
      PROVE  \/ s2.tx[u] = s.tx[u]
             \/ u \in s2.lost /\ s2.tx[u] = [s.tx[u] EXCEPT !.armed = FALSE]
  <2>1. /\ \/ s1.tx[u] = s.tx[u]
           \/ u \in s1.lost /\ s1.tx[u] = [s.tx[u] EXCEPT !.armed = FALSE]
        /\ \/ s2.tx[u] = s1.tx[u]
           \/ u \in s2.lost /\ s2.tx[u] = [s1.tx[u] EXCEPT !.armed = FALSE]
        /\ s1.lost \subseteq s2.lost
      BY <1>1, <1>2 DEF Beside
  <2>2. s.tx[u] \in Tx
      BY <1>2, ManagerFields
  <2> DEFINE x == s.tx[u]
  <2>3. [[x EXCEPT !.armed = FALSE] EXCEPT !.armed = FALSE] = [x EXCEPT !.armed = FALSE]
    <3> HIDE DEF x
    <3> QED
        BY <2>2 DEF Tx
  <2> QED
      BY <2>1, <2>3
<1> QED
    BY <1>1, <1>2 DEF Beside

\* A helper that returns at once
LEMMA BesideReflexive ==
    ASSUME NEW s \in Manager, NEW t
    PROVE  Beside(s, s, t)
BY DEF Beside

\* doClearPrompt
LEMMA ClearPromptEffect ==
    ASSUME NEW s \in Manager, NEW t \in Numbers(s), NEW s2, s2 = ClearPrompt(s, t)
    PROVE  /\ Beside(s, s2, t) /\ s2.lost = s.lost
           /\ Marked(s.tx[t], s2.tx[t]) /\ s2.tx[t].flags = PromptFlags(s.tx[t])
           /\ \A u \in Numbers(s) \ {t} : s2.tx[u] = s.tx[u]
           /\ IF ~s.tx[t].prompt \/ "clearedPrompt" \in s.tx[t].flags THEN s2 = s
              ELSE /\ s2.prompts = IF s.prompts = 0 THEN 0 ELSE s.prompts - 1
                   /\ s2.unbalanced <=> \/ s.unbalanced \/ s.tx[t].client
                                        \/ "offline" \in s.tx[t].flags /\ "shown" \notin s.tx[t].flags
<1>1. CASE ~s.tx[t].prompt \/ "clearedPrompt" \in s.tx[t].flags
  <2>1. s2 = s
      BY <1>1 DEF ClearPrompt, Has
  <2> QED
      BY <1>1, <2>1 DEF Beside, Marked, Same, PromptFlags
<1>2. CASE ~(~s.tx[t].prompt \/ "clearedPrompt" \in s.tx[t].flags)
  <2> DEFINE x == s.tx[t]
             y == [x EXCEPT !.flags = (@ \cup {"clearedPrompt"}) \ {"shown"}]
             p == IF s.prompts = 0 THEN 0 ELSE s.prompts - 1
             b == s.unbalanced \/ s.tx[t].client
                  \/ ("offline" \in s.tx[t].flags /\ "shown" \notin s.tx[t].flags)
             s1 == [s EXCEPT !.tx[t] = y]
  <2>1. x \in Tx
      BY ManagerFields
  <2>2. s.prompts \in Nat /\ s.unbalanced \in BOOLEAN /\ s.tx[t].client \in BOOLEAN
      BY <2>1, ManagerFields, TxFields
  <2>3. p \in Nat /\ b \in BOOLEAN
      BY <2>2
  <2>4. IsCounted(s1, s2, p, b)
    <3>1. s2 = [s EXCEPT !.tx[t].flags = (@ \cup {"clearedPrompt"}) \ {"shown"},
                         !.prompts = p, !.unbalanced = b]
        BY <1>2 DEF ClearPrompt, Has
    <3> HIDE DEF p, b
    <3> QED
        BY <3>1 DEF IsCounted
  <2> HIDE DEF x
  <2>5. y \in Tx /\ Marked(x, y) /\ y.flags = (x.flags \cup {"clearedPrompt"}) \ {"shown"}
      BY <2>1 DEF Tx, Marked, Same, Flags
  <2>6. IsPut(s, s1, t, y)
      BY DEF IsPut
  <2> HIDE DEF y, s1, p, b
  <2>7. /\ Beside(s, s1, t) /\ s1.tx[t] = y
        /\ s1.prompts = s.prompts /\ s1.unbalanced = s.unbalanced /\ s1.lost = s.lost
        /\ \A v \in Numbers(s) \ {t} : s1.tx[v] = s.tx[v]
      BY <2>5, <2>6, ReplacedBeside
  <2>8. s1 \in Manager /\ Len(s1.tx) = Len(s.tx)
      BY <2>7 DEF Beside
  <2>9. /\ s2 \in Manager /\ s2.tx = s1.tx /\ s2.lost = s1.lost
        /\ s2.prompts = p /\ s2.unbalanced = b
        /\ s2.cur = s1.cur /\ s2.loaded = s1.loaded /\ s2.delaying = s1.delaying
        /\ s2.misled = s1.misled /\ s2.log = s1.log /\ s2.later = s1.later
      BY <2>3, <2>4, <2>8, CountedEffect
  <2>10. s.unbalanced => s2.unbalanced
      BY <2>9 DEF b
  <2>11. Beside(s, s2, t)
      BY <2>7, <2>8, <2>9, <2>10 DEF Beside
  <2>12. Marked(s.tx[t], s2.tx[t]) /\ s2.tx[t].flags = PromptFlags(s.tx[t])
      BY <1>2, <2>5, <2>7, <2>9 DEF x, PromptFlags
  <2> QED
      BY <1>2, <2>7, <2>9, <2>11, <2>12 DEF p, b
<1> QED
    BY <1>1, <1>2

\* clearTransaction
LEMMA ClearTransactionEffect ==
    ASSUME NEW s \in Manager, NEW t \in Numbers(s), NEW s2, s2 = ClearTransaction(s, t),
           s.cur \in {0} \cup Numbers(s)
    PROVE  /\ Beside(s, s2, t)
           /\ s2.prompts = s.prompts /\ s2.unbalanced = s.unbalanced
           /\ Same(s.tx[t], s2.tx[t]) /\ s2.tx[t].got = s.tx[t].got
           /\ s2.tx[t].flags = s.tx[t].flags \cup {"cleared"} /\ s2.tx[t].flight = s.tx[t].flight
<1>1. CASE ~IsLive(s, t)
  <2>1. s2 = s /\ "cleared" \in s.tx[t].flags
      BY <1>1 DEF ClearTransaction, IsLive, Has
  <2>2. Beside(s, s2, t)
      BY <2>1, BesideReflexive
  <2> QED
      BY <2>1, <2>2 DEF Same
<1>2. CASE IsLive(s, t)
  <2> DEFINE s1 == StopTimer(s, t)
             c == {"cleared"}
  <2>1. s2 = Flag(s1, t, c)
      BY <1>2 DEF ClearTransaction
  <2>2. /\ Beside(s, s1, t)
        /\ s1.prompts = s.prompts /\ s1.unbalanced = s.unbalanced
        /\ Same(s.tx[t], s1.tx[t]) /\ s1.tx[t].got = s.tx[t].got
        /\ s1.tx[t].flags = s.tx[t].flags /\ s1.tx[t].flight = s.tx[t].flight
      BY StopTimerEffect
  <2>3. c \in SUBSET Flags
      BY DEF Flags
  <2>4. s1 \in Manager /\ Numbers(s1) = Numbers(s)
      BY <2>2 DEF Beside, Numbers
  <2> HIDE DEF s1, c
  <2>5. /\ Beside(s1, s2, t)
        /\ s2.prompts = s1.prompts /\ s2.unbalanced = s1.unbalanced
        /\ Marked(s1.tx[t], s2.tx[t]) /\ s2.tx[t].flags = s1.tx[t].flags \cup c
      BY <2>1, <2>3, <2>4, FlagEffect
  <2>6. Beside(s, s2, t)
      BY <2>2, <2>5, BesideTransitive
  <2> QED
      BY <2>2, <2>5, <2>6 DEF Marked, Same, c
<1> QED
    BY <1>1, <1>2

--------------------------------------------------------------------------------
(* The count of prompts *)

\* The count of prompts can be relied on.
Counted(s) == ~s.misled /\ ~s.unbalanced

\* Before the page is loaded no prompt is shown
NoneEarly(s) == Counted(s) /\ ~s.loaded => Shown(s) = {}

\* What a helper's step does not change: the shown prompts
LEMMA ShownSame ==
    ASSUME NEW s, NEW s2, Numbers(s2) = Numbers(s),
           \A u \in Numbers(s) : "shown" \in s2.tx[u].flags <=> "shown" \in s.tx[u].flags
    PROVE  Shown(s2) = Shown(s)
BY DEF Shown, Has

\* The prompts on show can be counted
LEMMA ShownFinite ==
    ASSUME NEW s \in Manager
    PROVE  IsFiniteSet(Shown(s)) /\ IsFiniteSet(Numbers(s))
<1>1. IsFiniteSet(1..Len(s.tx))
  <2>1. Len(s.tx) \in Nat
      BY ManagerFields
  <2>2. 1 \in Int /\ Len(s.tx) \in Int
      BY <2>1
  <2> QED
      BY <2>2, FS_Interval
<1>2. Shown(s) \in SUBSET (1..Len(s.tx))
    BY DEF Shown, Numbers
<1> QED
    BY <1>1, <1>2, FS_Subset DEF Numbers

\* No other prompt is shown or hidden
BesideShown(s, s2, t) == \A u \in Numbers(s) \ {t} : "shown" \in s2.tx[u].flags <=> "shown" \in s.tx[u].flags

\* A helper's step shows and hides no other transaction's prompt
LEMMA BesideKeepsShown ==
    ASSUME NEW s \in Manager, NEW t, NEW s2, Beside(s, s2, t)
    PROVE  BesideShown(s, s2, t) /\ Numbers(s2) = Numbers(s)
<1>1. Numbers(s2) = Numbers(s)
    BY DEF Beside, Numbers
<1>2. ASSUME NEW u \in Numbers(s) \ {t} PROVE s2.tx[u].flags = s.tx[u].flags
  <2>1. s.tx[u] \in Tx
      BY ManagerFields
  <2> DEFINE x == s.tx[u]
  <2>2. [x EXCEPT !.armed = FALSE].flags = x.flags
    <3> HIDE DEF x
    <3> QED
        BY <2>1 DEF Tx
  <2>3. s2.tx[u] = s.tx[u] \/ s2.tx[u] = [x EXCEPT !.armed = FALSE]
      BY <1>2 DEF Beside
  <2> QED
      BY <2>2, <2>3
<1> QED
    BY <1>1, <1>2 DEF BesideShown

\* A step beside a shown transaction that shows and hides none keeps the balance
LEMMA BalanceKept ==
    ASSUME NEW s \in Manager, NEW t \in Numbers(s), NEW s2, Beside(s, s2, t), Balance(s), NoneEarly(s),
           s2.prompts = s.prompts,
           "shown" \in s2.tx[t].flags <=> "shown" \in s.tx[t].flags
    PROVE  Balance(s2) /\ NoneEarly(s2)
<1>1. BesideShown(s, s2, t) /\ Numbers(s2) = Numbers(s)
    BY BesideKeepsShown
<1>2. Shown(s2) = Shown(s)
    BY <1>1, ShownSame DEF BesideShown
<1> QED
    BY <1>2 DEF Balance, NoneEarly, Counted, Beside

\* What else a helper's step leaves alone
LEMMA BesideFields ==
    ASSUME NEW s, NEW t, NEW s2, Beside(s, s2, t)
    PROVE  /\ s2 \in Manager /\ Numbers(s2) = Numbers(s)
           /\ s2.cur = s.cur /\ s2.loaded = s.loaded /\ s2.delaying = s.delaying
           /\ s2.misled = s.misled /\ s2.log = s.log /\ s2.later = s.later
           /\ s.unbalanced => s2.unbalanced
           /\ Counted(s2) => Counted(s)
           /\ Queued(s2) = Queued(s)
BY DEF Beside, Numbers, Counted, Queued

\* The prompt of x is counted, as doClearPrompt assumes.
PromptCounted(s, x) ==
    Counted(s) =>
        /\ "shown" \in x.flags => x.prompt /\ "clearedPrompt" \notin x.flags
        /\ s.loaded /\ x.prompt /\ ~x.client /\ "clearedPrompt" \notin x.flags
           /\ "offline" \notin x.flags => "shown" \in x.flags

\* It follows from what is known of a submitted transaction
LEMMA PromptIsCounted ==
    ASSUME NEW s, NEW x, NEW e, PromptOK(x, e), "submitted" \in x.flags, Counted(s) => e.balanced,
           e.loaded = s.loaded,
           "cleared" \in x.flags /\ x.prompt => "clearedPrompt" \in x.flags
    PROVE  PromptCounted(s, x)
BY DEF PromptCounted, PromptOK

\* doClearPrompt counts down for a prompt that is on show, and for no other
LEMMA ClearPromptBalance ==
    ASSUME NEW s \in Manager, NEW t \in Numbers(s), NEW s2, s2 = ClearPrompt(s, t), Balance(s),
           NoneEarly(s), PromptCounted(s, s.tx[t])
    PROVE  Balance(s2) /\ NoneEarly(s2)
<1> DEFINE x == s.tx[t]
<1>1. CASE ~x.prompt \/ "clearedPrompt" \in x.flags
  <2>1. s2 = s
      BY <1>1, ClearPromptEffect
  <2> QED
      BY <2>1
<1>2. CASE ~(~x.prompt \/ "clearedPrompt" \in x.flags)
  <2>0. /\ Beside(s, s2, t)
        /\ s2.tx[t].flags = PromptFlags(x)
        /\ s2.prompts = IF s.prompts = 0 THEN 0 ELSE s.prompts - 1
        /\ s2.unbalanced <=> \/ s.unbalanced \/ x.client
                             \/ "offline" \in x.flags /\ "shown" \notin x.flags
      BY <1>2, ClearPromptEffect
  <2>1. s2.tx[t].flags = (x.flags \cup {"clearedPrompt"}) \ {"shown"}
      BY <1>2, <2>0 DEF PromptFlags
  <2>2. BesideShown(s, s2, t) /\ Numbers(s2) = Numbers(s) /\ s2.loaded = s.loaded
        /\ (Counted(s2) => Counted(s)) /\ s2.delaying = s.delaying
      BY <2>0, BesideKeepsShown, BesideFields
  <2>3. Shown(s2) = Shown(s) \ {t}
      BY <2>1, <2>2 DEF Shown, Has, BesideShown
  <2>4. IsFiniteSet(Shown(s))
      BY ShownFinite
  <2>5. s.prompts \in Nat
      BY ManagerFields
  <2>6. ASSUME Counted(s2) PROVE s2.prompts = Cardinality(Shown(s2))
    <3>1. Counted(s) /\ ~x.client /\ ("offline" \in x.flags => "shown" \in x.flags)
        BY <2>0, <2>2, <2>6 DEF Counted
    <3>2. s.prompts = Cardinality(Shown(s))
        BY <3>1 DEF Balance, Counted
    <3>3. Cardinality(Shown(s2)) = IF t \in Shown(s) THEN Cardinality(Shown(s)) - 1 ELSE Cardinality(Shown(s))
        BY <2>3, <2>4, FS_RemoveElement
    <3>4. CASE t \in Shown(s)
      <4>1. Cardinality(Shown(s)) # 0
          BY <2>4, <3>4, FS_EmptySet
      <4> QED
          BY <2>0, <2>5, <3>2, <3>3, <3>4, <4>1
    <3>5. CASE t \notin Shown(s)
      <4>1. "shown" \notin x.flags
          BY <3>5 DEF Shown, Has
      <4>2. ~s.loaded
          BY <1>2, <3>1, <4>1 DEF PromptCounted
      <4>3. Shown(s) = {}
          BY <3>1, <4>2 DEF NoneEarly
      <4>4. s.prompts = 0
          BY <3>2, <4>3, FS_EmptySet
      <4> QED
          BY <2>0, <3>2, <3>3, <3>5, <4>4
    <3> QED
        BY <3>4, <3>5
  <2>7. NoneEarly(s2)
      BY <2>2, <2>3 DEF NoneEarly
  <2> QED
      BY <2>2, <2>6, <2>7 DEF Balance, Counted
<1> QED
    BY <1>1, <1>2

\* The flags after suspendTransaction
SuspendedFlags(x) ==
    LET g == x.flags \cup {"suspended"} \cup IF "replying" \in x.flags THEN {"abort"} ELSE {}
    IN IF ~x.prompt \/ "clearedPrompt" \in x.flags THEN g
       ELSE (g \cup {"clearedPrompt"}) \ {"shown"}

\* suspendTransaction
LEMMA SuspendEffect ==
    ASSUME NEW s \in Manager, NEW t \in Numbers(s), NEW s2, s2 = SuspendTransaction(s, t),
           s.cur \in {0} \cup Numbers(s), Balance(s), NoneEarly(s), PromptCounted(s, s.tx[t])
    PROVE  /\ Beside(s, s2, t) /\ Balance(s2) /\ NoneEarly(s2)
           /\ Same(s.tx[t], s2.tx[t]) /\ s2.tx[t].got = s.tx[t].got
           /\ s2.tx[t].flight = s.tx[t].flight
           /\ \/ "suspended" \in s.tx[t].flags /\ s2.tx[t].flags = s.tx[t].flags
              \/ "suspended" \notin s.tx[t].flags /\ s2.tx[t].flags = SuspendedFlags(s.tx[t])
<1> DEFINE x == s.tx[t]
           set == {"suspended"} \cup IF "replying" \in x.flags THEN {"abort"} ELSE {}
           s0 == Flag(s, t, set)
           s1 == StopTimer(s0, t)
<1>1. CASE "suspended" \in x.flags
  <2>1. s2 = s
      BY <1>1 DEF SuspendTransaction, Has
  <2>2. Beside(s, s2, t)
      BY <2>1, BesideReflexive
  <2> QED
      BY <1>1, <2>1, <2>2 DEF Same
<1>2. CASE "suspended" \notin x.flags
  <2>1. s2 = ClearPrompt(s1, t)
      BY <1>2 DEF SuspendTransaction, Has
  <2>2. set \in SUBSET Flags
      BY DEF Flags
  <2>3. set = {"suspended"} \cup IF "replying" \in x.flags THEN {"abort"} ELSE {}
      OBVIOUS
  <2> HIDE DEF set
  <2>4. /\ Beside(s, s0, t)
        /\ s0.prompts = s.prompts /\ s0.unbalanced = s.unbalanced
        /\ Marked(x, s0.tx[t]) /\ s0.tx[t].flags = x.flags \cup set
      BY <2>2, FlagEffect
  <2> HIDE DEF s0
  <2>5. s0 \in Manager /\ Numbers(s0) = Numbers(s) /\ s0.cur = s.cur
      BY <2>4, BesideFields
  <2>6. /\ Beside(s0, s1, t)
        /\ s1.prompts = s0.prompts /\ s1.unbalanced = s0.unbalanced
        /\ Same(s0.tx[t], s1.tx[t]) /\ s1.tx[t].got = s0.tx[t].got
        /\ s1.tx[t].flags = s0.tx[t].flags /\ s1.tx[t].flight = s0.tx[t].flight
      BY <2>5, StopTimerEffect
  <2> HIDE DEF s1
  <2>7. Beside(s, s1, t)
      BY <2>4, <2>6, BesideTransitive
  <2>8. s1 \in Manager /\ Numbers(s1) = Numbers(s) /\ s1.loaded = s.loaded
        /\ (Counted(s1) => Counted(s))
      BY <2>7, BesideFields
  <2>9. s1.tx[t].flags = x.flags \cup set /\ Same(x, s1.tx[t]) /\ s1.tx[t].got = x.got
        /\ s1.tx[t].flight = x.flight
      BY <2>4, <2>6 DEF Marked, Same
  <2>10. /\ "shown" \in s1.tx[t].flags <=> "shown" \in x.flags
         /\ "clearedPrompt" \in s1.tx[t].flags <=> "clearedPrompt" \in x.flags
         /\ "offline" \in s1.tx[t].flags <=> "offline" \in x.flags
      BY <2>3, <2>9
  <2>11. Balance(s1) /\ NoneEarly(s1)
      BY <2>4, <2>6, <2>7, <2>10, BalanceKept
  <2>12. PromptCounted(s1, s1.tx[t])
      BY <2>8, <2>9, <2>10 DEF PromptCounted, Same
  <2>13. Balance(s2) /\ NoneEarly(s2)
      BY <2>1, <2>8, <2>11, <2>12, ClearPromptBalance
  <2>14. /\ Beside(s1, s2, t)
         /\ Marked(s1.tx[t], s2.tx[t]) /\ s2.tx[t].flags = PromptFlags(s1.tx[t])
      BY <2>1, <2>8, ClearPromptEffect
  <2>15. Beside(s, s2, t)
      BY <2>7, <2>14, BesideTransitive
  <2>16. Same(x, s2.tx[t]) /\ s2.tx[t].got = x.got /\ s2.tx[t].flight = x.flight
      BY <2>9, <2>14 DEF Marked, Same
  <2>17. PromptFlags(s1.tx[t]) = SuspendedFlags(x)
      BY <2>3, <2>9, <2>10 DEF PromptFlags, SuspendedFlags, Same
  <2> QED
      BY <1>2, <2>13, <2>14, <2>15, <2>16, <2>17
<1> QED
    BY <1>1, <1>2

(* The other transactions *)

\* The replies concern no other transaction than t, or are the same.
Apart(r, r2, t) == r2 = r \/ (r.t \in {0, t} /\ r2.t \in {0, t})

\* The other transactions stay as they should be
LEMMA OthersGood ==
    ASSUME NEW s \in Manager, NEW s2, NEW r, NEW r2, NEW t, Beside(s, s2, t), Apart(r, r2, t),
           \A u \in Numbers(s) \ {t} : Good(s.tx[u], Situation(s, r, u))
    PROVE  \A u \in Numbers(s2) \ {t} : Good(s2.tx[u], Situation(s2, r2, u))
<1> SUFFICES ASSUME NEW u \in Numbers(s) \ {t}
             PROVE  Good(s2.tx[u], Situation(s2, r2, u))
    BY BesideFields
<1> DEFINE e == Situation(s, r, u)
           f == Situation(s2, r2, u)
           x == s.tx[u]
           y == s2.tx[u]
<1>1. u \in Nat \ {0} /\ x \in Tx
    BY ManagerFields
<1>2. /\ f.loaded = e.loaded /\ (e.misled => f.misled) /\ (f.balanced => e.balanced)
      /\ (f.open => e.open) /\ f.queued = e.queued
  <2>1. /\ s2.cur = s.cur /\ s2.loaded = s.loaded /\ s2.misled = s.misled
        /\ (s.unbalanced => s2.unbalanced) /\ Queued(s2) = Queued(s)
      BY BesideFields
  <2> QED
      BY <2>1 DEF Situation
<1>3. f.phase = e.phase /\ (f.phase # "idle" => f.op = e.op)
    BY <1>1 DEF Situation, Apart
<1>4. /\ (e.lost => f.lost)
      /\ y = x \/ (f.lost /\ y = [x EXCEPT !.armed = FALSE])
    BY DEF Situation, Beside
<1>5. Good(x, e)
    OBVIOUS
<1> HIDE DEF e, f, x, y
<1>6. [x EXCEPT !.armed = FALSE] \in Tx
    BY <1>1 DEF Tx
<1>7. Good(y, f)
  <2>1. CASE y = x
      BY <1>2, <1>3, <1>4, <1>5, <2>1, GoodElsewhere
  <2>2. CASE f.lost /\ y = [x EXCEPT !.armed = FALSE]
    <3>1. y \in Tx
        BY <1>6, <2>2
    <3> QED
        BY <1>1, <1>2, <1>3, <1>4, <1>5, <2>2, <3>1, GoodDisarmed
  <2> QED
      BY <1>4, <2>1, <2>2
<1> QED
    BY <1>7 DEF f, y

--------------------------------------------------------------------------------
(* The invariant of the others, and the actions' promises *)

(* All but one transaction are as they should be *)

\* The invariant but for what it says of transaction t
Else(s, r, t) ==
    /\ Typed(s) /\ Balance(s) /\ NoneEarly(s)
    /\ \A u \in Numbers(s) \ {t} : Good(s.tx[u], Situation(s, r, u))

\* The fields of a situation
LEMMA SituationFields ==
    ASSUME NEW s, NEW r, NEW t, NEW e, e = Situation(s, r, t)
    PROVE  /\ e.loaded = s.loaded /\ e.misled = s.misled /\ (e.balanced <=> Counted(s))
           /\ (e.open <=> s.cur = t) /\ (e.queued <=> t \in Queued(s)) /\ (e.lost <=> t \in s.lost)
           /\ (r.t = t => e.phase = r.phase) /\ (r.t # t => e.phase = "idle") /\ e.op = r.op
           /\ (e.balanced => ~e.misled) /\ (Counted(s) => e.balanced)
BY DEF Situation, Counted

\* Before the page is loaded everything is delayed, and shows nothing
LEMMA WFNoneEarly ==
    ASSUME NEW s, NEW r, \A u \in Numbers(s) : Good(s.tx[u], Situation(s, r, u))
    PROVE  NoneEarly(s)
<1> SUFFICES ASSUME Counted(s), ~s.loaded, NEW u \in Numbers(s), "shown" \in s.tx[u].flags
             PROVE  FALSE
    BY DEF NoneEarly, Shown, Has
<1> DEFINE e == Situation(s, r, u)
           x == s.tx[u]
<1>1. e.balanced /\ ~e.loaded
    BY SituationFields
<1>2. PromptOK(x, e)
    BY DEF Good, Sound
<1> QED
    BY <1>1, <1>2 DEF PromptOK

\* The invariant without what it says of one transaction
LEMMA WFElse ==
    ASSUME NEW s, NEW r, WF(s, r), NEW t
    PROVE  Else(s, r, t)
BY WFNoneEarly DEF WF, Else

\* With it
LEMMA ElseWF ==
    ASSUME NEW s, NEW r, NEW t, Else(s, r, t), ReplyOK(s, r), Good(s.tx[t], Situation(s, r, t))
    PROVE  WF(s, r)
BY DEF WF, Else

\* What a helper's step keeps of the invariant
LEMMA ElseBeside ==
    ASSUME NEW s, NEW r, NEW t, Else(s, r, t), NEW s2, Beside(s, s2, t), NEW r2, Apart(r, r2, t),
           Balance(s2), NoneEarly(s2)
    PROVE  Else(s2, r2, t)
<1>1. s \in Manager
    BY DEF Else, Typed
<1>2. \A u \in Numbers(s2) \ {t} : Good(s2.tx[u], Situation(s2, r2, u))
    BY <1>1, OthersGood DEF Else
<1>3. Typed(s2)
  <2>1. /\ s2 \in Manager /\ Numbers(s2) = Numbers(s) /\ s2.cur = s.cur /\ Queued(s2) = Queued(s)
      BY BesideFields
  <2>2. s2.lost \subseteq s.lost \cup Numbers(s)
      BY DEF Beside
  <2> QED
      BY <2>1, <2>2 DEF Typed, Else
<1> QED
    BY <1>2, <1>3 DEF Else

\* It shows the same prompts
LEMMA ElseBesideSame ==
    ASSUME NEW s, NEW r, NEW t \in Numbers(s), Else(s, r, t), NEW s2, Beside(s, s2, t), NEW r2,
           Apart(r, r2, t), s2.prompts = s.prompts,
           "shown" \in s2.tx[t].flags <=> "shown" \in s.tx[t].flags
    PROVE  Else(s2, r2, t)
<1>1. s \in Manager
    BY DEF Else, Typed
<1>2. Balance(s2) /\ NoneEarly(s2)
    BY <1>1, BalanceKept DEF Else
<1> QED
    BY <1>2, ElseBeside

(* What no step does *)

\* The record x of a transaction becomes y: it is not sent once withdrawn, but by a misled
\* playback, and not answered once cleared, but in its own reply.
StepTx(x, y, misled, own) ==
    /\ "withdrawn" \in x.flags => "withdrawn" \in y.flags
    /\ "cleared" \in x.flags => "cleared" \in y.flags
    /\ "withdrawn" \in x.flags /\ ~misled => y.flight <= x.flight
    /\ DOMAIN x.got \subseteq DOMAIN y.got
    /\ "cleared" \in x.flags /\ ~own => \A op \in DOMAIN x.got : y.got[op] <= x.got[op]

\* A step in which every transaction does so; only transaction m is in its own reply.
Steps(s, s2, m) ==
    /\ Numbers(s) \subseteq Numbers(s2) /\ (s.misled => s2.misled)
    /\ \A t \in Numbers(s) : StepTx(s.tx[t], s2.tx[t], s2.misled, t = m)

\* A record that is the same in these fields
LEMMA StepTxReflexive ==
    ASSUME NEW x \in Tx, NEW y, y.flags = x.flags, y.flight = x.flight, y.got = x.got, NEW b, NEW c
    PROVE  StepTx(x, y, b, c)
BY DEF StepTx, Tx

\* A step that changes nothing
LEMMA StepsReflexive ==
    ASSUME NEW s \in Manager, NEW m
    PROVE  Steps(s, s, m)
BY ManagerFields, StepTxReflexive DEF Steps

\* One step after another
LEMMA StepsTransitive ==
    ASSUME NEW s \in Manager, NEW s1 \in Manager, NEW s2 \in Manager, NEW m,
           Steps(s, s1, m), Steps(s1, s2, m)
    PROVE  Steps(s, s2, m)
<1>1. ASSUME NEW t \in Numbers(s) PROVE StepTx(s.tx[t], s2.tx[t], s2.misled, t = m)
  <2> DEFINE x == s.tx[t]
             y == s1.tx[t]
             z == s2.tx[t]
  <2>1. t \in Numbers(s1) /\ t \in Numbers(s2)
      BY DEF Steps
  <2>2. x \in Tx /\ y \in Tx /\ z \in Tx
      BY <2>1, ManagerFields
  <2>3. /\ x.flight \in Nat /\ y.flight \in Nat /\ z.flight \in Nat
        /\ x.got \in Seq(Nat) /\ y.got \in Seq(Nat) /\ z.got \in Seq(Nat)
      BY <2>2, TxFields
  <2>4. StepTx(x, y, s1.misled, t = m) /\ StepTx(y, z, s2.misled, t = m) /\ (s1.misled => s2.misled)
      BY <2>1 DEF Steps
  <2> HIDE DEF x, y, z
  <2>5. DOMAIN x.got \subseteq DOMAIN y.got /\ DOMAIN y.got \subseteq DOMAIN z.got
      BY <2>4 DEF StepTx
  <2>6. "withdrawn" \in x.flags /\ ~s2.misled => z.flight <= x.flight
      BY <2>3, <2>4 DEF StepTx
  <2>7. ASSUME "cleared" \in x.flags, t # m, NEW op \in DOMAIN x.got
        PROVE  z.got[op] <= x.got[op]
    <3>2. op \in DOMAIN y.got /\ op \in DOMAIN z.got
        BY <2>5, <2>7
    <3>6. "cleared" \in y.flags
        BY <2>4, <2>7 DEF StepTx
    <3>7. \A o \in DOMAIN x.got : y.got[o] <= x.got[o]
        BY <2>4, <2>7 DEF StepTx
    <3>4. "cleared" \in y.flags /\ y.got[op] <= x.got[op]
        BY <2>7, <3>6, <3>7
    <3>5. z.got[op] <= y.got[op]
        BY <2>4, <2>7, <3>2, <3>4 DEF StepTx
    <3>1. y.got[op] <= x.got[op] /\ z.got[op] <= y.got[op]
        BY <3>4, <3>5
    <3>3. x.got[op] \in Nat /\ y.got[op] \in Nat /\ z.got[op] \in Nat
      <4>1. \A q \in Seq(Nat) : \A o \in DOMAIN q : q[o] \in Nat
          OBVIOUS
      <4> QED
          BY <2>3, <2>7, <3>2, <4>1
    <3> QED
        BY <3>1, <3>3
  <2>8. StepTx(x, z, s2.misled, t = m)
      BY <2>4, <2>5, <2>6, <2>7 DEF StepTx
  <2> QED
      BY <2>8 DEF x, z
<1> QED
    BY <1>1 DEF Steps

\* A step that answers no cleared transaction may be taken in any reply
LEMMA StepsAny ==
    ASSUME NEW s \in Manager, NEW s2, NEW m, Steps(s, s2, 0)
    PROVE  Steps(s, s2, m)
<1>1. \A t \in Numbers(s) : t # 0
    BY ManagerFields
<1> QED
    BY <1>1 DEF Steps, StepTx

\* A helper's step, by what it does to its transaction
LEMMA StepsBeside ==
    ASSUME NEW s \in Manager, NEW t \in Numbers(s), NEW s2, NEW m, Beside(s, s2, t),
           StepTx(s.tx[t], s2.tx[t], s2.misled, t = m)
    PROVE  Steps(s, s2, m)
<1>1. Numbers(s2) = Numbers(s) /\ s2.misled = s.misled
    BY BesideFields
<1>2. ASSUME NEW u \in Numbers(s) \ {t} PROVE StepTx(s.tx[u], s2.tx[u], s2.misled, u = m)
  <2> DEFINE x == s.tx[u]
             y == s2.tx[u]
  <2>1. x \in Tx
      BY ManagerFields
  <2>2. y = x \/ y = [x EXCEPT !.armed = FALSE]
      BY DEF Beside
  <2> HIDE DEF x, y
  <2>3. y.flags = x.flags /\ y.flight = x.flight /\ y.got = x.got
      BY <2>1, <2>2 DEF Tx
  <2>4. StepTx(x, y, s2.misled, u = m)
      BY <2>1, <2>3, StepTxReflexive
  <2> QED
      BY <2>4 DEF x, y
<1> QED
    BY <1>1, <1>2 DEF Steps

--------------------------------------------------------------------------------
(* Sending, in the three ways of _sendQueue *)

\* The transactions in the order of their numbers are the same transactions
LEMMA AscendingEffect ==
    ASSUME NEW S, S \subseteq Nat, IsFiniteSet(S)
    PROVE  Ascending(S) \in Seq(Nat) /\ ToSet(Ascending(S)) = S
<1> DEFINE P(q) == \A i, j \in DOMAIN q : i < j => q[i] < q[j]
           q0 == CHOOSE q \in [1 .. Cardinality(S) -> S] : P(q)
<1>1. \E q \in [1 .. Cardinality(S) -> S] : P(q)
    BY AscendingExists
<1>2. q0 \in [1 .. Cardinality(S) -> S] /\ P(q0)
  <2> HIDE DEF P
  <2> QED
      BY <1>1
<1>3. Ascending(S) = q0
    BY DEF Ascending
<1> HIDE DEF q0
<1>4. q0 \in Seq(S) /\ {q0[i] : i \in DOMAIN q0} = S
    BY <1>2, AscendingHoldsAll
<1>5. q0 \in Seq(Nat)
    BY <1>4
<1> QED
    BY <1>3, <1>4, <1>5 DEF ToSet

\* The log, or the delayed calls, with others after them
LEMMA ToSetConcat ==
    ASSUME NEW a \in Seq(Nat), NEW b \in Seq(Nat)
    PROVE  a \o b \in Seq(Nat) /\ ToSet(a \o b) = ToSet(a) \cup ToSet(b)
<1>1. a \o b \in Seq(Nat) /\ Len(a \o b) = Len(a) + Len(b)
    OBVIOUS
<1>2. \A i \in 1..Len(a) : (a \o b)[i] = a[i]
    OBVIOUS
<1>3. \A i \in 1..Len(b) : (a \o b)[Len(a) + i] = b[i]
    OBVIOUS
<1>4. /\ DOMAIN a = 1..Len(a) /\ DOMAIN b = 1..Len(b) /\ DOMAIN (a \o b) = 1..(Len(a) + Len(b))
      /\ Len(a) \in Nat /\ Len(b) \in Nat
    BY <1>1
<1> DEFINE c == a \o b
<1>5. ASSUME NEW i \in DOMAIN c PROVE c[i] \in ToSet(a) \cup ToSet(b)
  <2>1. i \in 1..Len(a) \/ (i - Len(a) \in 1..Len(b) /\ i = Len(a) + (i - Len(a)))
      BY <1>4, <1>5
  <2>2. CASE i \in 1..Len(a)
      BY <1>2, <1>4, <2>2 DEF ToSet
  <2>3. CASE i - Len(a) \in 1..Len(b) /\ i = Len(a) + (i - Len(a))
    <3> DEFINE j == i - Len(a)
    <3>1. j \in 1..Len(b) /\ i = Len(a) + j
        BY <2>3
    <3> HIDE DEF j
    <3>2. c[i] = b[j]
        BY <1>3, <3>1
    <3> QED
        BY <1>4, <3>1, <3>2 DEF ToSet
  <2> QED
      BY <2>1, <2>2, <2>3
<1>6. ASSUME NEW i \in DOMAIN a PROVE a[i] \in ToSet(c)
  <2>1. c[i] = a[i] /\ i \in DOMAIN c
      BY <1>2, <1>4
  <2> QED
      BY <2>1 DEF ToSet
<1>7. ASSUME NEW i \in DOMAIN b PROVE b[i] \in ToSet(c)
  <2>1. c[Len(a) + i] = b[i] /\ Len(a) + i \in DOMAIN c
      BY <1>3, <1>4
  <2> HIDE DEF c
  <2> QED
      BY <2>1 DEF ToSet
<1> HIDE DEF c
<1>8. ToSet(c) = ToSet(a) \cup ToSet(b)
    BY <1>5, <1>6, <1>7 DEF ToSet
<1> QED
    BY <1>1, <1>8 DEF c

\* Transactions that are replaced each by one are transactions
LEMMA MappedTransactions ==
    ASSUME NEW q \in Seq(Tx), NEW f, f = [t \in DOMAIN q |-> f[t]], \A t \in DOMAIN q : f[t] \in Tx
    PROVE  f \in Seq(Tx) /\ Len(f) = Len(q) /\ DOMAIN f = DOMAIN q
<1>1. DOMAIN q = 1..Len(q) /\ Len(q) \in Nat
    OBVIOUS
<1>2. f \in [1..Len(q) -> Tx]
    BY <1>1
<1> QED
    BY <1>1, <1>2

\* x was sent, in the way that more tells
SentTx(x, y, more) ==
    /\ y \in Tx /\ Same(x, y) /\ Fresh(y) /\ DOMAIN y.got = DOMAIN x.got
    /\ y.flags = x.flags \cup {"submitted"} \cup more

\* A submission
LEMMA SubmitEffect ==
    ASSUME NEW x \in Tx, NEW more \in SUBSET Flags, NEW y, y = Submit(x, more)
    PROVE  SentTx(x, y, more) /\ y.flight = x.flight /\ y.armed = x.armed
<1> DEFINE zeros == [op \in DOMAIN x.got |-> 0]
<1>1. x.got \in Seq(Nat) /\ x.got # <<>>
    BY TxFields
<1>2. zeros \in Seq(Nat) /\ DOMAIN zeros = DOMAIN x.got /\ zeros # <<>>
  <2>1. DOMAIN x.got = 1..Len(x.got) /\ Len(x.got) \in Nat /\ Len(x.got) # 0
      BY <1>1
  <2>2. zeros \in [1..Len(x.got) -> Nat]
      BY <2>1
  <2>3. zeros \in Seq(Nat) /\ Len(zeros) = Len(x.got)
      BY <2>1, <2>2
  <2> QED
      BY <2>1, <2>3
<1>3. \A op \in DOMAIN zeros : zeros[op] = 0
    OBVIOUS
<1>4. y = [x EXCEPT !.got = zeros, !.flags = @ \cup {"submitted"} \cup more]
    BY DEF Submit
<1> HIDE DEF zeros
<1>5. "submitted" \in Flags
    BY DEF Flags
<1>6. /\ y.got = zeros /\ y.flags = x.flags \cup {"submitted"} \cup more
      /\ y.client = x.client /\ y.login = x.login /\ y.prompt = x.prompt /\ y.flight = x.flight
      /\ y.armed = x.armed
      /\ y \in Tx
    BY <1>2, <1>4, <1>5 DEF Tx
<1> QED
    BY <1>2, <1>3, <1>6 DEF SentTx, Same, Fresh

\* A step of the whole queue: the fields that _sendQueue leaves alone
Whole(s, s2) ==
    /\ s2 \in Manager /\ Numbers(s2) = Numbers(s) /\ s2.cur = s.cur /\ s2.loaded = s.loaded
    /\ s2.misled = s.misled /\ s2.unbalanced = s.unbalanced

IsDelayed(s, s2, f) == s2 = [s EXCEPT !.delaying = TRUE, !.tx = f]

\* The fields after a delay
LEMMA DelayedFields ==
    ASSUME NEW s \in Manager, NEW f \in Seq(Tx), Len(f) = Len(s.tx), NEW s2, IsDelayed(s, s2, f)
    PROVE  /\ Whole(s, s2) /\ s2.tx = f /\ s2.delaying /\ s2.prompts = s.prompts
           /\ s2.log = s.log /\ s2.later = s.later /\ s2.lost = s.lost
BY DEF Manager, IsDelayed, Whole, Numbers

\* Before the page is loaded, what is sent is delayed
LEMMA DelayedEffect ==
    ASSUME NEW s \in Manager, NEW set \in SUBSET Numbers(s), NEW s2, s2 = Delayed(s, set)
    PROVE  /\ Whole(s, s2) /\ s2.delaying /\ s2.prompts = s.prompts
           /\ Queued(s2) = Queued(s) /\ s2.lost = s.lost
           /\ \A t \in Numbers(s) \ set : s2.tx[t] = s.tx[t]
           /\ \A t \in set : SentTx(s.tx[t], s2.tx[t], {"delayed"}) /\ s2.tx[t].flight = s.tx[t].flight
<1> DEFINE late(x) == [Submit(x, {"delayed"}) EXCEPT !.armed = FALSE]
           f == [t \in DOMAIN s.tx |-> IF t \notin set THEN s.tx[t] ELSE late(s.tx[t])]
<1>1. IsDelayed(s, s2, f)
    BY DEF IsDelayed, Delayed
<1>2. ASSUME NEW x \in Tx PROVE SentTx(x, late(x), {"delayed"}) /\ late(x).flight = x.flight
  <2> DEFINE z == Submit(x, {"delayed"})
  <2>1. SentTx(x, z, {"delayed"}) /\ z.flight = x.flight
    <3>1. {"delayed"} \in SUBSET Flags
        BY DEF Flags
    <3> HIDE DEF z
    <3>2. z = Submit(x, {"delayed"})
        BY DEF z
    <3> QED
        BY <3>1, <3>2, SubmitEffect
  <2>2. late(x) = [z EXCEPT !.armed = FALSE]
      OBVIOUS
  <2> HIDE DEF z, late
  <2>3. z \in Tx
      BY <2>1 DEF SentTx
  <2>4. /\ late(x) \in Tx /\ late(x).flags = z.flags /\ late(x).got = z.got /\ late(x).flight = z.flight
        /\ late(x).client = z.client /\ late(x).login = z.login /\ late(x).prompt = z.prompt
      BY <2>2, <2>3 DEF Tx
  <2> QED
      BY <2>1, <2>4 DEF SentTx, Same, Fresh
<1>3. /\ s.tx \in Seq(Tx) /\ Numbers(s) = DOMAIN s.tx
      /\ \A t \in Numbers(s) : s.tx[t] \in Tx
    BY ManagerFields
<1> HIDE DEF late
<1>4. /\ f = [t \in DOMAIN s.tx |-> f[t]]
      /\ \A t \in DOMAIN s.tx : f[t] = IF t \notin set THEN s.tx[t] ELSE late(s.tx[t])
    OBVIOUS
<1>5. \A t \in DOMAIN s.tx : f[t] \in Tx
    BY <1>2, <1>3, <1>4 DEF SentTx
<1> HIDE DEF f
<1>6. f \in Seq(Tx) /\ Len(f) = Len(s.tx)
    BY <1>3, <1>4, <1>5, MappedTransactions
<1>7. /\ Whole(s, s2) /\ s2.tx = f /\ s2.delaying /\ s2.prompts = s.prompts
      /\ s2.log = s.log /\ s2.later = s.later /\ s2.lost = s.lost
    BY <1>1, <1>6, DelayedFields
<1>8. Queued(s2) = Queued(s)
    BY <1>7 DEF Queued
<1>9. \A t \in set : SentTx(s.tx[t], s2.tx[t], {"delayed"}) /\ s2.tx[t].flight = s.tx[t].flight
    BY <1>2, <1>3, <1>4, <1>7
<1>10. \A t \in Numbers(s) \ set : s2.tx[t] = s.tx[t]
    BY <1>3, <1>4, <1>7
<1> QED
    BY <1>7, <1>8, <1>9, <1>10

IsLogged(s, s2, f, g, l) == s2 = [s EXCEPT !.tx = f, !.log = g, !.lost = l]

\* The fields after logging
LEMMA LoggedFields ==
    ASSUME NEW s \in Manager, NEW f \in Seq(Tx), Len(f) = Len(s.tx), NEW g \in Seq(Nat),
           NEW l \in SUBSET Nat, NEW s2, IsLogged(s, s2, f, g, l)
    PROVE  /\ Whole(s, s2) /\ s2.tx = f /\ s2.delaying = s.delaying /\ s2.prompts = s.prompts
           /\ s2.log = g /\ s2.later = s.later /\ s2.lost = l
BY DEF Manager, IsLogged, Whole, Numbers

\* New answers are counted from here
LEMMA ResetEffect ==
    ASSUME NEW x \in Tx, NEW y, y = [x EXCEPT !.got = [op \in DOMAIN @ |-> 0]]
    PROVE  /\ y \in Tx /\ Same(x, y) /\ Fresh(y) /\ DOMAIN y.got = DOMAIN x.got
           /\ y.flags = x.flags /\ y.flight = x.flight
<1> DEFINE zeros == [op \in DOMAIN x.got |-> 0]
<1>1. x.got \in Seq(Nat) /\ x.got # <<>>
    BY TxFields
<1>2. zeros \in Seq(Nat) /\ DOMAIN zeros = DOMAIN x.got /\ zeros # <<>>
  <2>1. DOMAIN x.got = 1..Len(x.got) /\ Len(x.got) \in Nat /\ Len(x.got) # 0
      BY <1>1
  <2>2. zeros \in [1..Len(x.got) -> Nat]
      BY <2>1
  <2>3. zeros \in Seq(Nat) /\ Len(zeros) = Len(x.got)
      BY <2>1, <2>2
  <2> QED
      BY <2>1, <2>3
<1>3. \A op \in DOMAIN zeros : zeros[op] = 0
    OBVIOUS
<1>4. y = [x EXCEPT !.got = zeros]
    OBVIOUS
<1> HIDE DEF zeros
<1>6. /\ y.got = zeros /\ y.flags = x.flags
      /\ y.client = x.client /\ y.login = x.login /\ y.prompt = x.prompt /\ y.flight = x.flight
      /\ y \in Tx
    BY <1>2, <1>4 DEF Tx
<1> QED
    BY <1>2, <1>3, <1>6 DEF Same, Fresh

\* offlineTransaction for each of a set
LEMMA OfflineEffect ==
    ASSUME NEW s \in Manager, NEW set \in SUBSET Numbers(s), NEW s2, s2 = Offline(s, set),
           \A t \in set : "offline" \in s.tx[t].flags => "submitted" \in s.tx[t].flags
    PROVE  /\ Whole(s, s2) /\ s2.delaying = s.delaying /\ s2.prompts = s.prompts
           /\ s.lost \subseteq s2.lost /\ s2.lost \subseteq s.lost \cup set
           /\ Queued(s) \subseteq Queued(s2) /\ Queued(s2) \subseteq Queued(s) \cup set
           /\ \A t \in Numbers(s) \ set : s2.tx[t] = s.tx[t]
           /\ \A t \in set : /\ t \in Queued(s2) \/ t \in s2.lost
                             /\ SentTx(s.tx[t], s2.tx[t], {"offline"})
                             /\ s2.tx[t].flight = s.tx[t].flight
<1> DEFINE new == {t \in set : ~Has(s, t, "offline")}
           log(x) == [Submit(x, {"offline"}) EXCEPT !.armed = FALSE]
           again(x) == [x EXCEPT !.got = [op \in DOMAIN @ |-> 0]]
           f == [t \in DOMAIN s.tx |-> IF t \in new THEN log(s.tx[t])
                                       ELSE IF t \in set THEN again(s.tx[t]) ELSE s.tx[t]]
           g == s.log \o Ascending(new)
           l == s.lost \cup {t \in set \ new : t \notin ToSet(s.log)}
<1>1. IsLogged(s, s2, f, g, l)
    BY DEF IsLogged, Offline
<1>2. ASSUME NEW x \in Tx PROVE SentTx(x, log(x), {"offline"}) /\ log(x).flight = x.flight
  <2> DEFINE z == Submit(x, {"offline"})
  <2>1. SentTx(x, z, {"offline"}) /\ z.flight = x.flight
    <3>1. {"offline"} \in SUBSET Flags
        BY DEF Flags
    <3> HIDE DEF z
    <3>2. z = Submit(x, {"offline"})
        BY DEF z
    <3> QED
        BY <3>1, <3>2, SubmitEffect
  <2>2. log(x) = [z EXCEPT !.armed = FALSE]
      OBVIOUS
  <2> HIDE DEF z, log
  <2>3. z \in Tx
      BY <2>1 DEF SentTx
  <2>4. /\ log(x) \in Tx /\ log(x).flags = z.flags /\ log(x).got = z.got /\ log(x).flight = z.flight
        /\ log(x).client = z.client /\ log(x).login = z.login /\ log(x).prompt = z.prompt
      BY <2>2, <2>3 DEF Tx
  <2> QED
      BY <2>1, <2>4 DEF SentTx, Same, Fresh
<1>3. /\ s.tx \in Seq(Tx) /\ Numbers(s) = DOMAIN s.tx
      /\ \A t \in Numbers(s) : s.tx[t] \in Tx
      /\ s.log \in Seq(Nat) /\ s.lost \in SUBSET Nat /\ Numbers(s) \subseteq Nat
    BY ManagerFields
<1>4. ASSUME NEW x \in Tx
      PROVE  /\ again(x) \in Tx /\ Same(x, again(x)) /\ Fresh(again(x))
             /\ DOMAIN again(x).got = DOMAIN x.got
             /\ again(x).flags = x.flags /\ again(x).flight = x.flight
  <2> DEFINE y == again(x)
  <2>1. y = [x EXCEPT !.got = [op \in DOMAIN @ |-> 0]]
      OBVIOUS
  <2> HIDE DEF y
  <2> QED
      BY <2>1, ResetEffect DEF y
<1> HIDE DEF log, again
<1>5. \A t \in Numbers(s) :
        /\ t \in new => f[t] = log(s.tx[t])
        /\ t \in set \ new => f[t] = again(s.tx[t]) /\ "offline" \in s.tx[t].flags
        /\ t \notin set => f[t] = s.tx[t]
    BY <1>3 DEF Has
<1>6. f \in Seq(Tx) /\ Len(f) = Len(s.tx)
  <2>1. f = [t \in DOMAIN s.tx |-> f[t]]
      OBVIOUS
  <2>2. \A t \in DOMAIN s.tx : f[t] \in Tx
    <3> HIDE DEF f, new
    <3> QED
        BY <1>2, <1>3, <1>4, <1>5 DEF SentTx
  <2> HIDE DEF f
  <2> QED
      BY <1>3, <2>1, <2>2, MappedTransactions
<1>7. new \subseteq set /\ new \subseteq Nat /\ IsFiniteSet(new)
  <2>1. new \in SUBSET Numbers(s)
      OBVIOUS
  <2> HIDE DEF new
  <2>2. IsFiniteSet(Numbers(s))
      BY ShownFinite
  <2> QED
      BY <1>3, <2>1, <2>2, FS_Subset DEF new
<1>8. g \in Seq(Nat) /\ ToSet(g) = ToSet(s.log) \cup new
  <2> HIDE DEF new
  <2>1. Ascending(new) \in Seq(Nat) /\ ToSet(Ascending(new)) = new
      BY <1>7, AscendingEffect
  <2> DEFINE b == Ascending(new)
  <2>2. b \in Seq(Nat) /\ ToSet(b) = new /\ g = s.log \o b
      BY <2>1
  <2> HIDE DEF b
  <2> QED
      BY <1>3, <2>2, ToSetConcat
<1>9. /\ l \in SUBSET Nat /\ s.lost \subseteq l /\ l \subseteq s.lost \cup set
      /\ \A t \in set \ new : t \in ToSet(s.log) \/ t \in l
    BY <1>3
<1> HIDE DEF f, g, l, new
<1>10. /\ Whole(s, s2) /\ s2.tx = f /\ s2.delaying = s.delaying /\ s2.prompts = s.prompts
       /\ s2.log = g /\ s2.later = s.later /\ s2.lost = l
    BY <1>1, <1>6, <1>8, <1>9, LoggedFields
<1>11. Queued(s2) = Queued(s) \cup new
    BY <1>8, <1>10 DEF Queued
<1>12. \A t \in Numbers(s) \ set : s2.tx[t] = s.tx[t]
    BY <1>5, <1>10
<1>13. ASSUME NEW t \in set
       PROVE  /\ t \in Queued(s2) \/ t \in s2.lost
              /\ SentTx(s.tx[t], s2.tx[t], {"offline"})
              /\ s2.tx[t].flight = s.tx[t].flight
  <2>1. CASE t \in new
      BY <1>2, <1>3, <1>5, <1>10, <1>11, <2>1
  <2>2. CASE t \notin new
    <3>1. "offline" \in s.tx[t].flags /\ s2.tx[t] = again(s.tx[t]) /\ s.tx[t] \in Tx
        BY <1>3, <1>5, <1>10, <2>2
    <3>2. t \in Queued(s2) \/ t \in s2.lost
        BY <1>9, <1>10, <1>11, <2>2 DEF Queued
    <3>3. "submitted" \in s.tx[t].flags
        BY <3>1
    <3> QED
        BY <1>4, <3>1, <3>2, <3>3 DEF SentTx
  <2> QED
      BY <2>1, <2>2
<1> QED
    BY <1>7, <1>9, <1>10, <1>11, <1>12, <1>13

IsTransmitted(s, s2, f, p, g) == s2 = [s EXCEPT !.tx = f, !.prompts = p, !.later = g]

\* The fields after a transmission
LEMMA TransmittedFields ==
    ASSUME NEW s \in Manager, NEW f \in Seq(Tx), Len(f) = Len(s.tx), NEW p \in Nat,
           NEW g \in Seq(Nat), NEW s2, IsTransmitted(s, s2, f, p, g)
    PROVE  /\ Whole(s, s2) /\ s2.tx = f /\ s2.delaying = s.delaying /\ s2.prompts = p
           /\ s2.log = s.log /\ s2.later = g /\ s2.lost = s.lost
BY DEF Manager, IsTransmitted, Whole, Numbers

IsSent(x, y, k, n) == y = [x EXCEPT !.flight = k, !.slot = TRUE, !.armed = TRUE, !.orphans = n]

\* One more attempt is on its way
LEMMA SentFields ==
    ASSUME NEW x \in Tx, NEW k \in Nat, NEW n \in Nat, NEW y, IsSent(x, y, k, n)
    PROVE  /\ y \in Tx /\ y.flags = x.flags /\ y.got = x.got /\ y.armed
           /\ y.client = x.client /\ y.login = x.login /\ y.prompt = x.prompt
BY DEF Tx, IsSent

\* A prompt that is on show from now on
PromptMark(x) == IF x.prompt THEN {"shown"} ELSE {}

\* Those that the browser answers itself, and those whose prompt is going to be shown
ClientOnly(s, set) == {t \in set : s.tx[t].client}
Prompting(s, set) == {t \in set : ~s.tx[t].client /\ s.tx[t].prompt}

\* sendXmlHttpRequest, or a delayed call, for each of a set
LEMMA TransmittedEffect ==
    ASSUME NEW s \in Manager, NEW set \in SUBSET Numbers(s), NEW s2, s2 = Transmitted(s, set)
    PROVE  /\ Whole(s, s2) /\ s2.delaying = s.delaying
           /\ s2.prompts = s.prompts + Cardinality(Prompting(s, set))
           /\ s2.lost = s.lost
           /\ Queued(s2) = Queued(s) \cup ClientOnly(s, set)
           /\ \A t \in Numbers(s) \ set : s2.tx[t] = s.tx[t]
           /\ \A t \in set :
                \/ /\ s.tx[t].client /\ SentTx(s.tx[t], s2.tx[t], {})
                   /\ s2.tx[t].flight = s.tx[t].flight
                \/ /\ ~s.tx[t].client /\ SentTx(s.tx[t], s2.tx[t], PromptMark(s.tx[t]))
                   /\ s2.tx[t].armed
<1> DEFINE remote == {t \in set : ~s.tx[t].client}
           prompting == {t \in remote : s.tx[t].prompt}
           sent(x) == [Submit(x, IF x.prompt THEN {"shown"} ELSE {}) EXCEPT
                         !.flight = @ + 1, !.slot = TRUE,
                         !.armed = TRUE, !.orphans = IF x.armed THEN @ + 1 ELSE @]
           local(x) == Submit(x, {})
           f == [t \in DOMAIN s.tx |-> IF t \in remote THEN sent(s.tx[t])
                                       ELSE IF t \in set THEN local(s.tx[t]) ELSE s.tx[t]]
           p == s.prompts + Cardinality(prompting)
           g == s.later \o Ascending(set \ remote)
<1>1. IsTransmitted(s, s2, f, p, g)
    BY DEF IsTransmitted, Transmitted
<1>2. ASSUME NEW x \in Tx PROVE SentTx(x, sent(x), PromptMark(x)) /\ sent(x).armed
  <2> DEFINE z == Submit(x, IF x.prompt THEN {"shown"} ELSE {})
             n == IF x.armed THEN z.orphans + 1 ELSE z.orphans
  <2>1. SentTx(x, z, PromptMark(x))
    <3>1. PromptMark(x) \in SUBSET Flags
        BY DEF Flags, PromptMark
    <3>2. z = Submit(x, PromptMark(x))
        BY DEF PromptMark
    <3> HIDE DEF z
    <3> QED
        BY <3>1, <3>2, SubmitEffect
  <2>2. IsSent(z, sent(x), z.flight + 1, n)
      BY DEF IsSent
  <2> HIDE DEF z, sent
  <2>3. z \in Tx
      BY <2>1 DEF SentTx
  <2>4. n \in Nat /\ z.flight + 1 \in Nat
      BY <2>3, TxFields
  <2> HIDE DEF n
  <2>5. /\ sent(x) \in Tx /\ sent(x).flags = z.flags /\ sent(x).got = z.got /\ sent(x).armed
        /\ sent(x).client = z.client /\ sent(x).login = z.login /\ sent(x).prompt = z.prompt
      BY <2>2, <2>3, <2>4, SentFields
  <2> QED
      BY <2>1, <2>5 DEF SentTx, Same, Fresh
<1>3. /\ s.tx \in Seq(Tx) /\ Numbers(s) = DOMAIN s.tx
      /\ \A t \in Numbers(s) : s.tx[t] \in Tx
      /\ s.later \in Seq(Nat) /\ s.prompts \in Nat /\ Numbers(s) \subseteq Nat
    BY ManagerFields
<1>4. ASSUME NEW x \in Tx
      PROVE  SentTx(x, local(x), {}) /\ local(x).flight = x.flight
  <2> DEFINE y == local(x)
  <2>1. y = Submit(x, {}) /\ {} \in SUBSET Flags
      OBVIOUS
  <2> HIDE DEF y
  <2> QED
      BY <2>1, SubmitEffect DEF y
<1> HIDE DEF sent, local
<1>5. \A t \in Numbers(s) :
        /\ t \in remote => f[t] = sent(s.tx[t]) /\ ~s.tx[t].client
        /\ t \in set \ remote => f[t] = local(s.tx[t]) /\ s.tx[t].client
        /\ t \notin set => f[t] = s.tx[t]
    BY <1>3
<1>6. f \in Seq(Tx) /\ Len(f) = Len(s.tx)
  <2>1. f = [t \in DOMAIN s.tx |-> f[t]]
      OBVIOUS
  <2>2. \A t \in DOMAIN s.tx : f[t] \in Tx
    <3> HIDE DEF f, remote
    <3> QED
        BY <1>2, <1>3, <1>4, <1>5 DEF SentTx
  <2> HIDE DEF f
  <2> QED
      BY <1>3, <2>1, <2>2, MappedTransactions
<1>7. IsFiniteSet(Numbers(s))
    BY ShownFinite
<1>8. p \in Nat
  <2>1. prompting \in SUBSET Numbers(s)
      OBVIOUS
  <2> HIDE DEF prompting
  <2>2. Cardinality(prompting) \in Nat
      BY <1>7, <2>1, FS_Subset, FS_CardinalityType
  <2> QED
      BY <1>3, <2>2
<1>9. g \in Seq(Nat) /\ ToSet(g) = ToSet(s.later) \cup (set \ remote)
  <2> DEFINE c == set \ remote
             b == Ascending(c)
  <2>1. c \in SUBSET Numbers(s)
      OBVIOUS
  <2>2. g = s.later \o b
      OBVIOUS
  <2> HIDE DEF c
  <2>3. c \subseteq Nat /\ IsFiniteSet(c)
      BY <1>3, <1>7, <2>1, FS_Subset
  <2>4. b \in Seq(Nat) /\ ToSet(b) = c
      BY <2>3, AscendingEffect
  <2> HIDE DEF b, g
  <2>5. g \in Seq(Nat) /\ ToSet(g) = ToSet(s.later) \cup c
      BY <1>3, <2>2, <2>4, ToSetConcat
  <2> QED
      BY <2>5 DEF c
<1>10. set \ remote = ClientOnly(s, set) /\ prompting = Prompting(s, set)
    BY DEF ClientOnly, Prompting
<1>11. p = s.prompts + Cardinality(Prompting(s, set))
    BY <1>10
<1> HIDE DEF f, g, p
<1>12. /\ Whole(s, s2) /\ s2.tx = f /\ s2.delaying = s.delaying /\ s2.prompts = p
       /\ s2.log = s.log /\ s2.later = g /\ s2.lost = s.lost
    BY <1>1, <1>6, <1>8, <1>9, TransmittedFields
<1>13. Queued(s2) = Queued(s) \cup ClientOnly(s, set)
    BY <1>9, <1>10, <1>12 DEF Queued
<1>14. \A t \in Numbers(s) \ set : s2.tx[t] = s.tx[t]
    BY <1>5, <1>12
<1>15. ASSUME NEW t \in set
       PROVE  \/ /\ s.tx[t].client /\ SentTx(s.tx[t], s2.tx[t], {})
                 /\ s2.tx[t].flight = s.tx[t].flight
              \/ /\ ~s.tx[t].client /\ SentTx(s.tx[t], s2.tx[t], PromptMark(s.tx[t]))
                 /\ s2.tx[t].armed
  <2>0. t \in Numbers(s) /\ s.tx[t] \in Tx
      BY <1>3
  <2>1. CASE t \in remote
      BY <1>2, <1>5, <1>12, <2>0, <2>1
  <2>2. CASE t \notin remote
      BY <1>4, <1>5, <1>12, <2>0, <2>2
  <2> QED
      BY <2>1, <2>2
<1> QED
    BY <1>11, <1>12, <1>13, <1>14, <1>15

\* The transactions of a set may be sent, and the others are as they should be.
SetReady(s, r, set) ==
    /\ Typed(s) /\ ReplyOK(s, r) /\ Balance(s) /\ set \in SUBSET Numbers(s)
    /\ \A t \in set : Sendable(s.tx[t], Situation(s, r, t))
    /\ \A t \in Numbers(s) \ set : Good(s.tx[t], Situation(s, r, t))

\* One of the three ways of _sendQueue
WaySent(x, y, f, more) ==
    \/ more = {"delayed"} /\ ~f.loaded
    \/ /\ f.loaded
       /\ \/ f.queued \/ y.armed \/ f.lost
       /\ \/ more = {"shown"} /\ x.prompt
          \/ more = {} /\ (x.client \/ ~x.prompt \/ "offline" \in x.flags)
          \/ more = {"offline"}

\* A step that sends all of a set in one of these ways keeps the invariant
LEMMA SentTogether ==
    ASSUME NEW s, NEW r, NEW set, SetReady(s, r, set), NEW s2, Whole(s, s2), Balance(s2),
           s.lost \subseteq s2.lost, s2.lost \subseteq s.lost \cup set,
           Queued(s) \subseteq Queued(s2), Queued(s2) \subseteq Queued(s) \cup set,
           \A t \in Numbers(s) \ set : s2.tx[t] = s.tx[t],
           \A t \in set : \E more : /\ SentTx(s.tx[t], s2.tx[t], more)
                                    /\ WaySent(s.tx[t], s2.tx[t], Situation(s2, r, t), more)
    PROVE  WF(s2, r) /\ Steps(s, s2, 0)
<1>1. /\ s \in Manager /\ s2 \in Manager /\ Numbers(s2) = Numbers(s) /\ s2.cur = s.cur
      /\ s2.loaded = s.loaded /\ s2.misled = s.misled /\ s2.unbalanced = s.unbalanced
      /\ set \subseteq Numbers(s)
    BY DEF SetReady, Typed, Whole
<1>2. Typed(s2) /\ ReplyOK(s2, r)
  <2>1. Typed(s) /\ ReplyOK(s, r)
      BY DEF SetReady
  <2>2. s2.cur \in {0} \cup Numbers(s2) /\ Queued(s2) \cup s2.lost \subseteq Numbers(s2)
      BY <1>1, <2>1 DEF Typed
  <2>3. Typed(s2)
      BY <1>1, <2>2 DEF Typed
  <2>4. ReplyOK(s2, r)
      BY <1>1, <2>1 DEF ReplyOK
  <2> QED
      BY <2>3, <2>4
<1>3. ASSUME NEW t \in Numbers(s)
      PROVE  LET e == Situation(s, r, t)
                 f == Situation(s2, r, t)
             IN /\ f.loaded = e.loaded /\ f.misled = e.misled /\ f.balanced = e.balanced
                /\ f.open = e.open /\ f.phase = e.phase /\ f.op = e.op
                /\ (e.lost => f.lost) /\ (t \notin set => f.queued = e.queued)
  <2>1. t \notin set => (t \in Queued(s2)) = (t \in Queued(s))
      OBVIOUS
  <2>2. t \in s.lost => t \in s2.lost
      OBVIOUS
  <2> QED
      BY <1>1, <2>1, <2>2 DEF Situation
<1>4. ASSUME NEW t \in Numbers(s) \ set PROVE Good(s2.tx[t], Situation(s2, r, t))
  <2> DEFINE e == Situation(s, r, t)
             f == Situation(s2, r, t)
             x == s.tx[t]
  <2>1. s2.tx[t] = x /\ Good(x, e)
      BY DEF SetReady
  <2>2. /\ f.loaded = e.loaded /\ f.misled = e.misled /\ f.balanced = e.balanced
        /\ f.open = e.open /\ f.phase = e.phase /\ f.op = e.op
        /\ (e.lost => f.lost) /\ f.queued = e.queued
      BY <1>3
  <2> HIDE DEF e, f, x
  <2>3. Good(x, f)
      BY <2>1, <2>2, GoodElsewhere
  <2> QED
      BY <2>1, <2>3 DEF f
<1>5. ASSUME NEW t \in set PROVE Good(s2.tx[t], Situation(s2, r, t))
  <2> DEFINE e == Situation(s, r, t)
             f == Situation(s2, r, t)
             x == s.tx[t]
             y == s2.tx[t]
  <2>1. PICK more : SentTx(x, y, more) /\ WaySent(x, y, f, more)
      OBVIOUS
  <2>2. /\ f.loaded = e.loaded /\ f.misled = e.misled /\ f.balanced = e.balanced
        /\ f.open = e.open /\ f.phase = e.phase /\ f.op = e.op
      BY <1>1, <1>3
  <2>3. Sendable(x, e)
      BY DEF SetReady
  <2> HIDE DEF e, f, x, y
  <2>4. Good(y, f)
      BY <2>1, <2>2, <2>3, SentIsGood DEF SentTx, WaySent
  <2> QED
      BY <2>4 DEF f, y
<1>6. ASSUME NEW t \in Numbers(s) PROVE StepTx(s.tx[t], s2.tx[t], s2.misled, t = 0)
  <2> DEFINE x == s.tx[t]
             y == s2.tx[t]
             e == Situation(s, r, t)
             own == t = 0
  <2>1. x \in Tx
      BY <1>1, ManagerFields
  <2>2. CASE t \notin set
    <3>1. y = x
        BY <2>2
    <3> HIDE DEF x, y, own
    <3>2. StepTx(x, y, s2.misled, own)
        BY <2>1, <3>1, StepTxReflexive
    <3> QED
        BY <3>2 DEF x, y, own
  <2>3. CASE t \in set
    <3>1. PICK more : SentTx(x, y, more)
        BY <2>3
    <3>2. Sendable(x, e) /\ e.misled = s2.misled
        BY <1>1, <2>3 DEF SetReady, Situation
    <3>3. \A op \in DOMAIN x.got : x.got[op] \in Nat
        BY <2>1, TxFields
    <3> HIDE DEF x, y, e, own
    <3>4. \A op \in DOMAIN x.got : y.got[op] <= x.got[op]
        BY <3>1, <3>3 DEF SentTx, Fresh
    <3>5. StepTx(x, y, s2.misled, own)
        BY <3>1, <3>2, <3>4 DEF SentTx, StepTx, Sendable
    <3> QED
        BY <3>5 DEF x, y, own
  <2> QED
      BY <2>2, <2>3
<1>7. WF(s2, r)
    BY <1>1, <1>2, <1>4, <1>5 DEF WF
<1> QED
    BY <1>1, <1>6, <1>7 DEF Steps

\* The flags that a sent transaction has are the old ones and what more says.
LEMMA SentShown ==
    ASSUME NEW x, NEW y, NEW more, SentTx(x, y, more)
    PROVE  "shown" \in y.flags <=> "shown" \in x.flags \/ "shown" \in more
BY DEF SentTx

\* The first way: the page is not loaded
LEMMA SubmittedDelayed ==
    ASSUME NEW s, NEW r, NEW set, SetReady(s, r, set), ~s.loaded, NEW s2, s2 = Delayed(s, set)
    PROVE  WF(s2, r) /\ Steps(s, s2, 0)
<1>1. s \in Manager /\ set \in SUBSET Numbers(s) /\ Balance(s)
    BY DEF SetReady, Typed
<1>2. /\ Whole(s, s2) /\ s2.delaying /\ s2.prompts = s.prompts
      /\ Queued(s2) = Queued(s) /\ s2.lost = s.lost
      /\ \A t \in Numbers(s) \ set : s2.tx[t] = s.tx[t]
      /\ \A t \in set : SentTx(s.tx[t], s2.tx[t], {"delayed"}) /\ s2.tx[t].flight = s.tx[t].flight
    BY <1>1, DelayedEffect
<1>3. Shown(s2) = Shown(s)
  <2>1. ASSUME NEW t \in Numbers(s) PROVE "shown" \in s2.tx[t].flags <=> "shown" \in s.tx[t].flags
    <3>1. CASE t \in set
      <4>1. SentTx(s.tx[t], s2.tx[t], {"delayed"}) /\ "shown" \notin {"delayed"}
          BY <1>2, <3>1
      <4> QED
          BY <4>1, SentShown
    <3>2. CASE t \notin set
        BY <1>2, <3>2
    <3> QED
        BY <3>1, <3>2
  <2> QED
      BY <1>2, <2>1, ShownSame DEF Whole
<1>4. Balance(s2) /\ ~s2.loaded
    BY <1>1, <1>2, <1>3 DEF Balance, Whole
<1>5. ASSUME NEW t \in set
      PROVE  \E more : /\ SentTx(s.tx[t], s2.tx[t], more)
                       /\ WaySent(s.tx[t], s2.tx[t], Situation(s2, r, t), more)
  <2>1. ~Situation(s2, r, t).loaded
      BY <1>4 DEF Situation
  <2> WITNESS {"delayed"}
  <2> QED
      BY <1>2, <2>1 DEF WaySent
<1> QED
    BY <1>2, <1>4, <1>5, SentTogether

\* The second: the browser is offline
LEMMA SubmittedOffline ==
    ASSUME NEW s, NEW r, NEW set, SetReady(s, r, set), s.loaded, NEW s2, s2 = Offline(s, set)
    PROVE  WF(s2, r) /\ Steps(s, s2, 0)
<1>1. s \in Manager /\ set \in SUBSET Numbers(s) /\ Balance(s)
    BY DEF SetReady, Typed
<1>0. \A t \in set : "offline" \in s.tx[t].flags => "submitted" \in s.tx[t].flags
    BY DEF SetReady, Sendable, UnsentOK
<1>2. /\ Whole(s, s2) /\ s2.delaying = s.delaying /\ s2.prompts = s.prompts
      /\ s.lost \subseteq s2.lost /\ s2.lost \subseteq s.lost \cup set
      /\ Queued(s) \subseteq Queued(s2) /\ Queued(s2) \subseteq Queued(s) \cup set
      /\ \A t \in Numbers(s) \ set : s2.tx[t] = s.tx[t]
      /\ \A t \in set : /\ t \in Queued(s2) \/ t \in s2.lost
                        /\ SentTx(s.tx[t], s2.tx[t], {"offline"})
                        /\ s2.tx[t].flight = s.tx[t].flight
    BY <1>0, <1>1, OfflineEffect
<1>3. Shown(s2) = Shown(s)
  <2>1. ASSUME NEW t \in Numbers(s) PROVE "shown" \in s2.tx[t].flags <=> "shown" \in s.tx[t].flags
    <3>1. CASE t \in set
      <4>1. SentTx(s.tx[t], s2.tx[t], {"offline"}) /\ "shown" \notin {"offline"}
          BY <1>2, <3>1
      <4> QED
          BY <4>1, SentShown
    <3>2. CASE t \notin set
        BY <1>2, <3>2
    <3> QED
        BY <3>1, <3>2
  <2> QED
      BY <1>2, <2>1, ShownSame DEF Whole
<1>4. Balance(s2) /\ s2.loaded
    BY <1>1, <1>2, <1>3 DEF Balance, Whole
<1>5. ASSUME NEW t \in set
      PROVE  \E more : /\ SentTx(s.tx[t], s2.tx[t], more)
                       /\ WaySent(s.tx[t], s2.tx[t], Situation(s2, r, t), more)
  <2>1. Situation(s2, r, t).loaded /\ (Situation(s2, r, t).queued \/ Situation(s2, r, t).lost)
      BY <1>2, <1>4 DEF Situation
  <2> WITNESS {"offline"}
  <2> QED
      BY <1>2, <2>1 DEF WaySent
<1> QED
    BY <1>2, <1>4, <1>5, SentTogether

\* The third: to the server
LEMMA SubmittedTransmitted ==
    ASSUME NEW s, NEW r, NEW set, SetReady(s, r, set), s.loaded, NEW s2, s2 = Transmitted(s, set)
    PROVE  WF(s2, r) /\ Steps(s, s2, 0)
<1> DEFINE prompting == Prompting(s, set)
<1>1. s \in Manager /\ set \in SUBSET Numbers(s) /\ Balance(s)
    BY DEF SetReady, Typed
<1>2. /\ Whole(s, s2) /\ s2.delaying = s.delaying
      /\ s2.prompts = s.prompts + Cardinality(prompting)
      /\ s2.lost = s.lost
      /\ Queued(s2) = Queued(s) \cup ClientOnly(s, set)
      /\ \A t \in Numbers(s) \ set : s2.tx[t] = s.tx[t]
      /\ \A t \in set :
           \/ /\ s.tx[t].client /\ SentTx(s.tx[t], s2.tx[t], {})
              /\ s2.tx[t].flight = s.tx[t].flight
           \/ /\ ~s.tx[t].client /\ SentTx(s.tx[t], s2.tx[t], PromptMark(s.tx[t]))
              /\ s2.tx[t].armed
    BY <1>1, TransmittedEffect
<1>3. Shown(s2) = Shown(s) \cup prompting
  <2>1. ASSUME NEW t \in Numbers(s)
        PROVE  "shown" \in s2.tx[t].flags <=> "shown" \in s.tx[t].flags \/ t \in prompting
    <3>1. CASE t \in set /\ s.tx[t].client
      <4>1. SentTx(s.tx[t], s2.tx[t], {}) /\ t \notin prompting
          BY <1>2, <3>1 DEF Prompting
      <4> QED
          BY <4>1, SentShown
    <3>2. CASE t \in set /\ ~s.tx[t].client
      <4>1. SentTx(s.tx[t], s2.tx[t], PromptMark(s.tx[t]))
          BY <1>2, <3>2
      <4>2. "shown" \in PromptMark(s.tx[t]) <=> t \in prompting
          BY <3>2 DEF PromptMark, Prompting
      <4> QED
          BY <4>1, <4>2, SentShown
    <3>3. CASE t \notin set
        BY <1>2, <3>3 DEF Prompting
    <3> QED
        BY <3>1, <3>2, <3>3
  <2>2. Numbers(s2) = Numbers(s) /\ prompting \subseteq Numbers(s)
      BY <1>1, <1>2 DEF Whole, Prompting
  <2> HIDE DEF prompting
  <2> QED
      BY <2>1, <2>2 DEF Shown, Has
<1>4. Balance(s2) /\ s2.loaded
  <2>1. ASSUME Counted(s) PROVE s2.prompts = Cardinality(Shown(s2))
    <3>1. Shown(s) \cap prompting = {}
      <4>1. ASSUME NEW t \in set PROVE "shown" \notin s.tx[t].flags
        <5>1. Situation(s, r, t).balanced
            BY <2>1 DEF Situation, Counted
        <5> QED
            BY <5>1 DEF SetReady, Sendable
      <4> QED
          BY <4>1 DEF Shown, Has, Prompting
    <3>2. prompting \in SUBSET Numbers(s)
        BY <1>1 DEF Prompting
    <3> HIDE DEF prompting
    <3>3. IsFiniteSet(Shown(s)) /\ IsFiniteSet(prompting)
        BY <1>1, <3>2, ShownFinite, FS_Subset
    <3>4. Cardinality(Shown(s) \cup prompting)
            = Cardinality(Shown(s)) + Cardinality(prompting) - Cardinality(Shown(s) \cap prompting)
        BY <3>3, FS_Union
    <3>5. Cardinality(Shown(s) \cap prompting) = 0
        BY <3>1, FS_EmptySet
    <3>6. Cardinality(Shown(s)) \in Nat /\ Cardinality(prompting) \in Nat
        BY <3>3, FS_CardinalityType
    <3>7. s.prompts = Cardinality(Shown(s))
        BY <1>1, <2>1 DEF Balance, Counted
    <3> QED
        BY <1>2, <1>3, <3>4, <3>5, <3>6, <3>7
  <2> QED
      BY <1>1, <1>2, <2>1 DEF Balance, Whole, Counted
<1>5. ASSUME NEW t \in set
      PROVE  \E more : /\ SentTx(s.tx[t], s2.tx[t], more)
                       /\ WaySent(s.tx[t], s2.tx[t], Situation(s2, r, t), more)
  <2>1. Situation(s2, r, t).loaded /\ (s.tx[t].client => Situation(s2, r, t).queued)
      BY <1>2, <1>4 DEF Situation, ClientOnly
  <2>2. CASE s.tx[t].client
    <3> WITNESS {}
    <3> QED
        BY <1>2, <2>1, <2>2 DEF WaySent
  <2>3. CASE ~s.tx[t].client
    <3> WITNESS PromptMark(s.tx[t])
    <3> QED
        BY <1>2, <2>1, <2>3 DEF WaySent, PromptMark
  <2> QED
      BY <2>2, <2>3
<1>6. Queued(s) \subseteq Queued(s2) /\ Queued(s2) \subseteq Queued(s) \cup set
    BY <1>2 DEF ClientOnly
<1> QED
    BY <1>2, <1>4, <1>5, <1>6, SentTogether

\* _sendQueue
LEMMA SubmittedIsGood ==
    ASSUME NEW s, NEW r, NEW set, SetReady(s, r, set), NEW s2, s2 = Submitted(s, set)
    PROVE  WF(s2, r) /\ Steps(s, s2, 0)
<1>1. s.delaying => ~s.loaded
    BY DEF SetReady, Balance
<1>2. \/ ~s.loaded /\ s2 = Delayed(s, set)
      \/ s.loaded /\ s2 = Offline(s, set)
      \/ s.loaded /\ s2 = Transmitted(s, set)
    BY <1>1 DEF Submitted
<1> QED
    BY <1>2, SubmittedDelayed, SubmittedOffline, SubmittedTransmitted

--------------------------------------------------------------------------------
(* sendQueue *)

\* getLastSubmittedTransaction
LEMMA LastTrackedIsLive ==
    ASSUME NEW s \in Manager
    PROVE  LastTracked(s) = 0 \/ LastTracked(s) \in Live(s)
<1>1. CASE Live(s) = {}
    BY <1>1 DEF LastTracked
<1>2. CASE Live(s) # {}
  <2>1. \E u \in Live(s) : \A v \in Live(s) : v <= u
    <3>1. Len(s.tx) \in Nat /\ Live(s) \subseteq 1..Len(s.tx)
        BY ManagerFields DEF Live, Numbers
    <3> QED
        BY <1>2, <3>1, BoundedMax
  <2> QED
      BY <1>2, <2>1 DEF LastTracked
<1> QED
    BY <1>1, <1>2

\* The transactions and what concerns them are the same.
Untouched(s, s2) ==
    /\ s2 \in Manager /\ s2.tx = s.tx /\ s2.prompts = s.prompts /\ s2.loaded = s.loaded
    /\ s2.delaying = s.delaying /\ s2.misled = s.misled /\ s2.unbalanced = s.unbalanced
    /\ s2.lost = s.lost

\* Nothing is sent or answered
LEMMA UntouchedSteps ==
    ASSUME NEW s \in Manager, NEW s2, s2.tx = s.tx, s.misled => s2.misled, NEW m
    PROVE  Steps(s, s2, m) /\ Numbers(s2) = Numbers(s)
BY ManagerFields, StepTxReflexive DEF Steps, Numbers

\* No prompt is shown or hidden
LEMMA UntouchedBalance ==
    ASSUME NEW s, NEW s2, Untouched(s, s2)
    PROVE  /\ Numbers(s2) = Numbers(s) /\ Shown(s2) = Shown(s)
           /\ (Balance(s) => Balance(s2)) /\ (NoneEarly(s) => NoneEarly(s2))
<1>1. Numbers(s2) = Numbers(s) /\ Shown(s2) = Shown(s)
    BY DEF Untouched, Numbers, Shown, Has
<1> QED
    BY <1>1 DEF Untouched, Balance, NoneEarly, Counted

\* Nothing that a transaction is judged by has changed.
LEMMA UntouchedWF ==
    ASSUME NEW s, NEW r, WF(s, r), NEW s2, Untouched(s, s2), s2.cur = s.cur, s2.log = s.log,
           s2.later = s.later
    PROVE  WF(s2, r) /\ \A m : Steps(s, s2, m)
<1>1. s \in Manager /\ s2.tx = s.tx
    BY DEF WF, Typed, Untouched
<1>2. Numbers(s2) = Numbers(s) /\ Balance(s2)
    BY UntouchedBalance DEF WF
<1>3. Queued(s2) = Queued(s)
    BY DEF Queued
<1>4. Typed(s2)
    BY <1>2, <1>3 DEF WF, Typed, Untouched
<1>5. ReplyOK(s2, r)
    BY <1>2 DEF WF, ReplyOK
<1>6. ASSUME NEW t \in Numbers(s) PROVE Situation(s2, r, t) = Situation(s, r, t)
    BY <1>3 DEF Situation, Untouched
<1>7. WF(s2, r)
    BY <1>1, <1>2, <1>4, <1>5, <1>6 DEF WF
<1>8. s.misled => s2.misled
    BY DEF Untouched
<1> QED
    BY <1>1, <1>7, <1>8, UntouchedSteps

(* sendQueue *)

IsUnqueued(s, s2) == s2 = [s EXCEPT !.cur = 0, !.queuing = FALSE]

\* No queue is being filled any more
LEMMA UnqueuedFields ==
    ASSUME NEW s \in Manager, NEW s2, IsUnqueued(s, s2)
    PROVE  Untouched(s, s2) /\ s2.cur = 0 /\ s2.log = s.log /\ s2.later = s.later
BY DEF Manager, IsUnqueued, Untouched

\* sendQueue
LEMMA SentQueueIsGood ==
    ASSUME NEW s, NEW r, WF(s, r), NEW s2, s2 = SentQueue(s)
    PROVE  WF(s2, r) /\ Steps(s, s2, 0)
<1> DEFINE s1 == [s EXCEPT !.cur = 0, !.queuing = FALSE]
<1>0. s \in Manager /\ s.cur \in {0} \cup Numbers(s) /\ Queued(s) \cup s.lost \subseteq Numbers(s)
    BY DEF WF, Typed
<1>1. Untouched(s, s1) /\ s1.cur = 0 /\ s1.log = s.log /\ s1.later = s.later
  <2>1. IsUnqueued(s, s1)
      BY DEF IsUnqueued
  <2> HIDE DEF s1
  <2> QED
      BY <1>0, <2>1, UnqueuedFields
<1>2. CASE s.cur = 0
  <2>1. s2 = s1
      BY <1>2 DEF SentQueue
  <2> HIDE DEF s1
  <2>2. WF(s2, r) /\ \A m : Steps(s, s2, m)
      BY <1>1, <1>2, <2>1, UntouchedWF
  <2> QED
      BY <2>2
<1>3. CASE s.cur # 0
  <2> DEFINE c == s.cur
             set == {c}
  <2>1. s2 = Submitted(s1, set)
      BY <1>3 DEF SentQueue
  <2> HIDE DEF s1
  <2>2. /\ s1 \in Manager /\ s1.tx = s.tx /\ s1.loaded = s.loaded
        /\ s1.misled = s.misled /\ s1.unbalanced = s.unbalanced /\ s1.lost = s.lost
      BY <1>1 DEF Untouched
  <2>3. Numbers(s1) = Numbers(s) /\ Balance(s1)
      BY <1>1, UntouchedBalance DEF WF
  <2>4. Queued(s1) = Queued(s)
      BY <1>1 DEF Queued
  <2>5. Typed(s1)
      BY <1>0, <1>1, <2>2, <2>3, <2>4 DEF Typed
  <2>6. ReplyOK(s1, r)
      BY <2>3 DEF WF, ReplyOK
  <2>7. ASSUME NEW t \in Numbers(s)
        PROVE  LET e == Situation(s, r, t)
                   f == Situation(s1, r, t)
               IN /\ f.loaded = e.loaded /\ f.misled = e.misled /\ f.balanced = e.balanced
                  /\ f.phase = e.phase /\ f.op = e.op /\ f.queued = e.queued /\ f.lost = e.lost
                  /\ ~f.open /\ (e.balanced => ~e.misled) /\ (e.open <=> t = c)
    <3>1. t # 0
        BY <1>0, ManagerFields
    <3> QED
        BY <1>1, <2>2, <2>4, <3>1 DEF Situation
  <2>8. Sendable(s1.tx[c], Situation(s1, r, c))
    <3> DEFINE e == Situation(s, r, c)
               f == Situation(s1, r, c)
               x == s.tx[c]
    <3>1. c \in Numbers(s)
        BY <1>0, <1>3
    <3>2. Good(x, e)
        BY <3>1 DEF WF
    <3>3. /\ f.loaded = e.loaded /\ f.misled = e.misled /\ f.balanced = e.balanced
          /\ f.phase = e.phase /\ f.op = e.op /\ f.queued = e.queued
          /\ ~f.open /\ (e.balanced => ~e.misled) /\ e.open
        BY <2>7, <3>1
    <3> HIDE DEF e, f, x
    <3>4. Sendable(x, f)
        BY <3>2, <3>3, QueueIsSendable
    <3> QED
        BY <2>2, <3>4 DEF x, f
  <2>9. ASSUME NEW t \in Numbers(s1) \ set PROVE Good(s1.tx[t], Situation(s1, r, t))
    <3> DEFINE e == Situation(s, r, t)
               f == Situation(s1, r, t)
               x == s.tx[t]
    <3>1. t \in Numbers(s)
        BY <2>3
    <3>2. Good(x, e)
        BY <3>1 DEF WF
    <3>3. /\ f.loaded = e.loaded /\ f.misled = e.misled /\ f.balanced = e.balanced
          /\ f.phase = e.phase /\ f.op = e.op /\ f.queued = e.queued /\ f.lost = e.lost
          /\ ~f.open
        BY <2>7, <3>1
    <3> HIDE DEF e, f, x
    <3>4. Good(x, f)
        BY <3>2, <3>3, GoodElsewhere
    <3> QED
        BY <2>2, <3>4 DEF x, f
  <2>10. SetReady(s1, r, set)
    <3>1. set \in SUBSET Numbers(s1)
        BY <1>0, <1>3, <2>3
    <3>2. \A t \in set : Sendable(s1.tx[t], Situation(s1, r, t))
        BY <2>8
    <3> HIDE DEF set, c
    <3> QED
        BY <2>3, <2>5, <2>6, <2>9, <3>1, <3>2 DEF SetReady
  <2> HIDE DEF c, set
  <2>11. WF(s2, r) /\ Steps(s1, s2, 0)
      BY <2>1, <2>10, SubmittedIsGood
  <2>12. Steps(s, s1, 0) /\ s2 \in Manager
      BY <1>0, <2>2, <2>11, UntouchedSteps DEF WF, Typed
  <2> QED
      BY <1>0, <2>2, <2>11, <2>12, StepsTransitive
<1> QED
    BY <1>2, <1>3

--------------------------------------------------------------------------------
(* resubmitTransaction and resendTransactionsFlagged *)

(* resubmitTransaction *)

\* Marks are taken from the transactions of a set.
IsUnmarked(s, s2, f) ==
    s2 = [s EXCEPT !.tx = f] \/ s2 = [s EXCEPT !.tx = f, !.queuing = FALSE]

\* The fields after it
LEMMA UnmarkedFields ==
    ASSUME NEW s \in Manager, NEW f \in Seq(Tx), Len(f) = Len(s.tx), NEW s2, IsUnmarked(s, s2, f)
    PROVE  /\ Whole(s, s2) /\ s2.tx = f /\ s2.delaying = s.delaying /\ s2.prompts = s.prompts
           /\ s2.log = s.log /\ s2.later = s.later /\ s2.lost = s.lost
BY DEF Manager, IsUnmarked, Whole, Numbers

\* f takes the marks in gone from the transactions of a set
Unmarking(s, f, set, gone) ==
    /\ gone \in SUBSET Flags /\ gone \cap {"shown", "withdrawn", "cleared"} = {}
    /\ f = [t \in DOMAIN s.tx |-> f[t]]
    /\ \A t \in Numbers(s) : f[t] = IF t \in set THEN Unmarked(s.tx[t], gone) ELSE s.tx[t]

\* What is the same afterwards
UnmarkedStep(s, s2, set, gone) ==
    /\ Whole(s, s2) /\ s2.delaying = s.delaying /\ s2.log = s.log /\ s2.later = s.later
    /\ s2.lost = s.lost /\ Queued(s2) = Queued(s) /\ Numbers(s2) = Numbers(s)
    /\ \A t \in Numbers(s) \ set : s2.tx[t] = s.tx[t]
    /\ \A t \in set : Marked(s.tx[t], s2.tx[t]) /\ s2.tx[t].flags = s.tx[t].flags \ gone
    /\ Steps(s, s2, 0) /\ (Balance(s) => Balance(s2)) /\ (Typed(s) => Typed(s2))

\* So it does no more than that
LEMMA UnmarkedEffect ==
    ASSUME NEW s \in Manager, NEW set \in SUBSET Numbers(s), NEW gone, NEW f,
           Unmarking(s, f, set, gone), NEW s2, IsUnmarked(s, s2, f)
    PROVE  UnmarkedStep(s, s2, set, gone)
<1>0. /\ gone \in SUBSET Flags /\ gone \cap {"shown", "withdrawn", "cleared"} = {}
      /\ f = [t \in DOMAIN s.tx |-> f[t]]
      /\ \A t \in Numbers(s) : f[t] = IF t \in set THEN Unmarked(s.tx[t], gone) ELSE s.tx[t]
    BY DEF Unmarking
<1>1. /\ s.tx \in Seq(Tx) /\ Numbers(s) = DOMAIN s.tx
      /\ \A t \in Numbers(s) : s.tx[t] \in Tx
    BY ManagerFields
<1>2. ASSUME NEW t \in Numbers(s)
      PROVE  /\ f[t] \in Tx
             /\ t \in set => Marked(s.tx[t], f[t]) /\ f[t].flags = s.tx[t].flags \ gone
             /\ t \notin set => f[t] = s.tx[t]
             /\ StepTx(s.tx[t], f[t], s.misled, t = 0)
             /\ "shown" \in f[t].flags <=> "shown" \in s.tx[t].flags
  <2> DEFINE x == s.tx[t]
             z == Unmarked(x, gone)
             y == f[t]
             b == t = 0
  <2>1. x \in Tx
      BY <1>1
  <2>2. y = IF t \in set THEN z ELSE x
      BY <1>0
  <2> HIDE DEF x, y, b
  <2>3. z \in Tx /\ Marked(x, z) /\ z.flags = x.flags \ gone
      BY <1>0, <2>1 DEF Tx, Marked, Same, Unmarked
  <2> HIDE DEF z
  <2>4. y \in Tx /\ y.flight = x.flight /\ y.got = x.got /\ (y.flags = x.flags \/ y.flags = x.flags \ gone)
      BY <2>1, <2>2, <2>3 DEF Marked
  <2>5. x.flight \in Nat /\ \A op \in DOMAIN x.got : x.got[op] \in Nat
      BY <2>1, TxFields
  <2>6. StepTx(x, y, s.misled, b) /\ ("shown" \in y.flags <=> "shown" \in x.flags)
      BY <1>0, <2>4, <2>5 DEF StepTx
  <2> QED
      BY <2>2, <2>3, <2>4, <2>6 DEF x, y, b
<1>3. f \in Seq(Tx) /\ Len(f) = Len(s.tx)
    BY <1>0, <1>1, <1>2, MappedTransactions
<1>4. /\ Whole(s, s2) /\ s2.tx = f /\ s2.delaying = s.delaying /\ s2.prompts = s.prompts
      /\ s2.log = s.log /\ s2.later = s.later /\ s2.lost = s.lost
    BY <1>3, UnmarkedFields
<1>5. /\ s2 \in Manager /\ Numbers(s2) = Numbers(s) /\ s2.cur = s.cur
      /\ s2.loaded = s.loaded /\ s2.misled = s.misled /\ s2.unbalanced = s.unbalanced
    BY <1>4 DEF Whole
<1>6. Queued(s2) = Queued(s)
    BY <1>4 DEF Queued
<1>7. Steps(s, s2, 0)
    BY <1>2, <1>4, <1>5 DEF Steps
<1>8. Shown(s2) = Shown(s)
    BY <1>2, <1>4, <1>5, ShownSame
<1>9. Balance(s) => Balance(s2)
    BY <1>4, <1>5, <1>8 DEF Balance
<1>10. Typed(s) => Typed(s2)
    BY <1>4, <1>5, <1>6 DEF Typed
<1> QED
    BY <1>2, <1>4, <1>5, <1>6, <1>7, <1>9, <1>10 DEF UnmarkedStep

\* The transactions of a set may be sent again, and the others are as they should be.
SetResendable(s, r, set) ==
    /\ Typed(s) /\ ReplyOK(s, r) /\ Balance(s) /\ set \in SUBSET Numbers(s)
    /\ \A t \in set : Resendable(s.tx[t], Situation(s, r, t))
    /\ \A t \in Numbers(s) \ set : Good(s.tx[t], Situation(s, r, t))

\* The transactions are judged as before
LEMMA SameSituation ==
    ASSUME NEW s, NEW s2, NEW r, NEW t, Whole(s, s2), Queued(s2) = Queued(s), s2.lost = s.lost
    PROVE  Situation(s2, r, t) = Situation(s, r, t) /\ Around(Situation(s, r, t), Situation(s2, r, t))
BY DEF Situation, Whole, Around

\* resubmitTransaction for each of a set
LEMMA ResubmittedIsGood ==
    ASSUME NEW s, NEW r, NEW set, SetResendable(s, r, set), NEW s2, s2 = Resubmitted(s, set)
    PROVE  WF(s2, r) /\ Steps(s, s2, 0)
<1>0. s \in Manager /\ Typed(s) /\ ReplyOK(s, r) /\ Balance(s) /\ set \in SUBSET Numbers(s)
    BY DEF SetResendable, Typed
<1>1. CASE set = {}
  <2>1. s2 = s
      BY <1>1 DEF Resubmitted
  <2> QED
      BY <1>0, <1>1, <2>1, StepsReflexive DEF SetResendable, WF
<1>2. CASE set # {}
  <2> DEFINE gone == {"suspended", "clearedPrompt"}
             f == [t \in DOMAIN s.tx |-> IF t \notin set THEN s.tx[t]
                                         ELSE Unmarked(s.tx[t], gone)]
             kept == [s EXCEPT !.tx = f, !.queuing = FALSE]
  <2>1. s2 = Submitted(kept, set)
      BY <1>2 DEF Resubmitted
  <2>2. IsUnmarked(s, kept, f)
      BY DEF IsUnmarked
  <2>3. Numbers(s) = DOMAIN s.tx
      BY <1>0, ManagerFields
  <2>4. /\ f = [t \in DOMAIN s.tx |-> f[t]]
        /\ \A t \in Numbers(s) : f[t] = IF t \in set THEN Unmarked(s.tx[t], gone) ELSE s.tx[t]
      BY <2>3
  <2>5. Unmarking(s, f, set, gone)
    <3>1. gone \in SUBSET Flags /\ gone \cap {"shown", "withdrawn", "cleared"} = {}
        BY DEF Flags
    <3> HIDE DEF f, gone
    <3> QED
        BY <2>4, <3>1 DEF Unmarking
  <2>6. gone = {"suspended", "clearedPrompt"}
      OBVIOUS
  <2> HIDE DEF kept, f, gone
  <2>7. /\ Whole(s, kept) /\ kept.lost = s.lost /\ Queued(kept) = Queued(s) /\ Numbers(kept) = Numbers(s)
        /\ \A t \in Numbers(s) \ set : kept.tx[t] = s.tx[t]
        /\ \A t \in set : Marked(s.tx[t], kept.tx[t]) /\ kept.tx[t].flags = s.tx[t].flags \ gone
        /\ Steps(s, kept, 0) /\ Balance(kept) /\ Typed(kept)
    <3>1. UnmarkedStep(s, kept, set, gone)
        BY <1>0, <2>2, <2>5, UnmarkedEffect
    <3> QED
        BY <1>0, <3>1 DEF UnmarkedStep
  <2>8. ASSUME NEW t \in set PROVE Sendable(kept.tx[t], Situation(kept, r, t))
    <3> DEFINE e == Situation(s, r, t)
               f1 == Situation(kept, r, t)
               x == s.tx[t]
               y == kept.tx[t]
    <3>1. f1 = e /\ Resendable(x, e) /\ Marked(x, y) /\ y.flags = x.flags \ {"suspended", "clearedPrompt"}
        BY <2>6, <2>7, SameSituation DEF SetResendable
    <3>2. Around(e, f1)
        BY <2>7, SameSituation
    <3> HIDE DEF e, f1, x, y
    <3>3. Sendable(y, f1)
        BY <3>1, <3>2, ResentIsSendable
    <3> QED
        BY <3>3 DEF y, f1
  <2>9. ASSUME NEW t \in Numbers(kept) \ set PROVE Good(kept.tx[t], Situation(kept, r, t))
      BY <2>7, SameSituation DEF SetResendable
  <2>10. ReplyOK(kept, r)
      BY <1>0, <2>7 DEF ReplyOK
  <2>11. SetReady(kept, r, set)
      BY <1>0, <2>7, <2>8, <2>9, <2>10 DEF SetReady
  <2>12. WF(s2, r) /\ Steps(kept, s2, 0)
      BY <2>1, <2>11, SubmittedIsGood
  <2>13. kept \in Manager /\ s2 \in Manager
      BY <2>7, <2>12 DEF WF, Typed, Whole
  <2> QED
      BY <1>0, <2>7, <2>12, <2>13, StepsTransitive
<1> QED
    BY <1>1, <1>2

\* resendTransactionsFlagged takes the mark from the transactions that have it.
Resends(s, s0, set, flag) ==
    s0 = [s EXCEPT !.tx = [t \in DOMAIN @ |->
                       IF t \in set THEN Unmarked(@[t], {flag}) ELSE @[t]]]

\* It does no more than that
LEMMA ResendsEffect ==
    ASSUME NEW s \in Manager, NEW set \in SUBSET Numbers(s), NEW flag \in {"suspended", "delayed"},
           NEW s0, Resends(s, s0, set, flag)
    PROVE  UnmarkedStep(s, s0, set, {flag})
<1> DEFINE gone == {flag}
           f == [t \in DOMAIN s.tx |-> IF t \in set THEN Unmarked(s.tx[t], gone) ELSE s.tx[t]]
<1>1. IsUnmarked(s, s0, f)
    BY DEF IsUnmarked, Resends
<1>2. Numbers(s) = DOMAIN s.tx
    BY ManagerFields
<1>3. /\ f = [t \in DOMAIN s.tx |-> f[t]]
      /\ \A t \in Numbers(s) : f[t] = IF t \in set THEN Unmarked(s.tx[t], gone) ELSE s.tx[t]
    BY <1>2
<1>4. gone \in SUBSET Flags /\ gone \cap {"shown", "withdrawn", "cleared"} = {}
    BY DEF Flags
<1> HIDE DEF f, gone
<1>5. Unmarking(s, f, set, gone)
    BY <1>3, <1>4 DEF Unmarking
<1>6. UnmarkedStep(s, s0, set, gone)
    BY <1>1, <1>5, UnmarkedEffect
<1> QED
    BY <1>6 DEF gone

\* handleLoginSuccess: all that is suspended is sent again.
LEMMA SuspendedResent ==
    ASSUME NEW s, NEW r, WF(s, r), NEW s2, s2 = ResentAll(s, "suspended")
    PROVE  WF(s2, r) /\ Steps(s, s2, 0)
<1> DEFINE set == {t \in Live(s) : Has(s, t, "suspended")}
           s0 == [s EXCEPT !.tx = [t \in DOMAIN @ |->
                       IF t \in set THEN Unmarked(@[t], {"suspended"}) ELSE @[t]]]
<1>0. s \in Manager /\ Typed(s) /\ ReplyOK(s, r) /\ Balance(s)
    BY DEF WF, Typed
<1>1. s2 = Resubmitted(s0, set)
    BY DEF ResentAll
<1>2. set \in SUBSET Numbers(s) /\ Resends(s, s0, set, "suspended")
    BY DEF Live, Resends
<1>3. \A t \in set : "suspended" \in s.tx[t].flags /\ "cleared" \notin s.tx[t].flags
    BY DEF Live, IsLive, Has
<1> HIDE DEF set, s0
<1>4. /\ Whole(s, s0) /\ s0.lost = s.lost /\ Queued(s0) = Queued(s) /\ Numbers(s0) = Numbers(s)
      /\ \A t \in Numbers(s) \ set : s0.tx[t] = s.tx[t]
      /\ \A t \in set : Marked(s.tx[t], s0.tx[t]) /\ s0.tx[t].flags = s.tx[t].flags \ {"suspended"}
      /\ Steps(s, s0, 0) /\ Balance(s0) /\ Typed(s0)
  <2>1. UnmarkedStep(s, s0, set, {"suspended"})
      BY <1>0, <1>2, ResendsEffect
  <2> QED
      BY <1>0, <2>1 DEF UnmarkedStep
<1>5. ASSUME NEW t \in set PROVE Resendable(s0.tx[t], Situation(s0, r, t))
  <2> DEFINE e == Situation(s, r, t)
             f == Situation(s0, r, t)
             x == s.tx[t]
             y == s0.tx[t]
  <2>1. Around(e, f) /\ Good(x, e) /\ Marked(x, y) /\ y.flags = x.flags \ {"suspended"}
      BY <1>2, <1>4, SameSituation DEF WF
  <2>2. "suspended" \in x.flags /\ "cleared" \notin x.flags
      BY <1>3
  <2> HIDE DEF e, f, x, y
  <2>3. Resendable(y, f)
      BY <2>1, <2>2, SuspendedIsResendable
  <2> QED
      BY <2>3 DEF y, f
<1>6. ASSUME NEW t \in Numbers(s0) \ set PROVE Good(s0.tx[t], Situation(s0, r, t))
    BY <1>4, SameSituation DEF WF
<1>7. ReplyOK(s0, r)
    BY <1>0, <1>4 DEF ReplyOK
<1>8. SetResendable(s0, r, set)
    BY <1>2, <1>4, <1>5, <1>6, <1>7 DEF SetResendable
<1>9. WF(s2, r) /\ Steps(s0, s2, 0)
    BY <1>1, <1>8, ResubmittedIsGood
<1>10. s0 \in Manager /\ s2 \in Manager
    BY <1>4, <1>9 DEF WF, Typed
<1> QED
    BY <1>0, <1>4, <1>9, <1>10, StepsTransitive

\* resendTransaction
LEMMA OneResent ==
    ASSUME NEW s, NEW r, WF(s, r), NEW t, IsLive(s, t), Has(s, t, "suspended"),
           NEW s2, s2 = Resubmitted(s, {t})
    PROVE  WF(s2, r) /\ Steps(s, s2, 0)
<1> DEFINE set == {t}
           e == Situation(s, r, t)
           x == s.tx[t]
<1>1. t \in Numbers(s) /\ "suspended" \in x.flags /\ "cleared" \notin x.flags /\ Good(x, e)
    BY DEF IsLive, Has, WF
<1>2. Marked(x, x) /\ Around(e, e)
    BY DEF Marked, Same, Around, Situation
<1>3. Resendable(x, e)
  <2> HIDE DEF x, e
  <2> QED
      BY <1>1, <1>2, SuspendedIsResendable
<1>4. SetResendable(s, r, set)
    BY <1>1, <1>3 DEF SetResendable, WF
<1> HIDE DEF set
<1>5. s2 = Resubmitted(s, set)
    BY DEF set
<1> QED
    BY <1>4, <1>5, ResubmittedIsGood

--------------------------------------------------------------------------------
(* The playback of the log *)

(* The log of the offline transactions and the delayed calls *)

\* The first of the log, or of the delayed calls, and the others
LEMMA HeadAndTail ==
    ASSUME NEW q \in Seq(Nat), q # <<>>
    PROVE  Head(q) \in Nat /\ Tail(q) \in Seq(Nat) /\ ToSet(q) = {Head(q)} \cup ToSet(Tail(q))
<1> DEFINE r == Tail(q)
<1>1. /\ Len(q) \in Nat /\ Len(q) # 0 /\ DOMAIN q = 1..Len(q) /\ Head(q) = q[1]
      /\ r \in Seq(Nat) /\ Len(r) = Len(q) - 1 /\ DOMAIN r = 1..Len(r)
      /\ \A i \in 1..Len(r) : r[i] = q[i + 1]
    OBVIOUS
<1>2. Head(q) \in Nat
    BY <1>1
<1> HIDE DEF r
<1>3. ASSUME NEW i \in DOMAIN q PROVE q[i] \in {Head(q)} \cup ToSet(r)
  <2>1. CASE i = 1
      BY <1>1, <2>1
  <2>2. CASE i # 1
    <3> DEFINE j == i - 1
    <3>1. j \in 1..Len(r) /\ i = j + 1
        BY <1>1, <2>2
    <3> HIDE DEF j
    <3>2. q[i] = r[j] /\ j \in DOMAIN r
        BY <1>1, <3>1
    <3> QED
        BY <3>2 DEF ToSet
  <2> QED
      BY <2>1, <2>2
<1>4. ASSUME NEW i \in DOMAIN r PROVE r[i] \in ToSet(q)
  <2>1. r[i] = q[i + 1] /\ i + 1 \in DOMAIN q
      BY <1>1
  <2> QED
      BY <2>1 DEF ToSet
<1>5. Head(q) \in ToSet(q)
  <2>1. 1 \in DOMAIN q
      BY <1>1
  <2> QED
      BY <1>1, <2>1 DEF ToSet
<1>6. ToSet(q) = {Head(q)} \cup ToSet(r)
    BY <1>3, <1>4, <1>5 DEF ToSet
<1> QED
    BY <1>1, <1>2, <1>6 DEF r

\* Transaction t was taken from the log or from the delayed calls.
Taken(s, s2, t) ==
    /\ s2 \in Manager /\ s2.tx = s.tx /\ s2.prompts = s.prompts /\ s2.loaded = s.loaded
    /\ s2.delaying = s.delaying /\ s2.lost = s.lost /\ s2.cur = s.cur
    /\ (s.misled => s2.misled) /\ (s.unbalanced => s2.unbalanced)
    /\ Queued(s) = {t} \cup Queued(s2)

\* All but that transaction are as they should be, and it lacks only what brings it on.
LEMMA TakenIsGood ==
    ASSUME NEW s, NEW r, WF(s, r), NEW t, NEW s2, Taken(s, s2, t), r.t # t
    PROVE  /\ t \in Numbers(s) /\ Numbers(s2) = Numbers(s)
           /\ Typed(s2) /\ ReplyOK(s2, r) /\ Balance(s2) /\ Steps(s, s2, 0)
           /\ \A v \in Numbers(s) :
                v # t \/ "cleared" \in s.tx[v].flags => Good(s.tx[v], Situation(s2, r, v))
           /\ Sound(s.tx[t], Situation(s2, r, t)) /\ "submitted" \in s.tx[t].flags
<1>1. /\ s \in Manager /\ s2 \in Manager /\ s2.tx = s.tx
      /\ s2.loaded = s.loaded /\ s2.lost = s.lost /\ s2.cur = s.cur
      /\ (s.misled => s2.misled) /\ (s.unbalanced => s2.unbalanced)
      /\ Queued(s) = {t} \cup Queued(s2) /\ Queued(s) \cup s.lost \subseteq Numbers(s)
      /\ s2.prompts = s.prompts /\ s2.delaying = s.delaying
    BY DEF WF, Typed, Taken
<1>2. Steps(s, s2, 0) /\ Numbers(s2) = Numbers(s)
    BY <1>1, UntouchedSteps
<1>3. Shown(s2) = Shown(s)
    BY <1>1, <1>2 DEF Shown, Has
<1>4. Typed(s2)
    BY <1>1, <1>2 DEF WF, Typed
<1>5. ReplyOK(s2, r)
    BY <1>2 DEF WF, ReplyOK
<1>6. Balance(s2)
    BY <1>1, <1>3 DEF WF, Balance
<1>7. t \in Numbers(s)
    BY <1>1
<1>8. ASSUME NEW v \in Numbers(s)
      PROVE  LET e == Situation(s, r, v)
                 f == Situation(s2, r, v)
             IN /\ f.loaded = e.loaded /\ (e.misled => f.misled) /\ (f.balanced => e.balanced)
                /\ f.open = e.open /\ f.lost = e.lost /\ f.phase = e.phase /\ f.op = e.op
                /\ (v # t => f.queued = e.queued)
  <2>1. v # t => (v \in Queued(s2)) = (v \in Queued(s))
      BY <1>1
  <2> QED
      BY <1>1, <2>1 DEF Situation
<1>9. ASSUME NEW v \in Numbers(s), v # t PROVE Good(s.tx[v], Situation(s2, r, v))
  <2> DEFINE e == Situation(s, r, v)
             f == Situation(s2, r, v)
             x == s.tx[v]
  <2>1. /\ f.loaded = e.loaded /\ (e.misled => f.misled) /\ (f.balanced => e.balanced)
        /\ f.open = e.open /\ f.lost = e.lost /\ f.phase = e.phase /\ f.op = e.op
        /\ f.queued = e.queued
      BY <1>8, <1>9
  <2>2. Good(x, e)
      BY DEF WF
  <2> HIDE DEF e, f, x
  <2>3. Good(x, f)
      BY <2>1, <2>2, GoodElsewhere
  <2> QED
      BY <2>3 DEF f, x
<1>10. /\ Sound(s.tx[t], Situation(s2, r, t)) /\ "submitted" \in s.tx[t].flags
       /\ "cleared" \in s.tx[t].flags => Good(s.tx[t], Situation(s2, r, t))
  <2> DEFINE e == Situation(s, r, t)
             f == Situation(s2, r, t)
             x == s.tx[t]
  <2>1. /\ f.loaded = e.loaded /\ (e.misled => f.misled) /\ (f.balanced => e.balanced)
        /\ f.open = e.open /\ f.lost = e.lost /\ f.phase = e.phase /\ f.op = e.op
      BY <1>7, <1>8
  <2>2. Good(x, e)
      BY <1>7 DEF WF
  <2>3. e.queued /\ e.phase = "idle"
      BY <1>1 DEF Situation
  <2>4. Same(x, x)
      BY DEF Same
  <2> HIDE DEF e, f, x
  <2>5. Sound(x, e) /\ "submitted" \in x.flags
      BY <2>2, <2>3 DEF Good, Sound, UnsentOK
  <2>6. Sound(x, f)
      BY <2>1, <2>3, <2>4, <2>5, ReceivedIsSound
  <2>7. "cleared" \in x.flags => Good(x, f)
      BY <2>1, <2>4, <2>5, GoneIsGood
  <2> QED
      BY <2>5, <2>6, <2>7 DEF f, x
<1> QED
    BY <1>2, <1>4, <1>5, <1>6, <1>7, <1>9, <1>10

IsPopped(s, s2, q) == s2 = [s EXCEPT !.log = q]
IsTold(s, s2, m, b) == s2 = [s EXCEPT !.misled = m, !.unbalanced = b]
IsDone(s, s2, b) == s2 = [s EXCEPT !.playback = FALSE, !.onLine = b]

\* The first of the log is taken
LEMMA PoppedFields ==
    ASSUME NEW s \in Manager, NEW q \in Seq(Nat), NEW s2, IsPopped(s, s2, q)
    PROVE  Untouched(s, s2) /\ s2.cur = s.cur /\ s2.log = q /\ s2.later = s.later
BY DEF Manager, IsPopped, Untouched

\* What the manager does not know of itself is noted
LEMMA ToldFields ==
    ASSUME NEW s \in Manager, NEW m \in BOOLEAN, NEW b \in BOOLEAN, NEW s2, IsTold(s, s2, m, b)
    PROVE  /\ s2 \in Manager /\ s2.tx = s.tx /\ s2.prompts = s.prompts /\ s2.loaded = s.loaded
           /\ s2.delaying = s.delaying /\ s2.misled = m /\ s2.unbalanced = b
           /\ s2.lost = s.lost /\ s2.cur = s.cur /\ s2.log = s.log /\ s2.later = s.later
BY DEF Manager, IsTold

\* The playback ends
LEMMA DoneFields ==
    ASSUME NEW s \in Manager, NEW b \in BOOLEAN, NEW s2, IsDone(s, s2, b)
    PROVE  Untouched(s, s2) /\ s2.cur = s.cur /\ s2.log = s.log /\ s2.later = s.later
BY DEF Manager, IsDone, Untouched

\* playbackNextOfflineTransaction
LEMMA PlayedBackIsGood ==
    ASSUME NEW s, WF(s, Idle), NEW s2, s2 = PlayedBack(s)
    PROVE  WF(s2, Idle) /\ Steps(s, s2, 0)
<1>0. /\ s \in Manager /\ s.log \in Seq(Nat) /\ s.netUp \in BOOLEAN /\ s.misled \in BOOLEAN
      /\ s.unbalanced \in BOOLEAN /\ Numbers(s) \subseteq Nat \ {0}
    BY ManagerFields DEF WF, Typed
<1>1. CASE s.log = <<>>
  <2>1. IsDone(s, s2, s.netUp)
      BY <1>1 DEF PlayedBack, IsDone
  <2>2. Untouched(s, s2) /\ s2.cur = s.cur /\ s2.log = s.log /\ s2.later = s.later
      BY <1>0, <2>1, DoneFields
  <2> QED
      BY <2>2, UntouchedWF
<1>2. CASE s.log # <<>>
  <2> DEFINE t == Head(s.log)
             q == Tail(s.log)
             u == IF IsLive(s, t) THEN t ELSE LastTracked(s)
             s1 == [s EXCEPT !.log = q]
             m == s.misled \/ u # t
             b == s.unbalanced \/ Has(s, u, "shown")
             s0 == [s1 EXCEPT !.misled = m, !.unbalanced = b]
  <2>1. t \in Nat /\ q \in Seq(Nat) /\ ToSet(s.log) = {t} \cup ToSet(q)
      BY <1>0, <1>2, HeadAndTail
  <2>2. IsPopped(s, s1, q) /\ s1.misled = s.misled /\ s1.unbalanced = s.unbalanced
      BY <1>0 DEF IsPopped, Manager
  <2>3. s2 = IF u = 0 THEN s1 ELSE Resubmitted(s0, {u})
      BY <1>2, <2>2 DEF PlayedBack
  <2>4. IsTold(s1, s0, m, b)
      BY DEF IsTold
  <2>5. IsLive(s, t) => u = t
      OBVIOUS
  <2>6. u = 0 \/ u \in Live(s)
      BY <1>0, LastTrackedIsLive DEF Live, IsLive
  <2>7. m \in BOOLEAN /\ b \in BOOLEAN /\ (m <=> s.misled \/ u # t) /\ (b <=> s.unbalanced \/ Has(s, u, "shown"))
      BY <1>0
  <2> HIDE DEF t, q, u, s1, m, b, s0
  <2>8. Untouched(s, s1) /\ s1.cur = s.cur /\ s1.log = q /\ s1.later = s.later
      BY <1>0, <2>1, <2>2, PoppedFields
  <2>9. Idle.t # t
    <3>1. t \in Numbers(s)
        BY <2>1 DEF WF, Typed, Queued
    <3> QED
        BY <1>0, <3>1 DEF Idle
  <2>10. CASE u = 0
    <3>1. Queued(s) = {t} \cup Queued(s1)
        BY <2>1, <2>8 DEF Queued
    <3>2. Taken(s, s1, t)
        BY <2>8, <3>1 DEF Taken, Untouched
    <3>3. /\ t \in Numbers(s) /\ Numbers(s1) = Numbers(s)
          /\ Typed(s1) /\ ReplyOK(s1, Idle) /\ Balance(s1) /\ Steps(s, s1, 0)
          /\ \A v \in Numbers(s) :
               v # t \/ "cleared" \in s.tx[v].flags => Good(s.tx[v], Situation(s1, Idle, v))
        BY <2>9, <3>2, TakenIsGood
    <3>4. "cleared" \in s.tx[t].flags
      <4>1. t # 0
          BY <1>0, <3>3
      <4> QED
          BY <2>5, <2>10, <3>3, <4>1 DEF IsLive, Has
    <3>5. s1.tx = s.tx
        BY <2>8 DEF Untouched
    <3>6. WF(s1, Idle)
        BY <3>3, <3>4, <3>5 DEF WF
    <3> QED
        BY <2>3, <2>10, <3>3, <3>6
  <2>11. CASE u # 0
    <3>0. s1 \in Manager
        BY <2>8 DEF Untouched
    <3>1. /\ s0 \in Manager /\ s0.tx = s1.tx /\ s0.prompts = s1.prompts /\ s0.loaded = s1.loaded
          /\ s0.delaying = s1.delaying /\ s0.misled = m /\ s0.unbalanced = b
          /\ s0.lost = s1.lost /\ s0.cur = s1.cur /\ s0.log = s1.log /\ s0.later = s1.later
        BY <2>4, <2>7, <3>0, ToldFields
    <3>2. Queued(s) = {t} \cup Queued(s0)
        BY <2>1, <2>8, <3>1 DEF Queued
    <3>3. Taken(s, s0, t)
        BY <2>7, <2>8, <3>1, <3>2 DEF Taken, Untouched
    <3>4. /\ t \in Numbers(s) /\ Numbers(s0) = Numbers(s)
          /\ Typed(s0) /\ ReplyOK(s0, Idle) /\ Balance(s0) /\ Steps(s, s0, 0)
          /\ \A v \in Numbers(s) :
               v # t \/ "cleared" \in s.tx[v].flags => Good(s.tx[v], Situation(s0, Idle, v))
          /\ "submitted" \in s.tx[t].flags
        BY <2>9, <3>3, TakenIsGood
    <3>5. u \in Numbers(s) /\ "cleared" \notin s.tx[u].flags
        BY <2>6, <2>11 DEF Live, IsLive, Has
    <3>6. u # t => "cleared" \in s.tx[t].flags
        BY <2>5, <3>4 DEF IsLive, Has
    <3> DEFINE set == {u}
    <3>7. \A v \in Numbers(s) \ set : Good(s0.tx[v], Situation(s0, Idle, v))
      <4>1. s0.tx = s.tx
          BY <2>8, <3>1 DEF Untouched
      <4> QED
          BY <3>4, <3>6, <4>1
    <3>8. Resendable(s0.tx[u], Situation(s0, Idle, u))
      <4> DEFINE e == Situation(s, Idle, u)
                 f == Situation(s0, Idle, u)
                 x == s.tx[u]
      <4>1. Good(x, e)
          BY <3>5 DEF WF
      <4>2. e.phase = "idle"
          BY DEF Situation, Idle
      <4>3. Around(e, f)
          BY <2>7, <2>8, <3>1, <3>2 DEF Around, Situation, Untouched
      <4>4. \/ "submitted" \in x.flags /\ "cleared" \notin x.flags
            \/ f.misled
          BY <2>7, <3>1, <3>4, <3>5 DEF Situation
      <4>5. f.balanced => "shown" \notin x.flags
          BY <2>7, <3>1 DEF Situation, Has
      <4> HIDE DEF e, f, x
      <4>6. Resendable(x, f)
          BY <4>1, <4>2, <4>3, <4>4, <4>5, LoggedIsResendable
      <4> QED
          BY <2>8, <3>1, <4>6 DEF Untouched, x, f
    <3>9. SetResendable(s0, Idle, set)
      <4>1. \A v \in set : Resendable(s0.tx[v], Situation(s0, Idle, v))
          BY <3>8
      <4>2. set \in SUBSET Numbers(s0)
          BY <3>4, <3>5
      <4> HIDE DEF set
      <4> QED
          BY <3>4, <3>7, <4>1, <4>2 DEF SetResendable
    <3>10. s2 = Resubmitted(s0, set)
        BY <2>3, <2>11
    <3> HIDE DEF set
    <3>11. WF(s2, Idle) /\ Steps(s0, s2, 0)
        BY <3>9, <3>10, ResubmittedIsGood
    <3>12. s2 \in Manager
        BY <3>11 DEF WF, Typed
    <3> QED
        BY <1>0, <3>1, <3>4, <3>11, <3>12, StepsTransitive
  <2> QED
      BY <2>10, <2>11
<1> QED
    BY <1>1, <1>2

--------------------------------------------------------------------------------
(* The load of the page *)

\* resendDelayedTransactions, when the page is loaded
IsLoaded(s, s2) == s2 = [s EXCEPT !.loaded = TRUE, !.delaying = FALSE]

\* The page is loaded
LEMMA LoadedFields ==
    ASSUME NEW s \in Manager, NEW s2, IsLoaded(s, s2)
    PROVE  /\ s2 \in Manager /\ s2.tx = s.tx /\ s2.prompts = s.prompts /\ s2.loaded
           /\ ~s2.delaying /\ s2.misled = s.misled /\ s2.unbalanced = s.unbalanced
           /\ s2.lost = s.lost /\ s2.cur = s.cur /\ s2.log = s.log /\ s2.later = s.later
BY DEF Manager, IsLoaded

\* All that was delayed is sent
LEMMA DelayedResent ==
    ASSUME NEW s, WF(s, Idle), ~s.loaded, NEW sl, IsLoaded(s, sl), NEW s2, s2 = ResentAll(sl, "delayed")
    PROVE  WF(s2, Idle) /\ Steps(s, s2, 0)
<1> DEFINE set == {t \in Live(sl) : Has(sl, t, "delayed")}
           s0 == [sl EXCEPT !.tx = [t \in DOMAIN @ |->
                       IF t \in set THEN Unmarked(@[t], {"delayed"}) ELSE @[t]]]
<1>0. s \in Manager /\ Typed(s) /\ ReplyOK(s, Idle) /\ Balance(s)
    BY DEF WF, Typed
<1>1. /\ sl \in Manager /\ sl.tx = s.tx /\ sl.prompts = s.prompts /\ sl.loaded
      /\ ~sl.delaying /\ sl.misled = s.misled /\ sl.unbalanced = s.unbalanced
      /\ sl.lost = s.lost /\ sl.cur = s.cur /\ sl.log = s.log /\ sl.later = s.later
    BY <1>0, LoadedFields
<1>2. /\ Steps(s, sl, 0) /\ Numbers(sl) = Numbers(s) /\ Queued(sl) = Queued(s)
  <2>1. Steps(s, sl, 0) /\ Numbers(sl) = Numbers(s)
      BY <1>0, <1>1, UntouchedSteps
  <2>2. Queued(sl) = Queued(s)
      BY <1>1 DEF Queued
  <2> QED
      BY <2>1, <2>2
<1>3. Typed(sl)
    BY <1>0, <1>1, <1>2 DEF Typed
<1>4. Balance(sl)
  <2>1. Shown(sl) = Shown(s)
      BY <1>1, <1>2 DEF Shown, Has
  <2> QED
      BY <1>0, <1>1, <2>1 DEF Balance
<1>5. s2 = Resubmitted(s0, set)
    BY DEF ResentAll
<1>6. set \in SUBSET Numbers(sl) /\ Resends(sl, s0, set, "delayed")
    BY DEF Live, Resends
<1>7. \A t \in Numbers(s) : t \in set <=> "delayed" \in s.tx[t].flags /\ "cleared" \notin s.tx[t].flags
    BY <1>1, <1>2 DEF Live, IsLive, Has
<1> HIDE DEF set, s0
<1>8. /\ Whole(sl, s0) /\ s0.lost = sl.lost /\ Queued(s0) = Queued(sl) /\ Numbers(s0) = Numbers(sl)
      /\ \A t \in Numbers(sl) \ set : s0.tx[t] = sl.tx[t]
      /\ \A t \in set : Marked(sl.tx[t], s0.tx[t]) /\ s0.tx[t].flags = sl.tx[t].flags \ {"delayed"}
      /\ Steps(sl, s0, 0) /\ Balance(s0) /\ Typed(s0)
  <2>1. UnmarkedStep(sl, s0, set, {"delayed"})
      BY <1>1, <1>6, ResendsEffect
  <2> QED
      BY <1>3, <1>4, <2>1 DEF UnmarkedStep
<1>9. ASSUME NEW t \in Numbers(s)
      PROVE  LET e == Situation(s, Idle, t)
                 f == Situation(s0, Idle, t)
             IN /\ ~e.loaded /\ f.loaded /\ e.phase = "idle" /\ (e.balanced => ~e.misled)
                /\ f.misled = e.misled /\ f.balanced = e.balanced /\ f.open = e.open
                /\ f.phase = e.phase /\ f.op = e.op /\ f.queued = e.queued /\ f.lost = e.lost
  <2>1. /\ s0.loaded = sl.loaded /\ s0.misled = sl.misled /\ s0.unbalanced = sl.unbalanced
        /\ s0.cur = sl.cur
      BY <1>8 DEF Whole
  <2>2. Idle.phase = "idle"
      BY DEF Idle
  <2> QED
      BY <1>1, <1>2, <1>8, <2>1, <2>2 DEF Situation
<1>10. ASSUME NEW t \in set PROVE Resendable(s0.tx[t], Situation(s0, Idle, t))
  <2> DEFINE e == Situation(s, Idle, t)
             f == Situation(s0, Idle, t)
             x == s.tx[t]
             y == s0.tx[t]
  <2>0. t \in Numbers(s)
      BY <1>2, <1>6
  <2>1. Good(x, e) /\ Marked(x, y) /\ y.flags = x.flags \ {"delayed"}
      BY <1>1, <1>8, <2>0 DEF WF
  <2>2. "delayed" \in x.flags /\ "cleared" \notin x.flags
      BY <1>7, <2>0
  <2>3. /\ ~e.loaded /\ f.loaded /\ e.phase = "idle" /\ (e.balanced => ~e.misled)
        /\ f.misled = e.misled /\ f.balanced = e.balanced /\ f.open = e.open
        /\ f.phase = e.phase /\ f.op = e.op /\ f.queued = e.queued /\ f.lost = e.lost
      BY <1>9, <2>0
  <2> HIDE DEF e, f, x, y
  <2>4. Resendable(y, f)
      BY <2>1, <2>2, <2>3, DelayedIsResendable
  <2> QED
      BY <2>4 DEF y, f
<1>11. ASSUME NEW t \in Numbers(s0) \ set PROVE Good(s0.tx[t], Situation(s0, Idle, t))
  <2> DEFINE e == Situation(s, Idle, t)
             f == Situation(s0, Idle, t)
             x == s.tx[t]
  <2>0. t \in Numbers(s) /\ t \in Numbers(sl) /\ t \notin set
      BY <1>2, <1>8
  <2>1. Good(x, e)
      BY <2>0 DEF WF
  <2>2. ~("delayed" \in x.flags /\ "cleared" \notin x.flags)
      BY <1>7, <2>0
  <2>3. /\ ~e.loaded /\ f.loaded /\ e.phase = "idle" /\ (e.balanced => ~e.misled)
        /\ f.misled = e.misled /\ f.balanced = e.balanced /\ f.open = e.open
        /\ f.phase = e.phase /\ f.op = e.op /\ f.queued = e.queued /\ f.lost = e.lost
      BY <1>9, <2>0
  <2>4. s0.tx[t] = x
      BY <1>1, <1>8, <2>0
  <2> HIDE DEF e, f, x
  <2>5. Good(x, f)
      BY <2>1, <2>2, <2>3, NotDelayedIsGood
  <2> QED
      BY <2>4, <2>5 DEF f
<1>12. ReplyOK(s0, Idle)
    BY <1>0, <1>2, <1>8 DEF ReplyOK
<1>13. SetResendable(s0, Idle, set)
    BY <1>6, <1>8, <1>10, <1>11, <1>12 DEF SetResendable
<1>14. WF(s2, Idle) /\ Steps(s0, s2, 0)
    BY <1>5, <1>13, ResubmittedIsGood
<1>15. s0 \in Manager /\ s2 \in Manager
    BY <1>8, <1>14 DEF WF, Typed
<1>16. Steps(s, s0, 0)
    BY <1>0, <1>1, <1>2, <1>8, <1>15, StepsTransitive
<1> QED
    BY <1>0, <1>14, <1>15, <1>16, StepsTransitive

--------------------------------------------------------------------------------
(* The reply loop *)

(* The reply loop *)

\* Transaction t is in its reply r, and all the others are as they should be.
InReply(s, r, t) ==
    /\ Else(s, r, t) /\ ReplyOK(s, r) /\ t \in Numbers(s) /\ r.t = t /\ r.phase = "callback"
    /\ Ready(s.tx[t], Situation(s, r, t))

\* Its prompt is counted
LEMMA ReadyIsCounted ==
    ASSUME NEW s, NEW r, NEW t, InReply(s, r, t)
    PROVE  PromptCounted(s, s.tx[t])
<1> DEFINE e == Situation(s, r, t)
           x == s.tx[t]
<1>1. Ready(x, e)
    BY DEF InReply
<1>2. (Counted(s) => e.balanced) /\ e.loaded = s.loaded
    BY DEF Situation, Counted
<1> HIDE DEF e, x
<1>3. PromptCounted(s, x)
    BY <1>1, <1>2 DEF PromptCounted, Ready, PromptOK
<1> QED
    BY <1>3 DEF x

\* What the end of a reply does to the flags
LEMMA FinishedEffect ==
    ASSUME NEW s, NEW r, NEW t, InReply(s, r, t), NEW s1, s1 = ClearPrompt(s, t),
           NEW s2, s2 = IF {"suspended", "abort"} \cap s1.tx[t].flags = {} THEN ClearTransaction(s1, t) ELSE s1,
           NEW s3, s3 = Unflag(s2, t, {"abort", "replying"})
    PROVE  /\ Beside(s, s3, t) /\ Balance(s3) /\ NoneEarly(s3)
           /\ Same(s.tx[t], s3.tx[t]) /\ s3.tx[t].got = s.tx[t].got
           /\ s3.tx[t].flight = s.tx[t].flight
           /\ LET x == s.tx[t]
                  y == s3.tx[t]
              IN \/ /\ "suspended" \notin x.flags /\ "abort" \notin x.flags
                    /\ y.flags = (PromptFlags(x) \cup {"cleared"}) \ {"abort", "replying"}
                 \/ /\ "suspended" \in x.flags \/ "abort" \in x.flags
                    /\ y.armed = x.armed
                    /\ y.flags = PromptFlags(x) \ {"abort", "replying"}
<1> DEFINE x == s.tx[t]
           off == {"abort", "replying"}
<1>0. /\ s \in Manager /\ t \in Numbers(s) /\ s.cur \in {0} \cup Numbers(s)
      /\ Balance(s) /\ NoneEarly(s)
    BY DEF InReply, Else, Typed
<1>1. PromptCounted(s, s.tx[t])
    BY ReadyIsCounted
<1>2. /\ Beside(s, s1, t)
      /\ Marked(x, s1.tx[t]) /\ s1.tx[t].flags = PromptFlags(x)
    BY <1>0, ClearPromptEffect
<1>3. Balance(s1) /\ NoneEarly(s1)
    BY <1>0, <1>1, ClearPromptBalance
<1>4. s1 \in Manager /\ Numbers(s1) = Numbers(s) /\ s1.cur = s.cur
    BY <1>2, BesideFields
<1>5. /\ "suspended" \in PromptFlags(x) <=> "suspended" \in x.flags
      /\ "abort" \in PromptFlags(x) <=> "abort" \in x.flags
    BY DEF PromptFlags
<1> HIDE DEF x
<1>6. /\ Beside(s1, s2, t) /\ s2.prompts = s1.prompts
      /\ Same(s1.tx[t], s2.tx[t]) /\ s2.tx[t].got = s1.tx[t].got /\ s2.tx[t].flight = s1.tx[t].flight
      /\ \/ /\ "suspended" \notin x.flags /\ "abort" \notin x.flags
            /\ s2.tx[t].flags = s1.tx[t].flags \cup {"cleared"}
         \/ /\ "suspended" \in x.flags \/ "abort" \in x.flags
            /\ s2 = s1
  <2>1. CASE "suspended" \notin x.flags /\ "abort" \notin x.flags
    <3>1. s2 = ClearTransaction(s1, t)
        BY <1>2, <1>5, <2>1
    <3> QED
        BY <1>0, <1>4, <2>1, <3>1, ClearTransactionEffect
  <2>2. CASE "suspended" \in x.flags \/ "abort" \in x.flags
    <3>1. s2 = s1
        BY <1>2, <1>5, <2>2
    <3>2. Beside(s1, s2, t)
        BY <1>4, <3>1, BesideReflexive
    <3> QED
        BY <2>2, <3>1, <3>2 DEF Same
  <2> QED
      BY <2>1, <2>2
<1>7. s2 \in Manager /\ Numbers(s2) = Numbers(s)
    BY <1>4, <1>6, BesideFields
<1>8. off \in SUBSET Flags /\ s3 = Unflag(s2, t, off) /\ off = {"abort", "replying"}
    BY DEF Flags
<1> HIDE DEF off
<1>9. /\ Beside(s2, s3, t) /\ s3.prompts = s2.prompts
      /\ Marked(s2.tx[t], s3.tx[t]) /\ s3.tx[t].flags = s2.tx[t].flags \ off
    BY <1>0, <1>7, <1>8, UnflagEffect
<1>10. Beside(s, s3, t)
  <2>1. Beside(s, s2, t)
      BY <1>0, <1>2, <1>6, BesideTransitive
  <2> QED
      BY <1>0, <1>9, <2>1, BesideTransitive
<1>11. Balance(s2) /\ NoneEarly(s2)
  <2>1. "shown" \in s2.tx[t].flags <=> "shown" \in s1.tx[t].flags
      BY <1>6
  <2> QED
      BY <1>0, <1>3, <1>4, <1>6, <2>1, BalanceKept
<1>12. Balance(s3) /\ NoneEarly(s3)
  <2>1. "shown" \in s3.tx[t].flags <=> "shown" \in s2.tx[t].flags
      BY <1>8, <1>9
  <2> QED
      BY <1>0, <1>7, <1>9, <1>11, <2>1, BalanceKept
<1>13. /\ Same(x, s3.tx[t]) /\ s3.tx[t].got = x.got /\ s3.tx[t].flight = x.flight
    BY <1>2, <1>6, <1>9 DEF Marked, Same
<1>14. \/ /\ "suspended" \notin x.flags /\ "abort" \notin x.flags
          /\ s3.tx[t].flags = (PromptFlags(x) \cup {"cleared"}) \ {"abort", "replying"}
       \/ /\ "suspended" \in x.flags \/ "abort" \in x.flags
          /\ s3.tx[t].armed = x.armed
          /\ s3.tx[t].flags = PromptFlags(x) \ {"abort", "replying"}
    BY <1>2, <1>6, <1>8, <1>9 DEF Marked
<1> QED
    BY <1>10, <1>12, <1>13, <1>14 DEF x

\* One helper's step after another
LEMMA StepOwn ==
    ASSUME NEW x \in Tx, NEW y, "withdrawn" \in x.flags => "withdrawn" \in y.flags,
           "cleared" \in x.flags => "cleared" \in y.flags, y.flight <= x.flight,
           DOMAIN x.got = DOMAIN y.got, NEW b
    PROVE  StepTx(x, y, b, TRUE)
BY DEF StepTx

\* The end of a reply, or of its interruption
LEMMA FinishedReplyIsGood ==
    ASSUME NEW s, NEW r, NEW t, InReply(s, r, t),
           ~(r.op + 1 <= Len(s.tx[t].got) /\ {"suspended", "abort"} \cap s.tx[t].flags = {}),
           NEW s4, s4 = FinishedReply(s, t)
    PROVE  WF(s4, Idle) /\ Steps(s, s4, t)
<1> DEFINE s1 == ClearPrompt(s, t)
           s2 == IF {"suspended", "abort"} \cap s1.tx[t].flags = {} THEN ClearTransaction(s1, t) ELSE s1
           s3 == Unflag(s2, t, {"abort", "replying"})
           x == s.tx[t]
           y == s3.tx[t]
           e == Situation(s, r, t)
           f == Situation(s3, Idle, t)
<1>0. /\ s \in Manager /\ t \in Numbers(s) /\ s.cur \in {0} \cup Numbers(s)
      /\ Balance(s) /\ NoneEarly(s) /\ Else(s, r, t) /\ Ready(x, e) /\ r.t = t /\ r.op \in Nat
    BY DEF InReply, Else, Typed, ReplyOK, Replies
<1>1. x \in Tx /\ t # 0 /\ x.got \in Seq(Nat)
    BY <1>0, ManagerFields, TxFields
<1>2. s4 = IF Has(s3, t, "offline") THEN PlayedBack(s3) ELSE s3
    BY DEF FinishedReply
<1>3. /\ Beside(s, s3, t) /\ Balance(s3) /\ NoneEarly(s3)
      /\ Same(x, y) /\ y.got = x.got /\ y.flight = x.flight
      /\ \/ /\ "suspended" \notin x.flags /\ "abort" \notin x.flags
            /\ y.flags = (PromptFlags(x) \cup {"cleared"}) \ {"abort", "replying"}
         \/ /\ "suspended" \in x.flags \/ "abort" \in x.flags
            /\ y.armed = x.armed
            /\ y.flags = PromptFlags(x) \ {"abort", "replying"}
  <2> HIDE DEF s1, s2, s3
  <2>1. /\ s1 = ClearPrompt(s, t)
        /\ s2 = IF {"suspended", "abort"} \cap s1.tx[t].flags = {} THEN ClearTransaction(s1, t) ELSE s1
        /\ s3 = Unflag(s2, t, {"abort", "replying"})
      BY DEF s1, s2, s3
  <2> QED
      BY <2>1, FinishedEffect
<1>10. ~(r.op + 1 <= Len(x.got) /\ {"suspended", "abort"} \cap x.flags = {})
    OBVIOUS
<1> HIDE DEF s1, s2, s3
<1>4. /\ s3 \in Manager /\ Numbers(s3) = Numbers(s)
      /\ s3.cur = s.cur /\ s3.loaded = s.loaded
      /\ s3.misled = s.misled /\ (Counted(s3) => Counted(s)) /\ Queued(s3) = Queued(s)
      /\ s.lost \subseteq s3.lost
  <2>1. s.lost \subseteq s3.lost
      BY <1>3 DEF Beside
  <2> QED
      BY <1>3, <2>1, BesideFields
<1>5. /\ f.loaded = e.loaded /\ f.misled = e.misled /\ (f.balanced => e.balanced) /\ f.open = e.open
      /\ (e.lost => f.lost) /\ f.phase = "idle" /\ f.queued = e.queued /\ (e.balanced => ~e.misled)
      /\ e.op = r.op
  <2>1. s3.loaded = s.loaded /\ s3.misled = s.misled /\ s3.cur = s.cur /\ (t \in s.lost => t \in s3.lost)
        /\ (t \in Queued(s3)) = (t \in Queued(s)) /\ (Counted(s3) => Counted(s))
      BY <1>4
  <2>2. Idle.phase = "idle" /\ Idle.t = 0
      BY DEF Idle
  <2> HIDE DEF e, f
  <2>3. /\ e.loaded = s.loaded /\ e.misled = s.misled /\ (e.balanced <=> Counted(s))
        /\ e.open = (s.cur = t) /\ e.queued = (t \in Queued(s)) /\ (e.lost <=> t \in s.lost) /\ e.op = r.op
      BY DEF e, Situation, Counted
  <2>4. /\ f.loaded = s3.loaded /\ f.misled = s3.misled /\ (f.balanced <=> Counted(s3))
        /\ f.open = (s3.cur = t) /\ f.queued = (t \in Queued(s3)) /\ (f.lost <=> t \in s3.lost)
        /\ f.phase = "idle"
      BY <1>1, <2>2 DEF f, Situation, Counted
  <2>5. e.balanced => ~e.misled
      BY <2>3 DEF Counted
  <2> QED
      BY <2>1, <2>3, <2>4, <2>5
<1>6. Good(y, f)
  <2> HIDE DEF x, y, e, f
  <2>1. "suspended" \notin x.flags /\ "abort" \notin x.flags => \A op \in DOMAIN x.got : op <= e.op
    <3>1. DOMAIN x.got = 1..Len(x.got) /\ Len(x.got) \in Nat
        BY <1>1
    <3> QED
        BY <1>0, <1>5, <1>10, <3>1
  <2>2. e.op \in Nat
      BY <1>0, <1>5
  <2> QED
      BY <1>0, <1>1, <1>3, <1>5, <2>1, <2>2, FinishedIsGood
<1>7. Else(s3, Idle, t)
  <2>1. Apart(r, Idle, t)
      BY <1>0 DEF Apart, Idle
  <2> QED
      BY <1>0, <1>3, <2>1, ElseBeside
<1>8. WF(s3, Idle)
  <2>1. ReplyOK(s3, Idle)
      BY DEF ReplyOK, Idle, Replies, Phases
  <2> QED
      BY <1>6, <1>7, <2>1, ElseWF
<1>9. Steps(s, s3, t)
  <2> DEFINE b == s3.misled
             own == t = t
  <2>1. StepTx(x, y, b, TRUE)
    <3> HIDE DEF x, y, b
    <3>1. /\ "withdrawn" \in x.flags => "withdrawn" \in y.flags
          /\ "cleared" \in x.flags => "cleared" \in y.flags
        BY <1>3 DEF PromptFlags
    <3>2. y.flight <= x.flight
      <4>1. x.flight \in Nat
          BY <1>1, TxFields
      <4> QED
          BY <1>3, <4>1
    <3> QED
        BY <1>1, <1>3, <3>1, <3>2, StepOwn
  <2>2. StepTx(x, y, b, own)
      BY <2>1
  <2> QED
      BY <1>0, <1>3, <2>2, StepsBeside
<1>11. CASE Has(s3, t, "offline")
  <2>1. s4 = PlayedBack(s3)
      BY <1>2, <1>11
  <2>2. WF(s4, Idle) /\ Steps(s3, s4, 0)
      BY <1>8, <2>1, PlayedBackIsGood
  <2>3. s4 \in Manager
      BY <2>2 DEF WF, Typed
  <2>4. Steps(s3, s4, t)
      BY <1>4, <2>2, StepsAny
  <2> QED
      BY <1>0, <1>4, <1>9, <2>2, <2>3, <2>4, StepsTransitive
<1>12. CASE ~Has(s3, t, "offline")
    BY <1>2, <1>8, <1>9, <1>12
<1> QED
    BY <1>11, <1>12

\* What is known before a step that concerns transaction t
LEMMA EarlyOrNot ==
    ASSUME NEW s, NEW r, NEW t, WF(s, r)
    PROVE  Else(s, r, t) /\ s \in Manager /\ Typed(s) /\ ReplyOK(s, r) /\ Balance(s) /\ NoneEarly(s)
BY WFElse DEF WF, Typed, Else

\* The state after a step that concerns transaction t: s2 and the reply r2
LEMMA OneStep ==
    ASSUME NEW s, NEW r, NEW t \in Numbers(s), Else(s, r, t), NEW s2, NEW r2,
           Beside(s, s2, t), Apart(r, r2, t), Balance(s2), NoneEarly(s2), r2 \in Replies,
           r2.t \in {0, t}, r2.t = 0 <=> r2.phase = "idle",
           r2.phase = "hook" => r2.op = 0,
           Good(s2.tx[t], Situation(s2, r2, t))
    PROVE  WF(s2, r2)
<1>1. Else(s2, r2, t)
    BY ElseBeside
<1>2. Numbers(s2) = Numbers(s)
    BY BesideFields
<1>3. ReplyOK(s2, r2)
    BY <1>2 DEF ReplyOK
<1> QED
    BY <1>1, <1>3, ElseWF

\* How the situation of t differs after it
LEMMA BesideSituation ==
    ASSUME NEW s, NEW r, NEW t, NEW s2, NEW r2, Beside(s, s2, t), NEW e, e = Situation(s, r, t),
           NEW f, f = Situation(s2, r2, t)
    PROVE  /\ f.loaded = e.loaded /\ f.misled = e.misled /\ (f.balanced => e.balanced)
           /\ f.open = e.open /\ (e.lost => f.lost) /\ f.queued = e.queued
           /\ (e.balanced => ~e.misled) /\ (f.balanced => ~f.misled)
           /\ (e.balanced => Counted(s))
           /\ (r2.t = t => f.phase = r2.phase) /\ (r2.t # t => f.phase = "idle") /\ f.op = r2.op
           /\ (r.t = t => e.phase = r.phase) /\ (r.t # t => e.phase = "idle") /\ e.op = r.op
<1>1. s.lost \subseteq s2.lost
    BY DEF Beside
<1>2. /\ s2.cur = s.cur /\ s2.loaded = s.loaded
      /\ s2.misled = s.misled /\ (Counted(s2) => Counted(s)) /\ Queued(s2) = Queued(s)
    BY BesideFields
<1>3. (t \in s.lost => t \in s2.lost) /\ (t \in Queued(s2)) = (t \in Queued(s))
    BY <1>1, <1>2
<1>4. /\ e.loaded = s.loaded /\ e.misled = s.misled /\ (e.balanced <=> Counted(s))
      /\ e.open = (s.cur = t) /\ e.queued = (t \in Queued(s)) /\ (e.lost <=> t \in s.lost) /\ e.op = r.op
      /\ e.phase = IF r.t = t THEN r.phase ELSE "idle"
    BY DEF Situation, Counted
<1>5. /\ f.loaded = s2.loaded /\ f.misled = s2.misled /\ (f.balanced <=> Counted(s2))
      /\ f.open = (s2.cur = t) /\ f.queued = (t \in Queued(s2)) /\ (f.lost <=> t \in s2.lost) /\ f.op = r2.op
      /\ f.phase = IF r2.t = t THEN r2.phase ELSE "idle"
    BY DEF Situation, Counted
<1>6. (Counted(s) => ~s.misled) /\ (Counted(s2) => ~s2.misled)
    BY DEF Counted
<1> QED
    BY <1>2, <1>3, <1>4, <1>5, <1>6

\* An operation is answered.
IsAnswered(s, s2, t, op) == s2 = [s EXCEPT !.tx[t].got[op] = @ + 1]

\* One answer more for an operation
OneMore(g, h, op) == h = [g EXCEPT ![op] = @ + 1]

\* It changes nothing else
LEMMA AnsweredEffect ==
    ASSUME NEW s \in Manager, NEW t \in Numbers(s), NEW op \in DOMAIN s.tx[t].got, NEW s2,
           IsAnswered(s, s2, t, op)
    PROVE  /\ Beside(s, s2, t) /\ s2.prompts = s.prompts /\ s2.unbalanced = s.unbalanced /\ s2.lost = s.lost
           /\ Same(s.tx[t], s2.tx[t]) /\ s2.tx[t].flags = s.tx[t].flags
           /\ s2.tx[t].armed = s.tx[t].armed /\ s2.tx[t].flight = s.tx[t].flight
           /\ OneMore(s.tx[t].got, s2.tx[t].got, op)
           /\ DOMAIN s2.tx[t].got = DOMAIN s.tx[t].got
<1> DEFINE x == s.tx[t]
           g == [x.got EXCEPT ![op] = @ + 1]
           y == [x EXCEPT !.got = g]
<1>1. x \in Tx
    BY ManagerFields
<1>2. g \in Seq(Nat) /\ g # <<>> /\ DOMAIN g = DOMAIN x.got
  <2>1. x.got \in Seq(Nat) /\ x.got # <<>>
      BY <1>1, TxFields
  <2> DEFINE q == x.got
  <2>2. op \in DOMAIN q /\ q \in Seq(Nat) /\ q # <<>> /\ g = [q EXCEPT ![op] = q[op] + 1]
      BY <2>1
  <2> HIDE DEF q, g
  <2>3. q[op] + 1 \in Nat
    <3>1. \A w \in Seq(Nat) : \A o \in DOMAIN w : w[o] \in Nat
        OBVIOUS
    <3>2. q[op] \in Nat
        BY <2>2, <3>1
    <3> QED
        BY <3>2
  <2>4. g \in Seq(Nat) /\ DOMAIN g = DOMAIN q
      BY <2>2, <2>3
  <2> QED
      BY <2>2, <2>4 DEF q
<1>3. IsPut(s, s2, t, y)
    BY DEF IsPut, IsAnswered
<1>4. OneMore(s.tx[t].got, g, op) /\ DOMAIN g = DOMAIN s.tx[t].got
    BY <1>2 DEF OneMore
<1> HIDE DEF x, g
<1>5. /\ y \in Tx /\ Same(x, y) /\ y.flags = x.flags /\ y.armed = x.armed /\ y.flight = x.flight
      /\ y.got = g
    BY <1>1, <1>2 DEF Tx, Same
<1> HIDE DEF y
<1>6. /\ Beside(s, s2, t) /\ s2.tx[t] = y
      /\ s2.prompts = s.prompts /\ s2.unbalanced = s.unbalanced /\ s2.lost = s.lost
    BY <1>3, <1>5, ReplacedBeside
<1> QED
    BY <1>4, <1>5, <1>6 DEF x

\* The callback of an operation is called in the reply loop.
LEMMA OperationAnswered ==
    ASSUME NEW s, NEW r, NEW t, InReply(s, r, t), r.op + 1 <= Len(s.tx[t].got),
           "suspended" \notin s.tx[t].flags, "abort" \notin s.tx[t].flags,
           NEW s2, IsAnswered(s, s2, t, r.op + 1), NEW r2, r2 \in Replies, r2.t = t,
           r2.phase = "callback", r2.op = r.op + 1
    PROVE  WF(s2, r2) /\ Steps(s, s2, t)
<1> DEFINE x == s.tx[t]
           y == s2.tx[t]
           e == Situation(s, r, t)
           f == Situation(s2, r2, t)
           op == r.op + 1
<1>0. /\ s \in Manager /\ t \in Numbers(s) /\ s.cur \in {0} \cup Numbers(s)
      /\ Balance(s) /\ NoneEarly(s) /\ Else(s, r, t) /\ Ready(x, e) /\ r.t = t /\ r.op \in Nat
      /\ r.phase = "callback" /\ ReplyOK(s, r)
    BY DEF InReply, Else, Typed, ReplyOK, Replies
<1>1. x \in Tx /\ t # 0 /\ x.got \in Seq(Nat)
    BY <1>0, ManagerFields, TxFields
<1>2. op \in DOMAIN x.got
    BY <1>0, <1>1
<1>3. /\ Beside(s, s2, t) /\ s2.prompts = s.prompts
      /\ Same(x, y) /\ y.flags = x.flags /\ y.armed = x.armed /\ y.flight = x.flight
      /\ y.got = [x.got EXCEPT ![op] = @ + 1] /\ s2.lost = s.lost /\ s2.unbalanced = s.unbalanced
  <2>1. /\ Beside(s, s2, t) /\ s2.prompts = s.prompts
        /\ Same(x, y) /\ y.flags = x.flags /\ y.armed = x.armed /\ y.flight = x.flight
        /\ OneMore(x.got, y.got, op) /\ s2.lost = s.lost /\ s2.unbalanced = s.unbalanced
      BY <1>0, <1>2, AnsweredEffect
  <2> QED
      BY <2>1 DEF OneMore
<1>4. /\ f.loaded = e.loaded /\ f.misled = e.misled /\ (f.balanced => e.balanced)
      /\ f.open = e.open /\ (e.lost => f.lost) /\ f.queued = e.queued
      /\ f.phase = e.phase /\ f.op = op /\ e.op = r.op
    BY <1>0, <1>3, BesideSituation
<1>5. f.lost = e.lost /\ f.balanced = e.balanced
  <2>1. s2.misled = s.misled
      BY <1>3, BesideFields
  <2> QED
      BY <1>3, <2>1 DEF Situation
<1>6. Good(y, f)
  <2>1. "suspended" \notin x.flags /\ "abort" \notin x.flags
      OBVIOUS
  <2>2. e.op \in Nat /\ e.op + 1 \in DOMAIN x.got /\ f.op = e.op + 1 /\ y.got = [x.got EXCEPT ![e.op + 1] = @ + 1]
      BY <1>0, <1>2, <1>3, <1>4
  <2> HIDE DEF x, y, e, f
  <2> QED
      BY <1>0, <1>1, <1>3, <1>4, <1>5, <2>1, <2>2, AnswerIsGood
<1>7. Balance(s2) /\ NoneEarly(s2)
    BY <1>0, <1>3, BalanceKept
<1>8. WF(s2, r2)
  <2>1. Apart(r, r2, t)
      BY <1>0 DEF Apart
  <2> QED
      BY <1>0, <1>1, <1>3, <1>6, <1>7, <2>1, OneStep
<1>9. Steps(s, s2, t)
  <2> DEFINE b == s2.misled
  <2>1. StepTx(x, y, b, TRUE)
    <3> HIDE DEF x, y, b, op
    <3>1. DOMAIN y.got = DOMAIN x.got
        BY <1>3
    <3>2. y.flight <= x.flight
      <4>1. x.flight \in Nat
          BY <1>1, TxFields
      <4> QED
          BY <1>3, <4>1
    <3> QED
        BY <1>1, <1>3, <3>1, <3>2, StepOwn
  <2>2. StepTx(x, y, b, t = t)
      BY <2>1
  <2> QED
      BY <1>0, <1>3, <2>2, StepsBeside
<1> QED
    BY <1>8, <1>9

\* The status of the operation says that a new login is needed.
LEMMA OperationRefused ==
    ASSUME NEW s, NEW r, NEW t, InReply(s, r, t),
           "suspended" \notin s.tx[t].flags, "abort" \notin s.tx[t].flags,
           NEW s2, s2 = IF IsLive(s, t) THEN SuspendTransaction(StopTimer(s, t), t) ELSE s,
           NEW r2, r2 \in Replies, r2.t = t, r2.phase = "callback", r2.op = r.op + 1
    PROVE  WF(s2, r2) /\ Steps(s, s2, t)
<1> DEFINE x == s.tx[t]
           e == Situation(s, r, t)
           y == s2.tx[t]
           f == Situation(s2, r2, t)
<1>0. /\ s \in Manager /\ t \in Numbers(s) /\ s.cur \in {0} \cup Numbers(s)
      /\ Balance(s) /\ NoneEarly(s) /\ Else(s, r, t) /\ Ready(x, e) /\ r.t = t /\ r.op \in Nat
      /\ r.phase = "callback" /\ ReplyOK(s, r)
    BY DEF InReply, Else, Typed, ReplyOK, Replies
<1>1. x \in Tx /\ t # 0 /\ x.got \in Seq(Nat)
    BY <1>0, ManagerFields, TxFields
<1>2. Apart(r, r2, t)
    BY <1>0 DEF Apart
<1>3. CASE IsLive(s, t)
  <2> DEFINE s1 == StopTimer(s, t)
  <2>1. s2 = SuspendTransaction(s1, t) /\ s1 = StopTimer(s, t)
      BY <1>3
  <2> HIDE DEF s1
  <2>2. /\ Beside(s, s1, t)
        /\ s1.prompts = s.prompts
        /\ Same(x, s1.tx[t]) /\ s1.tx[t].got = x.got
        /\ s1.tx[t].flags = x.flags /\ s1.tx[t].flight = x.flight
      BY <1>0, <2>1, StopTimerEffect
  <2>3. s1 \in Manager /\ Numbers(s1) = Numbers(s) /\ s1.cur = s.cur /\ s1.loaded = s.loaded
        /\ (Counted(s1) => Counted(s))
      BY <2>2, BesideFields
  <2>4. Balance(s1) /\ NoneEarly(s1)
      BY <1>0, <2>2, BalanceKept
  <2>5. PromptCounted(s1, s1.tx[t])
    <3>1. PromptCounted(s, x)
        BY ReadyIsCounted
    <3> HIDE DEF x
    <3> QED
        BY <2>2, <2>3, <3>1 DEF PromptCounted, Same
  <2>6. /\ Beside(s1, s2, t) /\ Balance(s2) /\ NoneEarly(s2)
        /\ Same(s1.tx[t], y) /\ y.got = s1.tx[t].got /\ y.flight = s1.tx[t].flight
        /\ \/ "suspended" \in s1.tx[t].flags /\ y.flags = s1.tx[t].flags
           \/ "suspended" \notin s1.tx[t].flags /\ y.flags = SuspendedFlags(s1.tx[t])
      BY <1>0, <2>1, <2>3, <2>4, <2>5, SuspendEffect
  <2>7. Beside(s, s2, t)
      BY <1>0, <2>2, <2>6, BesideTransitive
  <2>8. Same(x, y) /\ y.got = x.got /\ y.flight = x.flight /\ y.flags = SuspendedFlags(x)
      BY <2>2, <2>6 DEF Same, SuspendedFlags
  <2>9. /\ f.loaded = e.loaded /\ f.misled = e.misled /\ (f.balanced => e.balanced)
        /\ f.open = e.open /\ (e.lost => f.lost) /\ f.queued = e.queued /\ f.phase = e.phase
        /\ (f.balanced => ~f.misled)
      BY <1>0, <2>7, BesideSituation
  <2>10. "suspended" \notin x.flags /\ "cleared" \notin x.flags
      BY <1>3 DEF IsLive, Has
  <2>11. Good(y, f)
    <3> HIDE DEF x, y, e, f
    <3>1. Good(x, e)
        BY <1>0, <2>10, ReadyIsGood
    <3>2. Around(e, f)
        BY <2>9 DEF Around
    <3>3. Sound(x, e) /\ "submitted" \in x.flags
        BY <1>0, <3>1 DEF Good, Ready
    <3>4. y.flags = LET g == x.flags \cup {"suspended"}
                                       \cup IF "replying" \in x.flags THEN {"abort"} ELSE {}
                    IN IF ~x.prompt \/ "clearedPrompt" \in x.flags THEN g
                       ELSE (g \cup {"clearedPrompt"}) \ {"shown"}
        BY <2>8 DEF SuspendedFlags
    <3> QED
        BY <2>8, <2>9, <2>10, <3>2, <3>3, <3>4, SuspendedIsGood
  <2>12. WF(s2, r2)
      BY <1>0, <1>1, <1>2, <2>6, <2>7, <2>11, OneStep
  <2>13. Steps(s, s2, t)
    <3> DEFINE b == s2.misled
    <3>1. StepTx(x, y, b, TRUE)
      <4> HIDE DEF x, y, b
      <4>1. /\ "withdrawn" \in x.flags => "withdrawn" \in y.flags
            /\ "cleared" \in x.flags => "cleared" \in y.flags
          BY <2>8 DEF SuspendedFlags
      <4>2. y.flight <= x.flight
        <5>1. x.flight \in Nat
            BY <1>1, TxFields
        <5> QED
            BY <2>8, <5>1
      <4> QED
          BY <1>1, <2>8, <4>1, <4>2, StepOwn
    <3>2. StepTx(x, y, b, t = t)
        BY <3>1
    <3> QED
        BY <1>0, <2>7, <3>2, StepsBeside
  <2> QED
      BY <2>12, <2>13
<1>4. CASE ~IsLive(s, t)
  <2>1. s2 = s /\ y = x
      BY <1>4
  <2>2. Beside(s, s2, t)
      BY <1>0, <2>1, BesideReflexive
  <2>3. "cleared" \in x.flags
      BY <1>0, <1>4 DEF IsLive, Has
  <2>4. /\ f.loaded = e.loaded /\ f.misled = e.misled /\ f.balanced = e.balanced
        /\ f.open = e.open /\ f.lost = e.lost /\ f.queued = e.queued /\ f.phase = e.phase
        /\ f.op = e.op + 1 /\ e.op \in Nat
      BY <1>0, <2>1 DEF Situation
  <2>5. "suspended" \notin x.flags /\ "abort" \notin x.flags
      OBVIOUS
  <2>6. Good(x, f)
    <3> HIDE DEF x, y, e, f
    <3> QED
        BY <1>0, <1>1, <2>3, <2>4, <2>5, UnansweredIsGood
  <2>7. WF(s2, r2)
      BY <1>0, <1>1, <1>2, <2>1, <2>2, <2>6, OneStep
  <2> QED
      BY <1>0, <2>1, <2>7, StepsReflexive
<1> QED
    BY <1>3, <1>4

\* The reply loop goes on
LEMMA PerformIsGood ==
    ASSUME NEW s, NEW r, InReply(s, r, r.t), Perform(s, r)
    PROVE  WF(mgr', reply') /\ Steps(s, mgr', r.t)
<1> DEFINE t == r.t
           op == r.op + 1
           x == s.tx[t]
<1>0. r \in Replies /\ r.phase = "callback" /\ r.op \in Nat
    BY DEF InReply, ReplyOK, Replies
<1>1. CASE op <= Len(x.got) /\ {"suspended", "abort"} \cap x.flags = {}
  <2>1. reply' = [r EXCEPT !.op = op]
      BY <1>1 DEF Perform
  <2>2. /\ reply' \in Replies /\ reply'.t = t /\ reply'.phase = "callback" /\ reply'.op = r.op + 1
      BY <1>0, <2>1 DEF Replies
  <2>3. "suspended" \notin x.flags /\ "abort" \notin x.flags
      BY <1>1
  <2>4. CASE op # r.relogin
    <3>1. mgr' = [s EXCEPT !.tx[t].got[op] = @ + 1]
        BY <1>1, <2>4 DEF Perform
    <3>2. IsAnswered(s, mgr', t, r.op + 1)
        BY <3>1 DEF IsAnswered
    <3>3. r.op + 1 <= Len(s.tx[t].got)
        BY <1>1
    <3> QED
        BY <2>2, <2>3, <3>2, <3>3, OperationAnswered
  <2>5. CASE op = r.relogin
    <3>1. mgr' = IF IsLive(s, t) THEN SuspendTransaction(StopTimer(s, t), t) ELSE s
        BY <1>1, <2>5 DEF Perform
    <3> QED
        BY <2>2, <2>3, <3>1, OperationRefused
  <2> QED
      BY <2>4, <2>5
<1>2. CASE ~(op <= Len(x.got) /\ {"suspended", "abort"} \cap x.flags = {})
  <2>1. mgr' = FinishedReply(s, t) /\ reply' = Idle
      BY <1>2 DEF Perform
  <2>2. ~(r.op + 1 <= Len(s.tx[t].got) /\ {"suspended", "abort"} \cap s.tx[t].flags = {})
      BY <1>2
  <2> QED
      BY <2>1, <2>2, FinishedReplyIsGood
<1> QED
    BY <1>1, <1>2

\* Of a transaction that is not cleared an answer is nothing special.
LEMMA StepsUncleared ==
    ASSUME NEW s, NEW s2, NEW t \in Numbers(s), Steps(s, s2, t), "cleared" \notin s.tx[t].flags
    PROVE  Steps(s, s2, 0)
<1>1. ASSUME NEW u \in Numbers(s) PROVE StepTx(s.tx[u], s2.tx[u], s2.misled, u = 0)
  <2>1. StepTx(s.tx[u], s2.tx[u], s2.misled, u = t)
      BY DEF Steps
  <2>2. CASE u = t
      BY <2>1, <2>2 DEF StepTx
  <2>3. CASE u # t
      BY <2>1, <2>3 DEF StepTx
  <2> QED
      BY <2>2, <2>3
<1> QED
    BY <1>1 DEF Steps

\* The reply begins
LEMMA BeginReplyIsGood ==
    ASSUME NEW s, NEW t \in Numbers(s), Else(s, Idle, t), Sound(s.tx[t], Situation(s, Idle, t)),
           "submitted" \in s.tx[t].flags, NEW relogin \in Nat, BeginReply(s, t, relogin)
    PROVE  WF(mgr', reply') /\ Steps(s, mgr', 0)
<1> DEFINE s1 == StopTimer(s, t)
           x == s.tx[t]
           e == Situation(s, Idle, t)
           x1 == s1.tx[t]
<1>0. /\ s \in Manager /\ s.cur \in {0} \cup Numbers(s) /\ Balance(s) /\ NoneEarly(s)
    BY DEF Else, Typed
<1>1. x \in Tx /\ t # 0 /\ t \in Nat /\ x.got \in Seq(Nat) /\ x.flight \in Nat
    BY <1>0, ManagerFields, TxFields
<1>2. Idle.phase = "idle" /\ Idle.t = 0 /\ Idle \in Replies /\ Idle.op = 0
    BY DEF Idle, Replies, Phases
<1>3. /\ Beside(s, s1, t) /\ s1.prompts = s.prompts
      /\ Same(x, x1) /\ x1.got = x.got /\ x1.flags = x.flags /\ x1.flight = x.flight
  <2>1. s1 = StopTimer(s, t)
      OBVIOUS
  <2> HIDE DEF s1
  <2> QED
      BY <1>0, <2>1, StopTimerEffect
<1>4. \/ IsLive(s, t) /\ Perform(Flag(s1, t, {"replying"}),
                    [t |-> t, op |-> 0, relogin |-> relogin, phase |-> "callback"])
      \/ ~IsLive(s, t) /\ mgr' = s1 /\ reply' = Idle
    BY DEF BeginReply
<1> HIDE DEF s1
<1>5. s1 \in Manager /\ Numbers(s1) = Numbers(s) /\ s1.cur = s.cur /\ s1.misled = s.misled
    BY <1>3, BesideFields
<1>6. Balance(s1) /\ NoneEarly(s1)
    BY <1>0, <1>3, BalanceKept
<1>7. Steps(s, s1, 0)
  <2> DEFINE b == s1.misled
             own == t = 0
  <2>1. StepTx(x, x1, b, own)
    <3> HIDE DEF x, x1, b, own
    <3> QED
        BY <1>1, <1>3, StepTxReflexive
  <2> QED
      BY <1>0, <1>3, <2>1, StepsBeside
<1>8. CASE ~IsLive(s, t)
  <2> DEFINE f == Situation(s1, Idle, t)
  <2>1. "cleared" \in x.flags
      BY <1>8 DEF IsLive, Has
  <2>2. /\ f.loaded = e.loaded /\ f.misled = e.misled /\ (f.balanced => e.balanced)
        /\ f.open = e.open /\ (e.lost => f.lost) /\ f.phase = e.phase /\ f.op = e.op
      BY <1>1, <1>2, <1>3, BesideSituation
  <2>3. Good(x1, f)
    <3> HIDE DEF x, x1, e, f
    <3>1. Sound(x, e) /\ "submitted" \in x.flags
        BY DEF x, e
    <3> QED
        BY <1>3, <2>1, <2>2, <3>1, GoneIsGood
  <2>4. Apart(Idle, Idle, t)
      BY DEF Apart
  <2>5. WF(s1, Idle)
    <3>1. Else(s1, Idle, t)
        BY <1>3, <1>6, <2>4, ElseBeside
    <3>2. ReplyOK(s1, Idle)
        BY <1>2 DEF ReplyOK
    <3> QED
        BY <2>3, <3>1, <3>2, ElseWF
  <2> QED
      BY <1>4, <1>7, <1>8, <2>5
<1>9. CASE IsLive(s, t)
  <2> DEFINE s2 == Flag(s1, t, {"replying"})
             r == [t |-> t, op |-> 0, relogin |-> relogin, phase |-> "callback"]
             set == {"replying"}
             f == Situation(s2, r, t)
             y == s2.tx[t]
  <2>1. Perform(s2, r)
      BY <1>4, <1>9
  <2>2. set \in SUBSET Flags /\ s2 = Flag(s1, t, set) /\ set = {"replying"}
      BY DEF Flags
  <2>3. r \in Replies /\ r.t = t /\ r.op = 0 /\ r.phase = "callback"
      BY <1>1 DEF Replies, Phases
  <2> HIDE DEF s2, r, set
  <2>4. /\ Beside(s1, s2, t) /\ s2.prompts = s1.prompts
        /\ Marked(x1, y) /\ y.flags = x1.flags \cup set
      BY <1>5, <2>2, FlagEffect
  <2>5. Beside(s, s2, t)
      BY <1>0, <1>3, <2>4, BesideTransitive
  <2>6. Balance(s2) /\ NoneEarly(s2)
    <3>1. "shown" \in s2.tx[t].flags <=> "shown" \in s1.tx[t].flags
        BY <2>2, <2>4
    <3> QED
        BY <1>5, <1>6, <2>4, <3>1, BalanceKept
  <2>7. Numbers(s2) = Numbers(s) /\ s2 \in Manager /\ s2.misled = s.misled
      BY <2>5, BesideFields
  <2>8. Same(x, y) /\ y.got = x.got /\ y.flight = x.flight /\ y.flags = x.flags \cup {"replying"}
      BY <1>3, <2>2, <2>4 DEF Marked, Same
  <2>9. "cleared" \notin x.flags
      BY <1>9 DEF IsLive, Has
  <2>10. Apart(Idle, r, t)
      BY <1>2, <2>3 DEF Apart
  <2>11. Else(s2, r, t)
      BY <2>5, <2>6, <2>10, ElseBeside
  <2>12. /\ f.loaded = e.loaded /\ f.misled = e.misled /\ (f.balanced => e.balanced)
         /\ f.open = e.open /\ (e.lost => f.lost) /\ f.phase = "callback" /\ f.op = 0
         /\ e.phase = "idle"
      BY <1>1, <1>2, <2>3, <2>5, BesideSituation
  <2>13. Ready(y, f)
    <3>1. Sound(x, e) /\ "submitted" \in x.flags
        OBVIOUS
    <3> HIDE DEF x, y, e, f
    <3> QED
        BY <1>1, <2>8, <2>9, <2>12, <3>1, StartsReady
  <2>14. ReplyOK(s2, r)
      BY <1>1, <2>3, <2>7 DEF ReplyOK
  <2>15. InReply(s2, r, r.t)
      BY <2>3, <2>7, <2>11, <2>13, <2>14 DEF InReply
  <2>16. WF(mgr', reply') /\ Steps(s2, mgr', t)
      BY <2>1, <2>3, <2>15, PerformIsGood
  <2>17. mgr' \in Manager
      BY <2>16 DEF WF, Typed
  <2>18. "cleared" \notin y.flags
      BY <2>8, <2>9
  <2>19. Steps(s2, mgr', 0)
      BY <2>7, <2>16, <2>18, StepsUncleared
  <2>20. Steps(s, s2, 0)
    <3> DEFINE b == s2.misled
               own == t = 0
    <3>1. StepTx(x, y, b, own)
      <4> HIDE DEF x, y, b, own
      <4>1. \A op \in DOMAIN x.got : x.got[op] \in Nat
          BY <1>1
      <4>2. x.flight <= x.flight
          BY <1>1
      <4>3. \A op \in DOMAIN x.got : x.got[op] <= x.got[op]
          BY <4>1
      <4> QED
          BY <2>8, <4>2, <4>3 DEF StepTx
    <3> QED
        BY <1>0, <2>5, <3>1, StepsBeside
  <2> QED
      BY <1>0, <2>7, <2>16, <2>17, <2>19, <2>20, StepsTransitive
<1> QED
    BY <1>8, <1>9

--------------------------------------------------------------------------------
(* The actions that concern no single transaction *)

(* The actions *)

\* What every action does
Progress == WF(mgr', reply') /\ Steps(mgr, mgr', reply.t)

\* A step that answers no cleared transaction
LEMMA ProgressAny ==
    ASSUME WF(mgr, reply), WF(mgr', reply'), Steps(mgr, mgr', 0)
    PROVE  Progress
<1>1. mgr \in Manager
    BY DEF WF, Typed
<1> QED
    BY <1>1, StepsAny DEF Progress

\* A field that no transaction is judged by
IsSet(s, s2) ==
    \/ \E b \in BOOLEAN : s2 = [s EXCEPT !.queuing = b]
    \/ \E n \in Nat : s2 = [s EXCEPT !.disturbances = n]
    \/ \E n \in Nat : s2 = [s EXCEPT !.disturbances = n, !.netUp = FALSE, !.onLine = FALSE]
    \/ s2 = [s EXCEPT !.netUp = TRUE, !.playback = TRUE]

\* The other fields
LEMMA SetFields ==
    ASSUME NEW s \in Manager, NEW s2, IsSet(s, s2)
    PROVE  Untouched(s, s2) /\ s2.cur = s.cur /\ s2.log = s.log /\ s2.later = s.later
BY DEF Manager, IsSet, Untouched

\* It may be set
LEMMA SetIsGood ==
    ASSUME NEW s, NEW r, WF(s, r), NEW s2, IsSet(s, s2)
    PROVE  /\ WF(s2, r) /\ \A m : Steps(s, s2, m)
           /\ s2.cur = s.cur /\ s2.tx = s.tx /\ Numbers(s2) = Numbers(s) /\ s2.loaded = s.loaded
<1>1. s \in Manager
    BY DEF WF, Typed
<1>2. Untouched(s, s2) /\ s2.cur = s.cur /\ s2.log = s.log /\ s2.later = s.later
    BY <1>1, SetFields
<1>3. s2.tx = s.tx /\ s2.loaded = s.loaded /\ Numbers(s2) = Numbers(s)
    BY <1>2 DEF Untouched, Numbers
<1> QED
    BY <1>2, <1>3, UntouchedWF

\* A disturbance is counted
LEMMA DisturbedIsGood ==
    ASSUME NEW s, NEW r, WF(s, r), NEW s2, s2 = Disturbed(s)
    PROVE  /\ WF(s2, r) /\ \A m : Steps(s, s2, m)
           /\ s2.cur = s.cur /\ s2.tx = s.tx /\ Numbers(s2) = Numbers(s) /\ s2.loaded = s.loaded
<1>1. s.disturbances + 1 \in Nat
  <2>1. s \in Manager
      BY DEF WF, Typed
  <2>2. s.disturbances \in Nat
      BY <2>1, ManagerFields
  <2> QED
      BY <2>2
<1>2. IsSet(s, s2)
    BY <1>1 DEF IsSet, Disturbed
<1> QED
    BY <1>2, SetIsGood

\* startQueue
LEMMA StartQueueStep ==
    ASSUME WF(mgr, reply), StartQueue
    PROVE  Progress
<1>1. IsSet(mgr, mgr') /\ reply' = reply
    BY DEF StartQueue, IsSet
<1> QED
    BY <1>1, SetIsGood DEF Progress

\* sendQueue
LEMMA SendQueueStep ==
    ASSUME WF(mgr, reply), SendQueue
    PROVE  Progress
<1>1. mgr' = SentQueue(mgr) /\ reply' = reply
    BY DEF SendQueue
<1>2. WF(mgr', reply) /\ Steps(mgr, mgr', 0)
    BY <1>1, SentQueueIsGood
<1> QED
    BY <1>1, <1>2, ProgressAny

\* handleLoginSuccess
LEMMA LoginSuccessStep ==
    ASSUME WF(mgr, reply), LoginSuccess
    PROVE  Progress
<1>1. mgr' = ResentAll(mgr, "suspended") /\ reply' = reply
    BY DEF LoginSuccess
<1>2. WF(mgr', reply) /\ Steps(mgr, mgr', 0)
    BY <1>1, SuspendedResent
<1> QED
    BY <1>1, <1>2, ProgressAny

\* resendTransaction
LEMMA ResendStep ==
    ASSUME WF(mgr, reply), NEW t \in Numbers(mgr), Resend(t)
    PROVE  Progress
<1>1. mgr' = Resubmitted(mgr, {t}) /\ reply' = reply /\ IsLive(mgr, t) /\ Has(mgr, t, "suspended")
    BY DEF Resend
<1>2. WF(mgr', reply) /\ Steps(mgr, mgr', 0)
    BY <1>1, OneResent
<1> QED
    BY <1>1, <1>2, ProgressAny

\* resendDelayedTransactions
LEMMA PageLoadStep ==
    ASSUME WF(mgr, reply), PageLoad
    PROVE  Progress
<1> DEFINE s == [mgr EXCEPT !.loaded = TRUE, !.delaying = FALSE]
<1>1. mgr' = ResentAll(s, "delayed") /\ reply = Idle /\ reply' = Idle /\ ~mgr.loaded
    BY DEF PageLoad
<1>2. IsLoaded(mgr, s)
    BY DEF IsLoaded
<1> HIDE DEF s
<1>3. WF(mgr', Idle) /\ Steps(mgr, mgr', 0)
    BY <1>1, <1>2, DelayedResent
<1> QED
    BY <1>1, <1>3, ProgressAny

\* goOffline
LEMMA GoOfflineStep ==
    ASSUME WF(mgr, reply), GoOffline
    PROVE  Progress
<1>1. mgr.disturbances + 1 \in Nat
  <2>1. mgr \in Manager
      BY DEF WF, Typed
  <2>2. mgr.disturbances \in Nat
      BY <2>1, ManagerFields
  <2> QED
      BY <2>2
<1>2. mgr' = [mgr EXCEPT !.disturbances = mgr.disturbances + 1, !.netUp = FALSE, !.onLine = FALSE]
  <2>1. mgr \in Manager
      BY DEF WF, Typed
  <2> QED
      BY <2>1 DEF GoOffline, Disturbed, Manager
<1>3. IsSet(mgr, mgr') /\ reply' = reply
    BY <1>1, <1>2 DEF GoOffline, IsSet
<1> QED
    BY <1>3, SetIsGood DEF Progress

\* goOnline
LEMMA GoOnlineStep ==
    ASSUME WF(mgr, reply), GoOnline
    PROVE  Progress
<1> DEFINE s == [mgr EXCEPT !.netUp = TRUE, !.playback = TRUE]
<1>1. mgr' = PlayedBack(s) /\ reply = Idle /\ reply' = Idle
    BY DEF GoOnline
<1>2. IsSet(mgr, s)
    BY DEF IsSet
<1> HIDE DEF s
<1>3. WF(s, Idle) /\ Steps(mgr, s, 0)
    BY <1>1, <1>2, SetIsGood
<1>4. WF(mgr', Idle) /\ Steps(s, mgr', 0)
    BY <1>1, <1>3, PlayedBackIsGood
<1>5. mgr \in Manager /\ s \in Manager /\ mgr' \in Manager
    BY <1>3, <1>4 DEF WF, Typed
<1>6. Steps(mgr, mgr', 0)
    BY <1>3, <1>4, <1>5, StepsTransitive
<1> QED
    BY <1>1, <1>4, <1>6, ProgressAny

\* The next round of the reply loop
LEMMA NextOperationStep ==
    ASSUME WF(mgr, reply), NextOperation
    PROVE  Progress
<1> DEFINE t == reply.t
           e == Situation(mgr, reply, t)
           x == mgr.tx[t]
<1>1. reply.phase = "callback" /\ Perform(mgr, reply)
    BY DEF NextOperation
<1>2. ReplyOK(mgr, reply) /\ t \in Numbers(mgr)
    BY <1>1 DEF WF, ReplyOK
<1>3. Good(x, e) /\ e.phase = "callback"
    BY <1>1, <1>2 DEF WF, Situation
<1>4. Ready(x, e)
  <2> HIDE DEF x, e
  <2> QED
      BY <1>3, GoodIsReady
<1>5. Else(mgr, reply, t)
    BY WFElse
<1>6. InReply(mgr, reply, reply.t)
    BY <1>1, <1>2, <1>4, <1>5 DEF InReply
<1> QED
    BY <1>1, <1>6, PerformIsGood DEF Progress

IsCalled(s, s2, q) == s2 = [s EXCEPT !.later = q]

\* A delayed call is taken
LEMMA CalledFields ==
    ASSUME NEW s \in Manager, NEW q \in Seq(Nat), NEW s2, IsCalled(s, s2, q)
    PROVE  Untouched(s, s2) /\ s2.cur = s.cur /\ s2.log = s.log /\ s2.later = q
BY DEF Manager, IsCalled, Untouched

\* The delayed call that answers client-only requests
LEMMA RunLaterStep ==
    ASSUME WF(mgr, reply), RunLater
    PROVE  Progress
<1> DEFINE t == Head(mgr.later)
           q == Tail(mgr.later)
           s == [mgr EXCEPT !.later = q]
<1>0. mgr \in Manager /\ mgr.later \in Seq(Nat)
    BY ManagerFields DEF WF, Typed
<1>1. reply = Idle /\ mgr.later # <<>> /\ BeginReply(s, t, 0)
    BY DEF RunLater
<1>2. t \in Nat /\ q \in Seq(Nat) /\ ToSet(mgr.later) = {t} \cup ToSet(q)
    BY <1>0, <1>1, HeadAndTail
<1>3. IsCalled(mgr, s, q)
    BY DEF IsCalled
<1> HIDE DEF t, q, s
<1>4. Untouched(mgr, s) /\ s.cur = mgr.cur /\ s.log = mgr.log /\ s.later = q
    BY <1>0, <1>2, <1>3, CalledFields
<1>5. Queued(mgr) = {t} \cup Queued(s)
    BY <1>2, <1>4 DEF Queued
<1>6. Taken(mgr, s, t)
    BY <1>4, <1>5 DEF Taken, Untouched
<1>7. t # 0 /\ reply.t # t
  <2>1. t \in Numbers(mgr)
      BY <1>5 DEF WF, Typed
  <2>2. t # 0
      BY <1>0, <2>1, ManagerFields
  <2> QED
      BY <1>1, <2>2 DEF Idle
<1>8. /\ t \in Numbers(mgr) /\ Numbers(s) = Numbers(mgr)
      /\ Typed(s) /\ ReplyOK(s, reply) /\ Balance(s) /\ Steps(mgr, s, 0)
      /\ \A v \in Numbers(mgr) :
           v # t \/ "cleared" \in mgr.tx[v].flags => Good(mgr.tx[v], Situation(s, reply, v))
      /\ Sound(mgr.tx[t], Situation(s, reply, t)) /\ "submitted" \in mgr.tx[t].flags
    BY <1>6, <1>7, TakenIsGood
<1>9. s.tx = mgr.tx /\ s \in Manager
    BY <1>4 DEF Untouched
<1>10. NoneEarly(s)
  <2>1. NoneEarly(mgr)
      BY WFElse DEF Else
  <2> QED
      BY <1>4, <2>1, UntouchedBalance
<1>11. Else(s, Idle, t)
    BY <1>1, <1>8, <1>9, <1>10 DEF Else
<1>12. Sound(s.tx[t], Situation(s, Idle, t)) /\ "submitted" \in s.tx[t].flags /\ t \in Numbers(s)
    BY <1>1, <1>8, <1>9
<1>13. WF(mgr', reply') /\ Steps(s, mgr', 0)
    BY <1>1, <1>11, <1>12, BeginReplyIsGood
<1>14. mgr' \in Manager
    BY <1>13 DEF WF, Typed
<1>15. Steps(mgr, mgr', 0)
    BY <1>0, <1>8, <1>9, <1>13, <1>14, StepsTransitive
<1> QED
    BY <1>13, <1>15, ProgressAny

--------------------------------------------------------------------------------
(* Cancelling *)

\* Its transaction is neither sent nor answered
LEMMA StepsOwn ==
    ASSUME NEW s \in Manager, NEW t \in Numbers(s), NEW s2, Beside(s, s2, t),
           "withdrawn" \in s.tx[t].flags => "withdrawn" \in s2.tx[t].flags,
           "cleared" \in s.tx[t].flags => "cleared" \in s2.tx[t].flags,
           s2.tx[t].flight <= s.tx[t].flight, s2.tx[t].got = s.tx[t].got
    PROVE  Steps(s, s2, 0)
<1> DEFINE x == s.tx[t]
           y == s2.tx[t]
           b == s2.misled
           own == t = 0
<1>1. x \in Tx
    BY ManagerFields
<1>2. x.got \in Seq(Nat)
    BY <1>1, TxFields
<1>3. StepTx(x, y, b, own)
  <2>1. /\ "withdrawn" \in x.flags => "withdrawn" \in y.flags
        /\ "cleared" \in x.flags => "cleared" \in y.flags
        /\ y.flight <= x.flight /\ y.got = x.got
      OBVIOUS
  <2> HIDE DEF x, y, b, own
  <2>2. \A op \in DOMAIN x.got : x.got[op] <= x.got[op]
      BY <1>2
  <2> QED
      BY <2>1, <2>2 DEF StepTx
<1> QED
    BY <1>3, StepsBeside

\* The balance of the prompts is given up at most.
IsExcused(s, s2, b) == s2 = [s EXCEPT !.unbalanced = b]

\* The other fields
LEMMA ExcusedFields ==
    ASSUME NEW s \in Manager, NEW b \in BOOLEAN, NEW s2, IsExcused(s, s2, b)
    PROVE  /\ s2 \in Manager /\ s2.tx = s.tx /\ s2.lost = s.lost /\ s2.prompts = s.prompts
           /\ s2.unbalanced = b /\ s2.cur = s.cur /\ s2.loaded = s.loaded /\ s2.delaying = s.delaying
           /\ s2.misled = s.misled /\ s2.log = s.log /\ s2.later = s.later
BY DEF Manager, IsExcused

\* No transaction notices
LEMMA ExcusedEffect ==
    ASSUME NEW s \in Manager, NEW t \in Numbers(s), NEW b \in BOOLEAN, s.unbalanced => b, NEW s2,
           IsExcused(s, s2, b)
    PROVE  /\ Beside(s, s2, t) /\ s2.tx = s.tx /\ s2.unbalanced = b
           /\ (Balance(s) /\ NoneEarly(s) => Balance(s2) /\ NoneEarly(s2))
<1>1. /\ s2 \in Manager /\ s2.tx = s.tx /\ s2.lost = s.lost /\ s2.prompts = s.prompts
      /\ s2.unbalanced = b /\ s2.cur = s.cur /\ s2.loaded = s.loaded /\ s2.delaying = s.delaying
      /\ s2.misled = s.misled /\ s2.log = s.log /\ s2.later = s.later
    BY ExcusedFields
<1>2. Beside(s, s2, t)
    BY <1>1 DEF Beside
<1>3. Balance(s) /\ NoneEarly(s) => Balance(s2) /\ NoneEarly(s2)
    BY <1>1, <1>2, BalanceKept
<1> QED
    BY <1>1, <1>2, <1>3

\* cancelQueue of the queue being filled
LEMMA CancelQueueStep ==
    ASSUME WF(mgr, reply), CancelQueue
    PROVE  Progress
<1> DEFINE c == mgr.cur
           set == {"withdrawn"}
           s1 == Disturbed(mgr)
           s2 == Flag(s1, c, set)
<1>0. c # 0 /\ mgr' = [s2 EXCEPT !.cur = 0] /\ reply' = reply
    BY DEF CancelQueue
<1>1. s1 = Disturbed(mgr) /\ s2 = Flag(s1, c, set) /\ set \in SUBSET Flags
    BY DEF Flags
<1> HIDE DEF s1, s2
<1>2. /\ WF(s1, reply) /\ Steps(mgr, s1, 0) /\ s1.cur = mgr.cur
    BY <1>1, DisturbedIsGood
<1>3. s1 \in Manager /\ mgr \in Manager /\ c \in Numbers(s1) /\ c # 0 /\ ReplyOK(s1, reply)
      /\ Balance(s1)
    BY <1>0, <1>2 DEF WF, Typed
<1>4. set = {"withdrawn"}
    OBVIOUS
<1> HIDE DEF set
<1>5. /\ Beside(s1, s2, c)
      /\ s2.prompts = s1.prompts /\ s2.unbalanced = s1.unbalanced /\ s2.lost = s1.lost
      /\ Marked(s1.tx[c], s2.tx[c]) /\ s2.tx[c].flags = s1.tx[c].flags \cup set
      /\ \A u \in Numbers(s1) \ {c} : s2.tx[u] = s1.tx[u]
    BY <1>1, <1>3, FlagEffect
<1>6. /\ s2 \in Manager /\ Numbers(s2) = Numbers(s1) /\ s2.loaded = s1.loaded
      /\ s2.misled = s1.misled /\ s2.delaying = s1.delaying /\ Queued(s2) = Queued(s1)
    BY <1>5, BesideFields
<1> DEFINE s3 == mgr'
<1>7. /\ s3 \in Manager /\ s3.tx = s2.tx /\ s3.prompts = s2.prompts /\ s3.loaded = s2.loaded
      /\ s3.delaying = s2.delaying /\ s3.misled = s2.misled /\ s3.unbalanced = s2.unbalanced
      /\ s3.lost = s2.lost /\ s3.cur = 0 /\ s3.log = s2.log /\ s3.later = s2.later
    BY <1>0, <1>6 DEF Manager
<1> HIDE DEF s3
<1>8. Numbers(s3) = Numbers(s2) /\ Queued(s3) = Queued(s2) /\ Steps(s2, s3, 0)
  <2>1. Queued(s3) = Queued(s2)
      BY <1>7 DEF Queued
  <2> QED
      BY <1>6, <1>7, <2>1, UntouchedSteps
<1>9. Typed(s3) /\ ReplyOK(s3, reply)
  <2>1. Typed(s3)
      BY <1>2, <1>5, <1>6, <1>7, <1>8 DEF WF, Typed
  <2>2. ReplyOK(s3, reply)
      BY <1>3, <1>6, <1>8 DEF ReplyOK
  <2> QED
      BY <2>1, <2>2
<1>10. Balance(s3)
  <2>1. \A u \in Numbers(s1) : "shown" \in s3.tx[u].flags <=> "shown" \in s1.tx[u].flags
      BY <1>4, <1>5, <1>7
  <2>2. Shown(s3) = Shown(s1)
      BY <1>6, <1>8, <2>1, ShownSame
  <2> QED
      BY <1>3, <1>5, <1>6, <1>7, <2>2 DEF Balance
<1>11. ASSUME NEW u \in Numbers(s1)
       PROVE  LET e == Situation(s1, reply, u)
                  f == Situation(s3, reply, u)
              IN /\ f.loaded = e.loaded /\ f.misled = e.misled /\ f.balanced = e.balanced
                 /\ f.queued = e.queued /\ f.lost = e.lost /\ f.phase = e.phase /\ f.op = e.op
                 /\ ~f.open /\ (u = c => e.open)
  <2>1. u # 0
      BY <1>3, ManagerFields
  <2> QED
      BY <1>2, <1>5, <1>6, <1>7, <1>8, <2>1 DEF Situation
<1>12. ASSUME NEW u \in Numbers(s3) PROVE Good(s3.tx[u], Situation(s3, reply, u))
  <2> DEFINE e == Situation(s1, reply, u)
             f == Situation(s3, reply, u)
             x == s1.tx[u]
             y == s3.tx[u]
  <2>1. u \in Numbers(s1)
      BY <1>6, <1>8
  <2>2. Good(x, e)
      BY <1>2, <2>1 DEF WF
  <2>3. /\ f.loaded = e.loaded /\ f.misled = e.misled /\ f.balanced = e.balanced
        /\ f.queued = e.queued /\ f.lost = e.lost /\ f.phase = e.phase /\ f.op = e.op
        /\ ~f.open /\ (u = c => e.open)
      BY <1>11, <2>1
  <2>4. CASE u = c
    <3>1. Marked(x, y) /\ y.flags = x.flags \cup {"withdrawn"}
        BY <1>4, <1>5, <1>7, <2>4
    <3> HIDE DEF e, f, x, y
    <3>2. Good(y, f)
        BY <2>2, <2>3, <2>4, <3>1, WithdrawnUnsentIsGood
    <3> QED
        BY <3>2 DEF y, f
  <2>5. CASE u # c
    <3>1. y = x
        BY <1>5, <1>7, <2>1, <2>5
    <3> HIDE DEF e, f, x, y
    <3>2. Good(x, f)
        BY <2>2, <2>3, GoodElsewhere
    <3> QED
        BY <3>1, <3>2 DEF y, f
  <2> QED
      BY <2>4, <2>5
<1>13. WF(s3, reply)
    BY <1>9, <1>10, <1>12 DEF WF
<1>14. Steps(s1, s2, 0)
  <2>1. s1.tx[c].flight \in Nat
    <3>1. s1.tx[c] \in Tx
        BY <1>3, ManagerFields
    <3> QED
        BY <3>1, TxFields
  <2>2. s2.tx[c].flight <= s1.tx[c].flight /\ s2.tx[c].got = s1.tx[c].got
      BY <1>5, <2>1 DEF Marked
  <2> QED
      BY <1>3, <1>5, <2>2, StepsOwn
<1>15. Steps(mgr, s3, 0)
    BY <1>2, <1>3, <1>6, <1>7, <1>8, <1>14, StepsTransitive
<1> QED
    BY <1>0, <1>13, <1>15, ProgressAny DEF s3

\* The prompt of a transaction that was sent is counted
LEMMA PromptOfGood ==
    ASSUME NEW s, NEW r, NEW t, Good(s.tx[t], Situation(s, r, t)), "submitted" \in s.tx[t].flags,
           "cleared" \notin s.tx[t].flags
    PROVE  PromptCounted(s, s.tx[t])
<1> DEFINE e == Situation(s, r, t)
           x == s.tx[t]
<1>1. (Counted(s) => e.balanced) /\ e.loaded = s.loaded
    BY DEF Situation, Counted
<1>2. PromptOK(x, e)
    BY DEF Good, Sound
<1> HIDE DEF e
<1> QED
    BY <1>1, <1>2, PromptIsCounted

\* cancelQueue of a transaction
LEMMA CancelTransactionStep ==
    ASSUME WF(mgr, reply), NEW t \in Numbers(mgr), CancelTransaction(t)
    PROVE  Progress
<1> DEFINE set == {"withdrawn"}
           s0 == Disturbed(mgr)
           s1 == ClearPrompt(s0, t)
           s2 == ClearTransaction(s1, t)
           s3 == Flag(s2, t, set)
           x == s0.tx[t]
<1>0. /\ mgr' = s3 /\ reply' = reply /\ IsLive(mgr, t) /\ Has(mgr, t, "submitted") /\ t # mgr.cur
    BY DEF CancelTransaction
<1>1. /\ s0 = Disturbed(mgr) /\ s1 = ClearPrompt(s0, t) /\ s2 = ClearTransaction(s1, t)
      /\ s3 = Flag(s2, t, set) /\ set \in SUBSET Flags
    BY DEF Flags
<1> HIDE DEF s0, s1, s2, s3
<1>2. set = {"withdrawn"}
    OBVIOUS
<1> HIDE DEF set
<1>3. /\ WF(s0, reply) /\ Steps(mgr, s0, 0) /\ s0.cur = mgr.cur /\ s0.tx = mgr.tx /\ Numbers(s0) = Numbers(mgr)
    BY <1>1, DisturbedIsGood
<1>4. /\ s0 \in Manager /\ mgr \in Manager /\ Else(s0, reply, t) /\ Balance(s0) /\ NoneEarly(s0)
      /\ s0.cur \in {0} \cup Numbers(s0) /\ ReplyOK(s0, reply) /\ t \in Numbers(s0)
  <2>1. Else(s0, reply, t)
      BY <1>3, WFElse
  <2> QED
      BY <1>3, <2>1 DEF Else, WF, Typed
<1>5. "submitted" \in x.flags /\ "cleared" \notin x.flags
    BY <1>0, <1>3 DEF IsLive, Has
<1>6. PromptCounted(s0, x)
    BY <1>3, <1>4, <1>5, PromptOfGood DEF WF
<1>7. /\ Beside(s0, s1, t) /\ Marked(x, s1.tx[t]) /\ s1.tx[t].flags = PromptFlags(x)
      /\ Balance(s1) /\ NoneEarly(s1)
    BY <1>1, <1>4, <1>6, ClearPromptEffect, ClearPromptBalance
<1>8. s1 \in Manager /\ Numbers(s1) = Numbers(s0) /\ s1.cur = s0.cur
    BY <1>7, BesideFields
<1>9. /\ Beside(s1, s2, t) /\ s2.prompts = s1.prompts
      /\ Same(s1.tx[t], s2.tx[t]) /\ s2.tx[t].got = s1.tx[t].got
      /\ s2.tx[t].flags = s1.tx[t].flags \cup {"cleared"} /\ s2.tx[t].flight = s1.tx[t].flight
    BY <1>1, <1>4, <1>8, ClearTransactionEffect
<1>10. s2 \in Manager /\ Numbers(s2) = Numbers(s0)
    BY <1>8, <1>9, BesideFields
<1>11. /\ Beside(s2, s3, t) /\ s3.prompts = s2.prompts
       /\ Marked(s2.tx[t], s3.tx[t]) /\ s3.tx[t].flags = s2.tx[t].flags \cup set
    BY <1>1, <1>4, <1>10, FlagEffect
<1>12. Balance(s3) /\ NoneEarly(s3)
  <2>1. "shown" \in s2.tx[t].flags <=> "shown" \in s1.tx[t].flags
      BY <1>9
  <2>2. Balance(s2) /\ NoneEarly(s2)
      BY <1>4, <1>7, <1>8, <1>9, <2>1, BalanceKept
  <2>3. "shown" \in s3.tx[t].flags <=> "shown" \in s2.tx[t].flags
      BY <1>2, <1>11
  <2> QED
      BY <1>4, <1>10, <1>11, <2>2, <2>3, BalanceKept
<1>13. Beside(s0, s3, t)
  <2>1. Beside(s0, s2, t)
      BY <1>4, <1>7, <1>9, BesideTransitive
  <2> QED
      BY <1>4, <1>11, <2>1, BesideTransitive
<1>14. /\ Same(x, s3.tx[t]) /\ s3.tx[t].got = x.got /\ s3.tx[t].flight = x.flight
       /\ s3.tx[t].flags = PromptFlags(x) \cup {"cleared", "withdrawn"}
    BY <1>2, <1>7, <1>9, <1>11 DEF Marked, Same
<1>15. Good(s3.tx[t], Situation(s3, reply, t))
  <2> DEFINE e == Situation(s0, reply, t)
             f == Situation(s3, reply, t)
             y == s3.tx[t]
  <2>1. /\ f.loaded = e.loaded /\ f.misled = e.misled /\ (f.balanced => e.balanced)
        /\ f.open = e.open /\ (e.lost => f.lost) /\ f.queued = e.queued
        /\ (f.balanced => ~f.misled) /\ f.op = e.op
      BY <1>13, BesideSituation
  <2>2. Good(x, e)
      BY <1>3, <1>4 DEF WF
  <2>3. ~e.open /\ f.phase = e.phase
      BY <1>0, <1>3 DEF Situation
  <2> HIDE DEF e, f, x, y
  <2>4. Kept(e, f)
      BY <2>1 DEF Kept
  <2>5. Good(y, f)
      BY <1>5, <1>14, <2>1, <2>2, <2>3, <2>4, CancelledIsGood DEF y
  <2> QED
      BY <2>5 DEF y, f
<1>16. WF(s3, reply)
  <2>1. Apart(reply, reply, t)
      BY DEF Apart
  <2>2. Else(s3, reply, t)
      BY <1>4, <1>12, <1>13, <2>1, ElseBeside
  <2>3. ReplyOK(s3, reply)
    <3>1. Numbers(s3) = Numbers(s0)
        BY <1>13, BesideFields
    <3> QED
        BY <1>4, <3>1 DEF ReplyOK
  <2> QED
      BY <1>15, <2>2, <2>3, ElseWF
<1>17. Steps(s0, s3, 0)
  <2>1. x.flight \in Nat
    <3>1. x \in Tx
        BY <1>4, ManagerFields
    <3> QED
        BY <3>1, TxFields
  <2>2. /\ "withdrawn" \in x.flags => "withdrawn" \in s3.tx[t].flags
        /\ "cleared" \in x.flags => "cleared" \in s3.tx[t].flags
        /\ s3.tx[t].flight <= x.flight
      BY <1>14, <2>1
  <2> QED
      BY <1>4, <1>13, <1>14, <2>2, StepsOwn
<1>18. Steps(mgr, s3, 0)
  <2>1. s3 \in Manager
      BY <1>16 DEF WF, Typed
  <2> QED
      BY <1>3, <1>4, <1>17, <2>1, StepsTransitive
<1> QED
    BY <1>0, <1>16, <1>18, ProgressAny

--------------------------------------------------------------------------------
(* Suspension, and the end of a callback *)

\* What a step that begins with WF relies on
LEMMA WFParts ==
    ASSUME NEW s, NEW r, WF(s, r), NEW t \in Numbers(s)
    PROVE  /\ s \in Manager /\ s.cur \in {0} \cup Numbers(s) /\ Balance(s) /\ NoneEarly(s)
           /\ ReplyOK(s, r) /\ Else(s, r, t) /\ Good(s.tx[t], Situation(s, r, t))
           /\ s.tx[t] \in Tx /\ t # 0 /\ s.tx[t].got \in Seq(Nat) /\ s.tx[t].flight \in Nat
<1>1. Else(s, r, t)
    BY WFElse
<1>2. s \in Manager
    BY DEF WF, Typed
<1>3. s.tx[t] \in Tx /\ t # 0
    BY <1>2, ManagerFields
<1>4. s.tx[t].got \in Seq(Nat) /\ s.tx[t].flight \in Nat
    BY <1>3, TxFields
<1> QED
    BY <1>1, <1>2, <1>3, <1>4 DEF WF, Typed, Else

\* The end of such a step: it concerned transaction t
LEMMA OwnStepWF ==
    ASSUME NEW s, NEW r, WF(s, r), NEW t \in Numbers(s), NEW s2, NEW r2, Beside(s, s2, t),
           Apart(r, r2, t), Balance(s2), NoneEarly(s2), ReplyOK(s2, r2),
           Good(s2.tx[t], Situation(s2, r2, t))
    PROVE  WF(s2, r2)
<1>1. Else(s, r, t)
    BY WFElse
<1>2. Else(s2, r2, t)
    BY <1>1, ElseBeside
<1> QED
    BY <1>2, ElseWF

\* suspendTransaction
LEMMA SuspendStep ==
    ASSUME WF(mgr, reply), NEW t \in Numbers(mgr), Suspend(t)
    PROVE  Progress
<1> DEFINE s == Disturbed(mgr)
           s2 == mgr'
           x == s.tx[t]
           y == s2.tx[t]
           e == Situation(s, reply, t)
           f == Situation(s2, reply, t)
<1>0. /\ s2 = SuspendTransaction(s, t) /\ reply' = reply /\ IsLive(mgr, t) /\ Has(mgr, t, "submitted")
    BY DEF Suspend
<1>1. s = Disturbed(mgr)
    OBVIOUS
<1> HIDE DEF s, s2
<1>2. WF(s, reply) /\ Steps(mgr, s, 0) /\ s.tx = mgr.tx /\ Numbers(s) = Numbers(mgr)
    BY <1>1, DisturbedIsGood
<1>3. /\ s \in Manager /\ s.cur \in {0} \cup Numbers(s) /\ Balance(s) /\ NoneEarly(s)
      /\ ReplyOK(s, reply) /\ Good(x, e) /\ t \in Numbers(s)
      /\ x \in Tx /\ x.got \in Seq(Nat) /\ x.flight \in Nat
    BY <1>2, WFParts
<1>4. "submitted" \in x.flags /\ "cleared" \notin x.flags
    BY <1>0, <1>2 DEF IsLive, Has
<1>5. PromptCounted(s, x)
    BY <1>3, <1>4, PromptOfGood
<1>6. /\ Beside(s, s2, t) /\ Balance(s2) /\ NoneEarly(s2)
      /\ Same(x, y) /\ y.got = x.got /\ y.flight = x.flight
      /\ \/ "suspended" \in x.flags /\ y.flags = x.flags
         \/ "suspended" \notin x.flags /\ y.flags = SuspendedFlags(x)
    BY <1>0, <1>3, <1>5, SuspendEffect
<1>7. /\ f.loaded = e.loaded /\ f.misled = e.misled /\ (f.balanced => e.balanced)
      /\ f.open = e.open /\ (e.lost => f.lost) /\ f.queued = e.queued
      /\ (f.balanced => ~f.misled)
    BY <1>6, BesideSituation
<1>8. f.phase = e.phase
    BY DEF Situation
<1>9. Good(y, f)
  <2> HIDE DEF x, y, e, f
  <2>1. Around(e, f) /\ Sound(x, e)
      BY <1>3, <1>7, <1>8 DEF Around, Good
  <2>2. SuspendedFlags(x) = LET g == x.flags \cup {"suspended"}
                                       \cup IF "replying" \in x.flags THEN {"abort"} ELSE {}
                            IN IF ~x.prompt \/ "clearedPrompt" \in x.flags THEN g
                               ELSE (g \cup {"clearedPrompt"}) \ {"shown"}
      BY DEF SuspendedFlags
  <2> QED
      BY <1>4, <1>6, <1>7, <2>1, <2>2, SuspendedIsGood
<1>10. Numbers(s2) = Numbers(s) /\ s2 \in Manager
    BY <1>6, BesideFields
<1>11. WF(s2, reply)
  <2>1. ReplyOK(s2, reply) /\ Apart(reply, reply, t)
      BY <1>3, <1>10 DEF ReplyOK, Apart
  <2> QED
      BY <1>2, <1>3, <1>6, <1>9, <2>1, OwnStepWF
<1>12. Steps(s, s2, 0)
  <2>1. /\ "withdrawn" \in x.flags => "withdrawn" \in y.flags
        /\ "cleared" \in x.flags => "cleared" \in y.flags
      BY <1>6 DEF SuspendedFlags
  <2>2. y.flight <= x.flight
      BY <1>3, <1>6
  <2> QED
      BY <1>3, <1>6, <2>1, <2>2, StepsOwn
<1>13. Steps(mgr, s2, 0)
  <2>1. mgr \in Manager
      BY DEF WF, Typed
  <2> QED
      BY <1>2, <1>3, <1>10, <1>12, <2>1, StepsTransitive
<1> QED
    BY <1>0, <1>11, <1>13, ProgressAny DEF s2

\* handleTransportError, or the like, has returned
LEMMA EndHookStep ==
    ASSUME WF(mgr, reply), EndHook
    PROVE  Progress
<1> DEFINE t == reply.t
           set == {"abort", "replying"}
           s == Unflag(mgr, t, set)
           x == mgr.tx[t]
           y == s.tx[t]
           e == Situation(mgr, reply, t)
           f == Situation(s, Idle, t)
<1>0. /\ reply.phase = "hook"
      /\ IF {"suspended", "abort"} \cap x.flags # {}
         THEN mgr' = s /\ reply' = Idle
         ELSE BeginReply(s, t, 0)
    BY DEF EndHook
<1>1. set \in SUBSET Flags /\ s = Unflag(mgr, t, set)
    BY DEF Flags
<1>2. set = {"abort", "replying"}
    OBVIOUS
<1> HIDE DEF s, set
<1>3. t \in Numbers(mgr) /\ reply.op = 0 /\ reply.t = t
    BY <1>0 DEF WF, ReplyOK
<1>4. /\ mgr \in Manager /\ mgr.cur \in {0} \cup Numbers(mgr) /\ Balance(mgr) /\ NoneEarly(mgr)
      /\ ReplyOK(mgr, reply) /\ Good(x, e) /\ Else(mgr, reply, t) /\ t # 0
      /\ x \in Tx /\ x.got \in Seq(Nat) /\ x.flight \in Nat
    BY <1>3, WFParts
<1>5. /\ Beside(mgr, s, t) /\ s.prompts = mgr.prompts /\ s.unbalanced = mgr.unbalanced /\ s.lost = mgr.lost
      /\ Marked(x, y) /\ y.flags = x.flags \ set
    BY <1>1, <1>3, <1>4, UnflagEffect
<1>6. s \in Manager /\ Numbers(s) = Numbers(mgr) /\ s.misled = mgr.misled
    BY <1>5, BesideFields
<1>7. Balance(s) /\ NoneEarly(s)
  <2>1. "shown" \in y.flags <=> "shown" \in x.flags
      BY <1>2, <1>5
  <2> QED
      BY <1>3, <1>4, <1>5, <2>1, BalanceKept
<1>8. Idle.t = 0 /\ Idle.phase = "idle" /\ Idle.op = 0 /\ Idle \in Replies
    BY DEF Idle, Replies, Phases
<1>9. /\ f.loaded = e.loaded /\ f.misled = e.misled
      /\ f.open = e.open /\ f.queued = e.queued /\ f.phase = "idle" /\ e.phase = "hook" /\ e.op = 0
  <2>1. Idle.t # t
      BY <1>4, <1>8
  <2>2. e = Situation(mgr, reply, t) /\ f = Situation(s, Idle, t)
      OBVIOUS
  <2>3. reply.t = t /\ Beside(mgr, s, t)
      BY <1>3, <1>5
  <2> HIDE DEF e, f, t
  <2> QED
      BY <1>0, <1>3, <1>8, <2>1, <2>2, <2>3, BesideSituation
<1>10. f.lost = e.lost /\ f.balanced = e.balanced
    BY <1>5, <1>6 DEF Situation
<1>11. /\ Sound(y, f) /\ "submitted" \in y.flags
       /\ "suspended" \in x.flags \/ "abort" \in x.flags => Good(y, f)
  <2> HIDE DEF x, y, e, f
  <2> QED
      BY <1>2, <1>4, <1>5, <1>9, <1>10, HookEndsGood
<1>12. Apart(reply, Idle, t)
    BY <1>3, <1>8 DEF Apart
<1>13. Steps(mgr, s, 0)
  <2>1. /\ "withdrawn" \in x.flags => "withdrawn" \in y.flags
        /\ "cleared" \in x.flags => "cleared" \in y.flags
      BY <1>2, <1>5
  <2>2. y.flight <= x.flight /\ y.got = x.got
      BY <1>4, <1>5 DEF Marked
  <2> QED
      BY <1>3, <1>4, <1>5, <2>1, <2>2, StepsOwn
<1>14. CASE {"suspended", "abort"} \cap x.flags # {}
  <2>1. mgr' = s /\ reply' = Idle
      BY <1>0, <1>14
  <2>2. Good(y, f)
      BY <1>11, <1>14
  <2>3. ReplyOK(s, Idle)
      BY <1>8 DEF ReplyOK
  <2>4. WF(s, Idle)
      BY <1>3, <1>5, <1>7, <1>12, <2>2, <2>3, OwnStepWF
  <2> QED
      BY <1>13, <2>1, <2>4, ProgressAny
<1>15. CASE {"suspended", "abort"} \cap x.flags = {}
  <2>1. BeginReply(s, t, 0)
      BY <1>0, <1>15
  <2>2. Else(s, Idle, t)
      BY <1>4, <1>5, <1>7, <1>12, ElseBeside
  <2>3. WF(mgr', reply') /\ Steps(s, mgr', 0)
      BY <1>3, <1>6, <1>11, <2>1, <2>2, BeginReplyIsGood
  <2>4. mgr' \in Manager
      BY <2>3 DEF WF, Typed
  <2>5. Steps(mgr, mgr', 0)
      BY <1>4, <1>6, <1>13, <2>3, <2>4, StepsTransitive
  <2> QED
      BY <2>3, <2>5, ProgressAny
<1> QED
    BY <1>14, <1>15

\* The callback of a request with credentials has returned
LEMMA EndCredentialsStep ==
    ASSUME WF(mgr, reply), EndCredentials
    PROVE  Progress
<1> DEFINE t == reply.t
           s1 == ClearTransaction(mgr, t)
           b == s1.unbalanced \/ Has(mgr, t, "shown")
           s2 == mgr'
           x == mgr.tx[t]
           y == s2.tx[t]
           e == Situation(mgr, reply, t)
           f == Situation(s2, Idle, t)
<1>0. reply.phase = "credentials" /\ s2 = [s1 EXCEPT !.unbalanced = @ \/ Has(mgr, t, "shown")] /\ reply' = Idle
    BY DEF EndCredentials
<1>1. s1 = ClearTransaction(mgr, t)
    OBVIOUS
<1> HIDE DEF s1, s2
<1>3. t \in Numbers(mgr) /\ reply.t = t
    BY <1>0 DEF WF, ReplyOK
<1>4. /\ mgr \in Manager /\ mgr.cur \in {0} \cup Numbers(mgr) /\ Balance(mgr) /\ NoneEarly(mgr)
      /\ ReplyOK(mgr, reply) /\ Good(x, e) /\ t # 0
      /\ x \in Tx /\ x.got \in Seq(Nat) /\ x.flight \in Nat
    BY <1>3, WFParts
<1>5. /\ Beside(mgr, s1, t) /\ s1.prompts = mgr.prompts /\ s1.unbalanced = mgr.unbalanced
      /\ Same(x, s1.tx[t]) /\ s1.tx[t].got = x.got /\ s1.tx[t].flight = x.flight
      /\ s1.tx[t].flags = x.flags \cup {"cleared"}
    BY <1>1, <1>3, <1>4, ClearTransactionEffect
<1>6. s1 \in Manager /\ Numbers(s1) = Numbers(mgr)
    BY <1>5, BesideFields
<1>7. Balance(s1) /\ NoneEarly(s1)
  <2>1. "shown" \in s1.tx[t].flags <=> "shown" \in x.flags
      BY <1>5
  <2> QED
      BY <1>3, <1>4, <1>5, <2>1, BalanceKept
<1>8. IsExcused(s1, s2, b) /\ b \in BOOLEAN /\ (s1.unbalanced => b) /\ (Has(mgr, t, "shown") => b)
  <2>1. s1.unbalanced \in BOOLEAN
      BY <1>6, ManagerFields
  <2> QED
      BY <1>0, <2>1 DEF IsExcused
<1> HIDE DEF b
<1>9. Beside(s1, s2, t) /\ s2.tx = s1.tx /\ s2.unbalanced = b /\ Balance(s2) /\ NoneEarly(s2)
    BY <1>3, <1>6, <1>7, <1>8, ExcusedEffect
<1>10. Beside(mgr, s2, t)
    BY <1>4, <1>5, <1>9, BesideTransitive
<1>11. Idle.t = 0 /\ Idle.phase = "idle" /\ Idle.op = 0 /\ Idle \in Replies
    BY DEF Idle, Replies, Phases
<1>12. /\ f.loaded = e.loaded /\ f.misled = e.misled /\ (f.balanced => e.balanced)
       /\ f.open = e.open /\ (e.lost => f.lost) /\ f.queued = e.queued
       /\ (f.balanced => ~f.misled) /\ f.phase = "idle" /\ e.phase = "credentials"
  <2>1. Idle.t # t
      BY <1>4, <1>11
  <2>2. e = Situation(mgr, reply, t) /\ f = Situation(s2, Idle, t)
      OBVIOUS
  <2>3. reply.t = t /\ Beside(mgr, s2, t)
      BY <1>3, <1>10
  <2> HIDE DEF e, f, t
  <2> QED
      BY <1>0, <1>11, <2>1, <2>2, <2>3, BesideSituation
<1>13. f.balanced => "shown" \notin x.flags
    BY <1>8, <1>9 DEF Situation, Has
<1>14. Same(x, y) /\ y.got = x.got /\ y.flight = x.flight /\ y.flags = x.flags \cup {"cleared"}
    BY <1>5, <1>9
<1>15. Good(y, f)
  <2> HIDE DEF x, y, e, f
  <2>1. Kept(e, f)
      BY <1>12 DEF Kept
  <2> QED
      BY <1>4, <1>12, <1>13, <1>14, <2>1, CredentialsEndGood
<1>16. WF(s2, Idle)
  <2>1. Apart(reply, Idle, t) /\ ReplyOK(s2, Idle)
      BY <1>3, <1>11 DEF Apart, ReplyOK
  <2> QED
      BY <1>3, <1>9, <1>10, <1>15, <2>1, OwnStepWF
<1>17. Steps(mgr, s2, 0)
  <2>1. /\ "withdrawn" \in x.flags => "withdrawn" \in y.flags
        /\ "cleared" \in x.flags => "cleared" \in y.flags
        /\ y.flight <= x.flight
      BY <1>4, <1>14
  <2> QED
      BY <1>3, <1>4, <1>10, <1>14, <2>1, StepsOwn
<1> QED
    BY <1>0, <1>16, <1>17, ProgressAny DEF s2

\* A callback throws
LEMMA CallbackThrowsStep ==
    ASSUME WF(mgr, reply), CallbackThrows
    PROVE  Progress
<1> DEFINE t == reply.t
           set == {"thrown"}
           s == Disturbed(mgr)
           s1 == Flag(s, t, set)
           b == s1.unbalanced \/ Has(mgr, t, "shown")
           s2 == mgr'
           x == s.tx[t]
           y == s2.tx[t]
           e == Situation(s, reply, t)
           f == Situation(s2, Idle, t)
<1>0. reply.phase # "idle" /\ s2 = [s1 EXCEPT !.unbalanced = @ \/ Has(mgr, t, "shown")] /\ reply' = Idle
    BY DEF CallbackThrows
<1>1. s = Disturbed(mgr) /\ s1 = Flag(s, t, set) /\ set \in SUBSET Flags /\ set = {"thrown"}
    BY DEF Flags
<1> HIDE DEF s, s1, s2, set
<1>2. WF(s, reply) /\ Steps(mgr, s, 0) /\ s.tx = mgr.tx /\ Numbers(s) = Numbers(mgr)
    BY <1>1, DisturbedIsGood
<1>3. t \in Numbers(s) /\ reply.t = t
    BY <1>0, <1>2 DEF WF, ReplyOK
<1>4. /\ s \in Manager /\ s.cur \in {0} \cup Numbers(s) /\ Balance(s) /\ NoneEarly(s)
      /\ ReplyOK(s, reply) /\ Good(x, e) /\ t # 0
      /\ x \in Tx /\ x.got \in Seq(Nat) /\ x.flight \in Nat
    BY <1>2, <1>3, WFParts
<1>5. /\ Beside(s, s1, t) /\ s1.prompts = s.prompts /\ Marked(x, s1.tx[t]) /\ s1.tx[t].flags = x.flags \cup set
    BY <1>1, <1>3, <1>4, FlagEffect
<1>6. s1 \in Manager /\ Numbers(s1) = Numbers(s)
    BY <1>5, BesideFields
<1>7. Balance(s1) /\ NoneEarly(s1)
  <2>1. "shown" \in s1.tx[t].flags <=> "shown" \in x.flags
      BY <1>1, <1>5
  <2> QED
      BY <1>3, <1>4, <1>5, <2>1, BalanceKept
<1>8. IsExcused(s1, s2, b) /\ b \in BOOLEAN /\ (s1.unbalanced => b) /\ (Has(mgr, t, "shown") => b)
  <2>1. s1.unbalanced \in BOOLEAN
      BY <1>6, ManagerFields
  <2> QED
      BY <1>0, <2>1 DEF IsExcused
<1> HIDE DEF b
<1>9. Beside(s1, s2, t) /\ s2.tx = s1.tx /\ Balance(s2) /\ NoneEarly(s2)
    BY <1>3, <1>6, <1>7, <1>8, ExcusedEffect
<1>10. Beside(s, s2, t)
    BY <1>4, <1>5, <1>9, BesideTransitive
<1>11. Idle.t = 0 /\ Idle.phase = "idle" /\ Idle.op = 0 /\ Idle \in Replies
    BY DEF Idle, Replies, Phases
<1>12. /\ f.loaded = e.loaded /\ f.misled = e.misled /\ (f.balanced => e.balanced)
       /\ f.open = e.open /\ (e.lost => f.lost) /\ f.queued = e.queued
       /\ (f.balanced => ~f.misled) /\ f.phase = "idle" /\ e.phase # "idle"
  <2>1. Idle.t # t
      BY <1>4, <1>11
  <2>2. e = Situation(s, reply, t) /\ f = Situation(s2, Idle, t)
      OBVIOUS
  <2>3. reply.t = t /\ Beside(s, s2, t)
      BY <1>3, <1>10
  <2> HIDE DEF e, f, t
  <2> QED
      BY <1>0, <1>11, <2>1, <2>2, <2>3, BesideSituation
<1>14. Marked(x, y) /\ y.flags = x.flags \cup {"thrown"}
    BY <1>1, <1>5, <1>9
<1>15. Good(y, f)
  <2> HIDE DEF x, y, e, f
  <2>1. Kept(e, f)
      BY <1>12 DEF Kept
  <2> QED
      BY <1>4, <1>12, <1>14, <2>1, ThrownIsGood
<1>16. WF(s2, Idle)
  <2>1. Apart(reply, Idle, t) /\ ReplyOK(s2, Idle)
      BY <1>3, <1>11 DEF Apart, ReplyOK
  <2> QED
      BY <1>2, <1>3, <1>9, <1>10, <1>15, <2>1, OwnStepWF
<1>17. Steps(s, s2, 0)
  <2>1. /\ "withdrawn" \in x.flags => "withdrawn" \in y.flags
        /\ "cleared" \in x.flags => "cleared" \in y.flags
        /\ y.flight <= x.flight /\ y.got = x.got
      BY <1>4, <1>14 DEF Marked
  <2> QED
      BY <1>3, <1>4, <1>10, <2>1, StepsOwn
<1>18. Steps(mgr, s2, 0)
  <2>1. mgr \in Manager /\ s2 \in Manager
      BY <1>16 DEF WF, Typed
  <2> QED
      BY <1>2, <1>4, <1>17, <2>1, StepsTransitive
<1> QED
    BY <1>0, <1>16, <1>18, ProgressAny DEF s2

--------------------------------------------------------------------------------
(* Timers *)

(* Timers *)

\* A transaction whose time is over while the browser is offline, logged already or not
LEMMA TimedOutOffline ==
    ASSUME NEW s, NEW t \in Numbers(s), Else(s, Idle, t), Sound(s.tx[t], Situation(s, Idle, t)),
           "submitted" \in s.tx[t].flags, "cleared" \notin s.tx[t].flags,
           NEW s2, s2 = Offline(s, {t})
    PROVE  WF(s2, Idle) /\ Steps(s, s2, 0)
<1> DEFINE set == {t}
           x == s.tx[t]
           y == s2.tx[t]
           e == Situation(s, Idle, t)
           f == Situation(s2, Idle, t)
<1>0. Idle.t = 0 /\ Idle.phase = "idle" /\ Idle.op = 0 /\ Idle \in Replies
    BY DEF Idle, Replies, Phases
<1>1. s \in Manager /\ t # 0 /\ x \in Tx
  <2>1. s \in Manager
      BY DEF Else, Typed
  <2> QED
      BY <2>1, ManagerFields
<1>2. set \in SUBSET Numbers(s) /\ set = {t} /\ s2 = Offline(s, set)
    OBVIOUS
<1> HIDE DEF set
<1>3. \A v \in set : "offline" \in s.tx[v].flags => "submitted" \in s.tx[v].flags
    BY <1>2
<1>4. /\ Whole(s, s2) /\ s2.delaying = s.delaying /\ s2.prompts = s.prompts
      /\ s.lost \subseteq s2.lost /\ s2.lost \subseteq s.lost \cup set
      /\ Queued(s) \subseteq Queued(s2) /\ Queued(s2) \subseteq Queued(s) \cup set
      /\ \A v \in Numbers(s) \ set : s2.tx[v] = s.tx[v]
      /\ \A v \in set : /\ v \in Queued(s2) \/ v \in s2.lost
                        /\ SentTx(s.tx[v], s2.tx[v], {"offline"})
                        /\ s2.tx[v].flight = s.tx[v].flight
    BY <1>1, <1>2, <1>3, OfflineEffect
<1>5. /\ s2 \in Manager /\ Numbers(s2) = Numbers(s) /\ s2.cur = s.cur /\ s2.loaded = s.loaded
      /\ s2.misled = s.misled /\ s2.unbalanced = s.unbalanced
    BY <1>4 DEF Whole
<1>6. /\ t \in Queued(s2) \/ t \in s2.lost
      /\ SentTx(x, y, {"offline"}) /\ y.flight = x.flight
    BY <1>2, <1>4
<1>7. Same(x, y) /\ Fresh(y) /\ DOMAIN y.got = DOMAIN x.got /\ y.flags = x.flags \cup {"submitted", "offline"}
    BY <1>6 DEF SentTx
<1>8. Good(y, f)
  <2>1. /\ e.loaded = s.loaded /\ e.misled = s.misled /\ (e.balanced <=> Counted(s))
        /\ (e.open <=> s.cur = t) /\ (e.lost <=> t \in s.lost) /\ e.phase = "idle"
      BY <1>0, <1>1, SituationFields
  <2>2. /\ f.loaded = s2.loaded /\ f.misled = s2.misled /\ (f.balanced <=> Counted(s2))
        /\ (f.open <=> s2.cur = t) /\ (f.lost <=> t \in s2.lost) /\ f.phase = "idle"
        /\ (f.queued <=> t \in Queued(s2))
      BY <1>0, <1>1, SituationFields
  <2>3. (Counted(s2) <=> Counted(s)) /\ (t \in s.lost => t \in s2.lost)
      BY <1>4, <1>5 DEF Counted
  <2>4. e.balanced \in BOOLEAN /\ e.open \in BOOLEAN /\ f.balanced \in BOOLEAN /\ f.open \in BOOLEAN
      BY DEF Situation
  <2>5. Sound(x, e) /\ "submitted" \in x.flags /\ "cleared" \notin x.flags
      OBVIOUS
  <2> HIDE DEF x, y, e, f
  <2>6. /\ f.loaded = e.loaded /\ f.misled = e.misled /\ f.balanced = e.balanced /\ f.open = e.open
        /\ (e.lost => f.lost) /\ (f.queued \/ f.lost)
      BY <1>5, <1>6, <2>1, <2>2, <2>3, <2>4
  <2> QED
      BY <1>7, <2>1, <2>2, <2>5, <2>6, LoggedAgainIsGood
<1>9. ASSUME NEW v \in Numbers(s) \ {t} PROVE Good(s2.tx[v], Situation(s2, Idle, v))
  <2> DEFINE xv == s.tx[v]
             ev == Situation(s, Idle, v)
             fv == Situation(s2, Idle, v)
  <2>1. s2.tx[v] = xv /\ Good(xv, ev)
      BY <1>2, <1>4 DEF Else
  <2>2. (v \in Queued(s2)) = (v \in Queued(s)) /\ (v \in s.lost => v \in s2.lost)
      BY <1>2, <1>4
  <2>3. /\ fv.loaded = ev.loaded /\ fv.misled = ev.misled /\ fv.balanced = ev.balanced
        /\ fv.open = ev.open /\ fv.phase = ev.phase /\ fv.op = ev.op
        /\ (ev.lost => fv.lost) /\ fv.queued = ev.queued
      BY <1>5, <2>2 DEF Situation
  <2> HIDE DEF xv, ev, fv
  <2>4. Good(xv, fv)
      BY <2>1, <2>3, GoodElsewhere
  <2> QED
      BY <2>1, <2>4 DEF fv
<1>10. Balance(s2)
  <2>1. ASSUME NEW u \in Numbers(s) PROVE "shown" \in s2.tx[u].flags <=> "shown" \in s.tx[u].flags
    <3>1. CASE u = t
        BY <1>7, <3>1
    <3>2. CASE u # t
        BY <1>2, <1>4, <3>2
    <3> QED
        BY <3>1, <3>2
  <2>2. Shown(s2) = Shown(s)
      BY <1>5, <2>1, ShownSame
  <2> QED
      BY <1>4, <1>5, <2>2 DEF Else, Balance
<1>11. Typed(s2)
  <2>1. s2.cur \in {0} \cup Numbers(s2) /\ Queued(s2) \cup s2.lost \subseteq Numbers(s2)
      BY <1>2, <1>4, <1>5 DEF Else, Typed
  <2> QED
      BY <1>5, <2>1 DEF Typed
<1>12. ReplyOK(s2, Idle)
    BY <1>0 DEF ReplyOK
<1>13. WF(s2, Idle)
    BY <1>5, <1>8, <1>9, <1>10, <1>11, <1>12 DEF WF
<1>14. Steps(s, s2, 0)
  <2>1. ASSUME NEW u \in Numbers(s) PROVE StepTx(s.tx[u], s2.tx[u], s2.misled, u = 0)
    <3>1. CASE u = t
      <4>1. x.flight \in Nat
          BY <1>1, TxFields
      <4>2. y.flight <= x.flight
          BY <1>6, <4>1
      <4> QED
          BY <1>7, <3>1, <4>2 DEF StepTx
    <3>2. CASE u # t
      <4>1. s2.tx[u] = s.tx[u] /\ s.tx[u] \in Tx
          BY <1>1, <1>2, <1>4, <3>2, ManagerFields
      <4> QED
          BY <4>1, StepTxReflexive
    <3> QED
        BY <3>1, <3>2
  <2> QED
      BY <1>5, <2>1 DEF Steps
<1> QED
    BY <1>13, <1>14

\* _timeoutTransaction, for a timer that is no longer set
LEMMA TimeoutStep ==
    ASSUME WF(mgr, reply), NEW t \in Numbers(mgr), NEW y \in Tx, Same(mgr.tx[t], y),
           y.got = mgr.tx[t].got, y.flags = mgr.tx[t].flags, y.flight = mgr.tx[t].flight,
           "submitted" \in mgr.tx[t].flags, Timeout(t, y)
    PROVE  Progress
<1> DEFINE s == [mgr EXCEPT !.tx[t] = y]
           x == mgr.tx[t]
           e == Situation(mgr, reply, t)
           f == Situation(s, Idle, t)
<1>0. /\ reply = Idle
      /\ IF ~IsLive(mgr, t) THEN mgr' = s /\ reply' = reply
         ELSE IF ~mgr.onLine THEN mgr' = Offline(s, {t}) /\ reply' = reply
         ELSE BeginReply(s, t, 0)
    BY DEF Timeout
<1>1. IsPut(mgr, s, t, y)
    BY DEF IsPut
<1> HIDE DEF s
<1>2. /\ mgr \in Manager /\ Else(mgr, reply, t) /\ Good(x, e) /\ t # 0 /\ x \in Tx
      /\ x.flight \in Nat
    BY WFParts
<1>3. /\ Beside(mgr, s, t) /\ s.tx[t] = y
      /\ s.prompts = mgr.prompts /\ s.unbalanced = mgr.unbalanced /\ s.lost = mgr.lost
    BY <1>1, <1>2, ReplacedBeside
<1>4. s \in Manager /\ Numbers(s) = Numbers(mgr)
    BY <1>3, BesideFields
<1>5. Idle.t = 0 /\ Idle.phase = "idle" /\ Idle.op = 0 /\ Idle \in Replies
    BY DEF Idle, Replies, Phases
<1>6. Else(s, Idle, t)
  <2>1. Apart(reply, Idle, t)
      BY <1>0 DEF Apart
  <2> QED
      BY <1>2, <1>3, <2>1, ElseBesideSame
<1>7. /\ f.loaded = e.loaded /\ f.misled = e.misled /\ (f.balanced => e.balanced)
      /\ f.open = e.open /\ (e.lost => f.lost) /\ f.queued = e.queued
      /\ f.phase = "idle" /\ e.phase = "idle"
  <2>1. e = Situation(mgr, reply, t) /\ f = Situation(s, Idle, t)
      OBVIOUS
  <2> HIDE DEF e, f
  <2> QED
      BY <1>0, <1>2, <1>3, <1>5, <2>1, BesideSituation
<1>8. Sound(y, f) /\ "submitted" \in y.flags
  <2>1. Sound(x, e) /\ Same(x, y) /\ y.got = x.got /\ y.flags = x.flags /\ "submitted" \in x.flags
      BY <1>2 DEF Good
  <2> HIDE DEF x, e, f
  <2> QED
      BY <1>7, <2>1, ReceivedIsSound
<1>9. Steps(mgr, s, 0)
  <2>1. y.flight <= x.flight
      BY <1>2
  <2> QED
      BY <1>2, <1>3, <2>1, StepsOwn
<1>10. WF(mgr', reply') /\ Steps(s, mgr', 0)
  <2>1. CASE ~IsLive(mgr, t)
    <3>1. mgr' = s /\ reply' = Idle
        BY <1>0, <2>1
    <3>2. Good(y, f)
      <4>1. Sound(x, e) /\ Same(x, y) /\ y.got = x.got /\ y.flags = x.flags /\ "submitted" \in x.flags
          BY <1>2 DEF Good
      <4>2. "cleared" \in x.flags
          BY <2>1 DEF IsLive, Has
      <4> HIDE DEF x, e, f
      <4> QED
          BY <1>7, <4>1, <4>2, GoneIsGood
    <3>3. ReplyOK(s, Idle)
        BY <1>5 DEF ReplyOK
    <3>4. WF(s, Idle)
        BY <1>3, <1>6, <3>2, <3>3, ElseWF
    <3> QED
        BY <1>4, <3>1, <3>4, StepsReflexive
  <2>2. CASE IsLive(mgr, t) /\ ~mgr.onLine
    <3>1. mgr' = Offline(s, {t}) /\ reply' = Idle
        BY <1>0, <2>2
    <3>2. "cleared" \notin s.tx[t].flags
        BY <1>3, <2>2 DEF IsLive, Has
    <3> QED
        BY <1>3, <1>4, <1>6, <1>8, <3>1, <3>2, TimedOutOffline
  <2>3. CASE IsLive(mgr, t) /\ mgr.onLine
    <3>1. BeginReply(s, t, 0)
        BY <1>0, <2>3
    <3> QED
        BY <1>3, <1>4, <1>6, <1>8, <3>1, BeginReplyIsGood
  <2> QED
      BY <2>1, <2>2, <2>3
<1>11. mgr' \in Manager
    BY <1>10 DEF WF, Typed
<1>12. Steps(mgr, mgr', 0)
    BY <1>2, <1>4, <1>9, <1>10, <1>11, StepsTransitive
<1> QED
    BY <1>10, <1>12, ProgressAny

\* What is under way for a transaction shows that it was submitted
LEMMA UnderWay ==
    ASSUME NEW x, NEW e, Good(x, e), x.flight \in Nat, x.orphans \in Nat,
           x.armed \/ x.orphans > 0 \/ x.flight > 0
    PROVE  "submitted" \in x.flags
BY DEF Good, Sound, UnsentOK

\* The timer of the transaction fires
LEMMA TimerFiresStep ==
    ASSUME WF(mgr, reply), NEW t \in Numbers(mgr), TimerFires(t)
    PROVE  Progress
<1> DEFINE x == mgr.tx[t]
           y == [x EXCEPT !.armed = FALSE]
<1>1. x.armed /\ Timeout(t, y)
    BY DEF TimerFires
<1>2. x \in Tx /\ Good(x, Situation(mgr, reply, t))
    BY WFParts
<1>3. x.flight \in Nat /\ x.orphans \in Nat
    BY <1>2, TxFields
<1>4. "submitted" \in x.flags
    BY <1>1, <1>2, <1>3, UnderWay
<1>5. y \in Tx /\ Same(x, y) /\ y.got = x.got /\ y.flags = x.flags /\ y.flight = x.flight
    BY <1>2 DEF Tx, Same
<1> HIDE DEF y
<1> QED
    BY <1>1, <1>4, <1>5, TimeoutStep

\* A timer fires that nothing names any more
LEMMA OrphanFiresStep ==
    ASSUME WF(mgr, reply), NEW t \in Numbers(mgr), OrphanFires(t)
    PROVE  Progress
<1> DEFINE x == mgr.tx[t]
           n == x.orphans - 1
           y == [x EXCEPT !.orphans = n]
<1>1. x.orphans > 0 /\ Timeout(t, y)
    BY DEF OrphanFires
<1>2. x \in Tx /\ Good(x, Situation(mgr, reply, t))
    BY WFParts
<1>3. x.flight \in Nat /\ x.orphans \in Nat
    BY <1>2, TxFields
<1>4. "submitted" \in x.flags
    BY <1>1, <1>2, <1>3, UnderWay
<1>5. n \in Nat
    BY <1>1, <1>3
<1> HIDE DEF n
<1>6. y \in Tx /\ Same(x, y) /\ y.got = x.got /\ y.flags = x.flags /\ y.flight = x.flight
    BY <1>2, <1>5 DEF Tx, Same
<1> HIDE DEF y
<1> QED
    BY <1>1, <1>4, <1>6, TimeoutStep

--------------------------------------------------------------------------------
(* Answers *)

(* Answers *)

IsReceived(s, s2, t, k) == s2 = [s EXCEPT !.tx[t].slot = FALSE, !.tx[t].flight = k]

\* An attempt is no longer on its way
LEMMA ReceivedFields ==
    ASSUME NEW s \in Manager, NEW t \in Numbers(s), NEW k \in Nat, k <= s.tx[t].flight,
           NEW s2, IsReceived(s, s2, t, k)
    PROVE  /\ Beside(s, s2, t)
           /\ s2.prompts = s.prompts /\ s2.unbalanced = s.unbalanced /\ s2.lost = s.lost
           /\ Same(s.tx[t], s2.tx[t]) /\ s2.tx[t].got = s.tx[t].got
           /\ s2.tx[t].flags = s.tx[t].flags /\ s2.tx[t].armed = s.tx[t].armed
           /\ s2.tx[t].flight = k
<1> DEFINE x == s.tx[t]
           y == [x EXCEPT !.slot = FALSE, !.flight = k]
<1>1. x \in Tx /\ s.tx \in Seq(Tx) /\ t \in DOMAIN s.tx
    BY ManagerFields
<1>2. /\ y \in Tx /\ Same(x, y) /\ y.got = x.got /\ y.flags = x.flags /\ y.armed = x.armed
      /\ y.flight = k
    BY <1>1 DEF Tx, Same
<1>3. IsPut(s, s2, t, y)
    BY <1>1 DEF IsPut, IsReceived, Manager, Tx
<1> HIDE DEF y
<1> QED
    BY <1>2, <1>3, ReplacedBeside

\* performXmlTransactionReply takes the callback of the answer
IsAccepted(s, s2, t) == s2 = [s EXCEPT !.tx[t].slot = FALSE, !.tx[t].flight = @ - 1]

\* It changes nothing else
LEMMA ReceivedEffect ==
    ASSUME NEW s \in Manager, NEW t \in Numbers(s), s.tx[t].flight > 0, NEW u,
           u = Unflag(s, t, {"abort", "replying"}), NEW s2, IsAccepted(u, s2, t)
    PROVE  /\ Beside(s, s2, t)
           /\ s2.prompts = s.prompts /\ s2.unbalanced = s.unbalanced /\ s2.lost = s.lost
           /\ Same(s.tx[t], s2.tx[t]) /\ s2.tx[t].got = s.tx[t].got
           /\ s2.tx[t].flags = s.tx[t].flags \ {"abort", "replying"}
           /\ s2.tx[t].flight <= s.tx[t].flight
<1> DEFINE set == {"abort", "replying"}
           k == u.tx[t].flight - 1
<1>1. set \in SUBSET Flags /\ u = Unflag(s, t, set) /\ set = {"abort", "replying"}
    BY DEF Flags
<1> HIDE DEF set
<1>3. /\ Beside(s, u, t)
      /\ u.prompts = s.prompts /\ u.unbalanced = s.unbalanced /\ u.lost = s.lost
      /\ Marked(s.tx[t], u.tx[t]) /\ u.tx[t].flags = s.tx[t].flags \ set
    BY <1>1, UnflagEffect
<1>4. u \in Manager /\ Numbers(u) = Numbers(s)
    BY <1>3, BesideFields
<1>5. Same(s.tx[t], u.tx[t]) /\ u.tx[t].got = s.tx[t].got /\ u.tx[t].flight = s.tx[t].flight
    BY <1>3 DEF Marked
<1>6. k \in Nat /\ k <= u.tx[t].flight
  <2>1. s.tx[t].flight \in Nat
      BY ManagerFields, TxFields
  <2> QED
      BY <1>5, <2>1
<1>7. IsReceived(u, s2, t, k)
  <2>1. u.tx[t] \in Tx /\ t \in Numbers(u)
      BY <1>4, ManagerFields
  <2> QED
      BY <1>4, <2>1 DEF IsAccepted, IsReceived, Manager
<1> HIDE DEF k
<1>8. /\ Beside(u, s2, t)
      /\ s2.prompts = u.prompts /\ s2.unbalanced = u.unbalanced /\ s2.lost = u.lost
      /\ Same(u.tx[t], s2.tx[t]) /\ s2.tx[t].got = u.tx[t].got
      /\ s2.tx[t].flags = u.tx[t].flags /\ s2.tx[t].flight = k
    BY <1>4, <1>6, <1>7, ReceivedFields
<1>9. Beside(s, s2, t)
    BY <1>3, <1>8, BesideTransitive
<1>10. Same(s.tx[t], s2.tx[t])
    BY <1>5, <1>8 DEF Same
<1> QED
    BY <1>1, <1>3, <1>5, <1>6, <1>8, <1>9, <1>10

\* An answer that nobody expects
LEMMA AnswerDroppedStep ==
    ASSUME WF(mgr, reply), NEW t \in Numbers(mgr), AnswerDropped(t)
    PROVE  Progress
<1> DEFINE x == mgr.tx[t]
           k == x.flight - 1
           s2 == mgr'
           y == s2.tx[t]
           e == Situation(mgr, reply, t)
           f == Situation(s2, reply, t)
<1>1. /\ mgr.tx[t].flight > 0 /\ reply' = reply
      /\ s2 = [mgr EXCEPT !.tx[t].slot = FALSE, !.tx[t].flight = @ - 1]
    BY DEF AnswerDropped
<1> HIDE DEF s2
<1>2. /\ mgr \in Manager /\ Else(mgr, reply, t) /\ Good(x, e) /\ t # 0 /\ x \in Tx
      /\ x.flight \in Nat /\ ReplyOK(mgr, reply) /\ Balance(mgr) /\ NoneEarly(mgr)
    BY WFParts
<1>3. k \in Nat /\ k <= x.flight
    BY <1>1, <1>2
<1>4. IsReceived(mgr, s2, t, k)
    BY <1>1, <1>2 DEF IsReceived, Manager
<1> HIDE DEF k
<1>5. /\ Beside(mgr, s2, t)
      /\ s2.prompts = mgr.prompts /\ s2.unbalanced = mgr.unbalanced /\ s2.lost = mgr.lost
      /\ Same(x, y) /\ y.got = x.got /\ y.flags = x.flags /\ y.armed = x.armed /\ y.flight = k
    BY <1>2, <1>3, <1>4, ReceivedFields
<1>6. f = e
  <2>1. s2.cur = mgr.cur /\ s2.loaded = mgr.loaded /\ s2.misled = mgr.misled /\ Queued(s2) = Queued(mgr)
      BY <1>5, BesideFields
  <2> QED
      BY <1>5, <2>1 DEF Situation
<1>7. "submitted" \in x.flags
  <2>1. x.orphans \in Nat
      BY <1>2, TxFields
  <2> HIDE DEF e
  <2> QED
      BY <1>1, <1>2, <2>1, UnderWay
<1>8. Good(y, f)
  <2>1. Good(x, e) /\ f = e
      BY <1>2, <1>6
  <2> HIDE DEF x, y, e, f
  <2> QED
      BY <1>5, <1>7, <2>1, DroppedIsGood
<1>9. Balance(s2) /\ NoneEarly(s2)
    BY <1>2, <1>5, BalanceKept
<1>10. ReplyOK(s2, reply) /\ Apart(reply, reply, t)
  <2>1. Numbers(s2) = Numbers(mgr)
      BY <1>5, BesideFields
  <2> QED
      BY <1>2, <2>1 DEF ReplyOK, Apart
<1>11. WF(s2, reply)
    BY <1>5, <1>8, <1>9, <1>10, OwnStepWF
<1>12. Steps(mgr, s2, 0)
    BY <1>2, <1>3, <1>5, StepsOwn
<1> QED
    BY <1>1, <1>11, <1>12, ProgressAny DEF s2

\* An answer that is taken
Arrived(s, t) ==
    /\ t \in Numbers(mgr) /\ Beside(mgr, s, t) /\ s \in Manager /\ Numbers(s) = Numbers(mgr)
    /\ s.cur \in {0} \cup Numbers(s) /\ t # 0
    /\ Else(s, Idle, t) /\ Sound(s.tx[t], Situation(s, Idle, t))
    /\ Sound(mgr.tx[t], Situation(mgr, Idle, t))
    /\ "submitted" \in s.tx[t].flags /\ "cleared" \notin s.tx[t].flags
    /\ s.tx[t].flags = mgr.tx[t].flags \ {"abort", "replying"}
    /\ Same(mgr.tx[t], s.tx[t]) /\ s.tx[t].got = mgr.tx[t].got
    /\ s.unbalanced = mgr.unbalanced
    /\ Steps(mgr, s, 0) /\ mgr \in Manager

\* An answer that is expected is taken in this way
LEMMA ReceivedArrived ==
    ASSUME WF(mgr, reply), NEW t \in Numbers(mgr), Expected(t), NEW s, s = Received(t)
    PROVE  Arrived(s, t)
<1> DEFINE x == mgr.tx[t]
           y == s.tx[t]
           e == Situation(mgr, reply, t)
           f == Situation(s, Idle, t)
<1>0. reply = Idle /\ x.flight > 0 /\ IsLive(mgr, t)
    BY DEF Expected
<1>1. /\ mgr \in Manager /\ Else(mgr, reply, t) /\ Good(x, e) /\ t # 0 /\ x \in Tx
      /\ x.flight \in Nat /\ mgr.cur \in {0} \cup Numbers(mgr)
    BY WFParts
<1> DEFINE u == Unflag(mgr, t, {"abort", "replying"})
<1>2. u = Unflag(mgr, t, {"abort", "replying"}) /\ IsAccepted(u, s, t)
    BY DEF Received, IsAccepted
<1> HIDE DEF u
<1>3. /\ Beside(mgr, s, t)
      /\ s.prompts = mgr.prompts /\ s.unbalanced = mgr.unbalanced /\ s.lost = mgr.lost
      /\ Same(x, y) /\ y.got = x.got
      /\ y.flags = x.flags \ {"abort", "replying"}
      /\ y.flight <= x.flight
    BY <1>0, <1>1, <1>2, ReceivedEffect
<1>4. s \in Manager /\ Numbers(s) = Numbers(mgr) /\ s.cur = mgr.cur
    BY <1>3, BesideFields
<1>5. Idle.t = 0 /\ Idle.phase = "idle" /\ Idle.op = 0 /\ Idle \in Replies
    BY DEF Idle, Replies, Phases
<1>6. "submitted" \in x.flags /\ "cleared" \notin x.flags
  <2>1. x.orphans \in Nat
      BY <1>1, TxFields
  <2>2. "cleared" \notin x.flags
      BY <1>0 DEF IsLive, Has
  <2>3. Good(x, e)
      BY <1>1
  <2> HIDE DEF e
  <2> QED
      BY <1>0, <1>1, <2>1, <2>2, <2>3, UnderWay
<1>7. Else(s, Idle, t)
  <2>1. Apart(reply, Idle, t)
      BY <1>0 DEF Apart
  <2>2. "shown" \in y.flags <=> "shown" \in x.flags
      BY <1>3
  <2> QED
      BY <1>1, <1>3, <2>1, <2>2, ElseBesideSame
<1>8. /\ f.loaded = e.loaded /\ f.misled = e.misled /\ (f.balanced => e.balanced)
      /\ f.open = e.open /\ (e.lost => f.lost) /\ f.queued = e.queued
      /\ f.phase = "idle" /\ e.phase = "idle"
  <2>1. e = Situation(mgr, reply, t) /\ f = Situation(s, Idle, t)
      OBVIOUS
  <2> HIDE DEF e, f
  <2> QED
      BY <1>0, <1>1, <1>3, <1>5, <2>1, BesideSituation
<1>9. Sound(y, f) /\ "submitted" \in y.flags
  <2>1. Sound(x, e)
      BY <1>1 DEF Good
  <2> HIDE DEF x, y, e, f
  <2> QED
      BY <1>3, <1>6, <1>8, <2>1, ReceivedIsSound
<1>10. Steps(mgr, s, 0)
  <2>1. "withdrawn" \in x.flags => "withdrawn" \in y.flags
      BY <1>3
  <2> QED
      BY <1>1, <1>3, <1>6, <2>1, StepsOwn
<1>11. Sound(mgr.tx[t], Situation(mgr, Idle, t))
    BY <1>0, <1>1 DEF Good
<1> QED
    BY <1>1, <1>3, <1>4, <1>6, <1>7, <1>9, <1>10, <1>11 DEF Arrived

\* What follows the taking of an answer
LEMMA ArrivedStep ==
    ASSUME NEW s, NEW t, Arrived(s, t), WF(mgr', reply'), Steps(s, mgr', 0), WF(mgr, reply)
    PROVE  Progress
<1>1. mgr' \in Manager /\ mgr \in Manager /\ s \in Manager /\ Steps(mgr, s, 0)
    BY DEF WF, Typed, Arrived
<1>2. Steps(mgr, mgr', 0)
    BY <1>1, StepsTransitive
<1> QED
    BY <1>2, ProgressAny

\* An answer with the results of the operations
LEMMA ResultsStep ==
    ASSUME WF(mgr, reply), NEW t \in Numbers(mgr), NEW relogin \in Nat, Results(t, relogin)
    PROVE  Progress
<1> DEFINE s == Received(t)
<1>1. Expected(t) /\ BeginReply(s, t, relogin) /\ s = Received(t)
    BY DEF Results
<1> HIDE DEF s
<1>2. Arrived(s, t)
    BY <1>1, ReceivedArrived
<1>3. t \in Numbers(s) /\ Else(s, Idle, t) /\ Sound(s.tx[t], Situation(s, Idle, t)) /\ "submitted" \in s.tx[t].flags
    BY <1>2 DEF Arrived
<1>4. WF(mgr', reply') /\ Steps(s, mgr', 0)
    BY <1>1, <1>3, BeginReplyIsGood
<1> QED
    BY <1>2, <1>4, ArrivedStep

\* What is known then
LEMMA ArrivedFields ==
    ASSUME NEW s, NEW t, Arrived(s, t)
    PROVE  /\ s \in Manager /\ t \in Numbers(s) /\ s.cur \in {0} \cup Numbers(s) /\ t # 0
           /\ Balance(s) /\ NoneEarly(s) /\ Else(s, Idle, t) /\ s.tx[t] \in Tx
           /\ s.tx[t].got \in Seq(Nat) /\ s.tx[t].got # <<>> /\ s.tx[t].flight \in Nat
           /\ Sound(s.tx[t], Situation(s, Idle, t))
           /\ "submitted" \in s.tx[t].flags /\ "cleared" \notin s.tx[t].flags
<1>1. s \in Manager /\ t \in Numbers(s) /\ Else(s, Idle, t)
    BY DEF Arrived
<1>2. s.tx[t] \in Tx
    BY <1>1, ManagerFields
<1> QED
    BY <1>1, <1>2, TxFields DEF Arrived, Else

\* The end of a step that took the answer and did more about its transaction
LEMMA ArrivedOwn ==
    ASSUME WF(mgr, reply), NEW s, NEW t, Arrived(s, t),
           Beside(s, mgr', t), Balance(mgr'), NoneEarly(mgr'), reply' \in Replies, (reply').t \in {0, t},
           (reply').t = 0 <=> (reply').phase = "idle", (reply').phase = "hook" => (reply').op = 0,
           Good((mgr').tx[t], Situation(mgr', reply', t)),
           "withdrawn" \in s.tx[t].flags => "withdrawn" \in (mgr').tx[t].flags,
           (mgr').tx[t].flight = s.tx[t].flight, DOMAIN (mgr').tx[t].got = DOMAIN s.tx[t].got
    PROVE  Progress
<1> DEFINE s2 == mgr'
           r2 == reply'
<1> DEFINE x == s.tx[t]
           y == s2.tx[t]
           b == s2.misled
<1>1. /\ s \in Manager /\ t \in Numbers(s) /\ Else(s, Idle, t) /\ t # 0 /\ x \in Tx
      /\ x.flight \in Nat /\ "cleared" \notin x.flags
    BY ArrivedFields
<1>2. Apart(Idle, r2, t)
    BY DEF Apart, Idle
<1>3. WF(s2, r2)
  <2>1. /\ Beside(s, s2, t) /\ Balance(s2) /\ NoneEarly(s2) /\ r2 \in Replies /\ r2.t \in {0, t}
        /\ (r2.t = 0 <=> r2.phase = "idle") /\ (r2.phase = "hook" => r2.op = 0)
        /\ Good(s2.tx[t], Situation(s2, r2, t))
      OBVIOUS
  <2> HIDE DEF s2, r2
  <2> QED
      BY <1>1, <1>2, <2>1, OneStep
<1>4. StepTx(x, y, b, TRUE)
  <2>1. y.flight <= x.flight
      BY <1>1
  <2>2. /\ "withdrawn" \in x.flags => "withdrawn" \in y.flags
        /\ "cleared" \in x.flags => "cleared" \in y.flags
        /\ DOMAIN x.got = DOMAIN y.got
      BY <1>1
  <2> HIDE DEF x, y, b
  <2> QED
      BY <1>1, <2>1, <2>2, StepOwn
<1>5. Steps(s, s2, t)
  <2>1. StepTx(x, y, b, t = t) /\ Beside(s, s2, t)
      BY <1>4
  <2> HIDE DEF s2
  <2> QED
      BY <1>1, <2>1, StepsBeside
<1>6. Steps(s, s2, 0)
    BY <1>1, <1>5, StepsUncleared
<1> QED
    BY <1>3, <1>6, ArrivedStep

\* What taking the answer means for the transaction itself
LEMMA ArrivedKept ==
    ASSUME NEW s, NEW t, Arrived(s, t), NEW s2, NEW r2, Beside(s, s2, t),
           NEW e, e = Situation(mgr, Idle, t), NEW f, f = Situation(s2, r2, t)
    PROVE  /\ Kept(e, f) /\ f.open = e.open /\ e.phase = "idle"
           /\ (r2.t = t => f.phase = r2.phase) /\ (r2.t # t => f.phase = "idle")
<1>1. Beside(mgr, s2, t) /\ t # 0
    BY BesideTransitive DEF Arrived
<1>2. Idle.t # t
    BY <1>1 DEF Idle
<1> QED
    BY <1>1, <1>2, BesideSituation DEF Kept

\* An answer that is an error of the transport
LEMMA TransportErrorStep ==
    ASSUME WF(mgr, reply), NEW t \in Numbers(mgr), TransportError(t)
    PROVE  Progress
<1> DEFINE s == Received(t)
           set == {"replying"}
           s2 == mgr'
           r2 == reply'
           x == s.tx[t]
           y == s2.tx[t]
           e == Situation(mgr, Idle, t)
           f == Situation(s2, r2, t)
<1>1. /\ Expected(t) /\ s = Received(t) /\ s2 = Flag(s, t, set) /\ set \in SUBSET Flags /\ set = {"replying"}
      /\ r2 = [Idle EXCEPT !.t = t, !.phase = "hook"]
    BY DEF TransportError, Flags
<1>2. r2.t = t /\ r2.phase = "hook" /\ r2.op = 0 /\ (t \in Nat => r2 \in Replies)
    BY <1>1 DEF Idle, Replies, Phases
<1> HIDE DEF s, s2, r2, set
<1>3. Arrived(s, t)
    BY <1>1, ReceivedArrived
<1>4. /\ s \in Manager /\ t \in Numbers(s) /\ t # 0
      /\ Balance(s) /\ NoneEarly(s) /\ x \in Tx
    BY <1>3, ArrivedFields
<1>5. t \in Nat
    BY <1>4, ManagerFields
<1>6. /\ Beside(s, s2, t) /\ s2.prompts = s.prompts
      /\ Marked(x, y) /\ y.flags = x.flags \cup set
    BY <1>1, <1>4, FlagEffect
<1>7. Balance(s2) /\ NoneEarly(s2)
  <2>1. "shown" \in y.flags <=> "shown" \in x.flags
      BY <1>1, <1>6
  <2> QED
      BY <1>4, <1>6, <2>1, BalanceKept
<1>8. Kept(e, f) /\ f.open = e.open /\ e.phase = "idle" /\ f.phase = "hook"
    BY <1>2, <1>3, <1>6, ArrivedKept
<1>9. Good(y, f)
  <2> DEFINE w == mgr.tx[t]
  <2>1. /\ Sound(w, e) /\ Same(w, x) /\ x.got = w.got /\ x.flags = w.flags \ {"abort", "replying"}
        /\ "submitted" \in x.flags /\ "cleared" \notin x.flags
      BY <1>3 DEF Arrived
  <2> HIDE DEF w, x, y, e, f
  <2>2. Same(w, y) /\ y.got = w.got /\ y.flags = (w.flags \ {"abort", "replying"}) \cup {"replying"}
      BY <1>1, <1>6, <2>1 DEF Same, Marked
  <2>3. "submitted" \in w.flags /\ "cleared" \notin w.flags
      BY <2>1
  <2> QED
      BY <1>8, <2>1, <2>2, <2>3, HookIsGood
<1>10. /\ "withdrawn" \in x.flags => "withdrawn" \in y.flags
       /\ y.flight = x.flight /\ DOMAIN y.got = DOMAIN x.got
    BY <1>6 DEF Marked
<1> QED
    BY <1>2, <1>3, <1>4, <1>5, <1>6, <1>7, <1>9, <1>10, ArrivedOwn DEF s2, r2

\* The timer of an answer that is taken is stopped
LEMMA ArrivedStopped ==
    ASSUME NEW s, NEW t, Arrived(s, t), NEW s1, s1 = StopTimer(s, t)
    PROVE  /\ Beside(s, s1, t) /\ Balance(s1) /\ NoneEarly(s1)
           /\ Same(s.tx[t], s1.tx[t]) /\ s1.tx[t].got = s.tx[t].got
           /\ s1.tx[t].flags = s.tx[t].flags /\ s1.tx[t].flight = s.tx[t].flight
           /\ s1 \in Manager /\ Numbers(s1) = Numbers(s) /\ s1.cur = s.cur
           /\ s1.loaded = s.loaded /\ (Counted(s1) => Counted(s))
<1>1. /\ s \in Manager /\ t \in Numbers(s) /\ s.cur \in {0} \cup Numbers(s)
      /\ Balance(s) /\ NoneEarly(s)
    BY ArrivedFields
<1>2. /\ Beside(s, s1, t) /\ s1.prompts = s.prompts
      /\ Same(s.tx[t], s1.tx[t]) /\ s1.tx[t].got = s.tx[t].got
      /\ s1.tx[t].flags = s.tx[t].flags /\ s1.tx[t].flight = s.tx[t].flight
    BY <1>1, StopTimerEffect
<1>3. Balance(s1) /\ NoneEarly(s1)
    BY <1>1, <1>2, BalanceKept
<1> QED
    BY <1>2, <1>3, BesideFields

\* An answer to a request with credentials
LEMMA CredentialsAnsweredStep ==
    ASSUME WF(mgr, reply), NEW t \in Numbers(mgr), CredentialsAnswered(t)
    PROVE  Progress
<1> DEFINE s == Received(t)
           s1 == StopTimer(s, t)
           s2 == mgr'
           r2 == reply'
           x == s.tx[t]
           y == s2.tx[t]
           e == Situation(mgr, Idle, t)
           f == Situation(s2, r2, t)
<1>1. /\ Expected(t) /\ s = Received(t) /\ s1 = StopTimer(s, t)
      /\ s2 = [s1 EXCEPT !.tx[t].got[1] = @ + 1] /\ mgr.tx[t].login
      /\ r2 = [Idle EXCEPT !.t = t, !.phase = "credentials"]
    BY DEF CredentialsAnswered
<1>2. r2.t = t /\ r2.phase = "credentials" /\ r2.op = 0 /\ (t \in Nat => r2 \in Replies)
    BY <1>1 DEF Idle, Replies, Phases
<1> HIDE DEF s, s1, s2, r2
<1>3. Arrived(s, t)
    BY <1>1, ReceivedArrived
<1>4. /\ s \in Manager /\ t \in Numbers(s) /\ t # 0 /\ x \in Tx
      /\ x.got \in Seq(Nat) /\ x.got # <<>>
    BY <1>3, ArrivedFields
<1>5. t \in Nat
    BY <1>4, ManagerFields
<1>6. /\ Beside(s, s1, t) /\ Balance(s1) /\ NoneEarly(s1)
      /\ Same(x, s1.tx[t]) /\ s1.tx[t].got = x.got
      /\ s1.tx[t].flags = x.flags /\ s1.tx[t].flight = x.flight
      /\ s1 \in Manager /\ Numbers(s1) = Numbers(s)
    BY <1>1, <1>3, ArrivedStopped
<1>7. 1 \in DOMAIN s1.tx[t].got
    BY <1>4, <1>6
<1>8. IsAnswered(s1, s2, t, 1)
    BY <1>1 DEF IsAnswered
<1>9. /\ Beside(s1, s2, t) /\ s2.prompts = s1.prompts
      /\ Same(s1.tx[t], y) /\ y.flags = s1.tx[t].flags /\ y.flight = s1.tx[t].flight
      /\ DOMAIN y.got = DOMAIN s1.tx[t].got
  <2> DEFINE op == 1
  <2>1. t \in Numbers(s1) /\ s1 \in Manager /\ op \in DOMAIN s1.tx[t].got /\ IsAnswered(s1, s2, t, op)
      BY <1>4, <1>6, <1>7, <1>8
  <2> HIDE DEF op
  <2> QED
      BY <2>1, AnsweredEffect
<1>10. Beside(s, s2, t) /\ Balance(s2) /\ NoneEarly(s2)
    BY <1>4, <1>6, <1>9, BesideTransitive, BalanceKept
<1>11. Kept(e, f) /\ f.open = e.open /\ e.phase = "idle" /\ f.phase = "credentials"
    BY <1>2, <1>3, <1>10, ArrivedKept
<1>12. Good(y, f)
  <2> DEFINE w == mgr.tx[t]
  <2>1. /\ Sound(w, e) /\ Same(w, x) /\ x.flags = w.flags \ {"abort", "replying"}
        /\ "submitted" \in x.flags /\ w.login
      BY <1>1, <1>3 DEF Arrived
  <2>2. Same(x, y) /\ y.flags = x.flags
      BY <1>6, <1>9 DEF Same
  <2> HIDE DEF w, x, y, e, f
  <2>3. Same(w, y) /\ y.flags = w.flags \ {"abort", "replying"} /\ "submitted" \in w.flags
      BY <2>1, <2>2 DEF Same
  <2> QED
      BY <1>11, <2>1, <2>3, CredentialsGood
<1>13. /\ "withdrawn" \in x.flags => "withdrawn" \in y.flags
       /\ y.flight = x.flight /\ DOMAIN y.got = DOMAIN x.got
    BY <1>6, <1>9
<1> QED
    BY <1>2, <1>3, <1>4, <1>5, <1>10, <1>12, <1>13, ArrivedOwn DEF s2, r2

\* An answer that asks for a login
LEMMA LoginRequiredStep ==
    ASSUME WF(mgr, reply), NEW t \in Numbers(mgr), LoginRequired(t)
    PROVE  Progress
<1> DEFINE s == Received(t)
           s1 == StopTimer(s, t)
           s2 == mgr'
           x == s.tx[t]
           y == s2.tx[t]
           e == Situation(s, Idle, t)
           f == Situation(s2, Idle, t)
<1>0. Idle.t = 0 /\ Idle.phase = "idle" /\ Idle.op = 0 /\ Idle \in Replies
    BY DEF Idle, Replies, Phases
<1>1. /\ Expected(t) /\ s = Received(t) /\ s1 = StopTimer(s, t) /\ s2 = SuspendTransaction(s1, t)
      /\ reply' = Idle
    BY DEF LoginRequired, Expected
<1> HIDE DEF s, s1, s2
<1>2. Arrived(s, t)
    BY <1>1, ReceivedArrived
<1>3. /\ s \in Manager /\ t \in Numbers(s) /\ t # 0 /\ x \in Tx /\ s.cur \in {0} \cup Numbers(s)
      /\ Sound(x, e) /\ "submitted" \in x.flags /\ "cleared" \notin x.flags
    BY <1>2, ArrivedFields
<1>4. /\ Beside(s, s1, t) /\ Balance(s1) /\ NoneEarly(s1)
      /\ Same(x, s1.tx[t]) /\ s1.tx[t].got = x.got
      /\ s1.tx[t].flags = x.flags /\ s1.tx[t].flight = x.flight
      /\ s1 \in Manager /\ Numbers(s1) = Numbers(s) /\ s1.cur = s.cur
      /\ s1.loaded = s.loaded /\ (Counted(s1) => Counted(s))
    BY <1>1, <1>2, ArrivedStopped
<1>5. PromptCounted(s1, s1.tx[t])
  <2>1. (Counted(s) => e.balanced) /\ e.loaded = s.loaded
      BY DEF Situation, Counted
  <2>2. PromptOK(x, e) /\ "submitted" \in x.flags /\ "cleared" \notin x.flags
      BY <1>3 DEF Sound
  <2> HIDE DEF e, x
  <2>3. PromptCounted(s, x)
      BY <2>1, <2>2, PromptIsCounted
  <2> QED
      BY <1>4, <2>3 DEF PromptCounted, Same
<1>6. /\ Beside(s1, s2, t) /\ Balance(s2) /\ NoneEarly(s2)
      /\ Same(s1.tx[t], y) /\ y.got = s1.tx[t].got /\ y.flight = s1.tx[t].flight
      /\ \/ "suspended" \in s1.tx[t].flags /\ y.flags = s1.tx[t].flags
         \/ "suspended" \notin s1.tx[t].flags /\ y.flags = SuspendedFlags(s1.tx[t])
    BY <1>1, <1>3, <1>4, <1>5, SuspendEffect
<1>7. Beside(s, s2, t)
    BY <1>3, <1>4, <1>6, BesideTransitive
<1>8. /\ Same(x, y) /\ y.got = x.got /\ y.flight = x.flight
      /\ \/ "suspended" \in x.flags /\ y.flags = x.flags
         \/ "suspended" \notin x.flags /\ y.flags = SuspendedFlags(x)
    BY <1>4, <1>6 DEF Same, SuspendedFlags
<1>9. /\ f.loaded = e.loaded /\ f.misled = e.misled /\ (f.balanced => e.balanced)
      /\ f.open = e.open /\ (e.lost => f.lost) /\ f.queued = e.queued
      /\ (f.balanced => ~f.misled) /\ f.phase = e.phase
  <2>1. Idle.t # t
      BY <1>0, <1>3
  <2>2. e = Situation(s, Idle, t) /\ f = Situation(s2, Idle, t)
      OBVIOUS
  <2> HIDE DEF e, f
  <2> QED
      BY <1>0, <1>7, <2>1, <2>2, BesideSituation
<1>10. Good(y, f)
  <2> HIDE DEF x, y, e, f
  <2>1. Around(e, f)
      BY <1>9 DEF Around
  <2>2. SuspendedFlags(x) = LET g == x.flags \cup {"suspended"}
                                       \cup IF "replying" \in x.flags THEN {"abort"} ELSE {}
                            IN IF ~x.prompt \/ "clearedPrompt" \in x.flags THEN g
                               ELSE (g \cup {"clearedPrompt"}) \ {"shown"}
      BY DEF SuspendedFlags
  <2> QED
      BY <1>3, <1>8, <1>9, <2>1, <2>2, SuspendedIsGood
<1>11. /\ "withdrawn" \in x.flags => "withdrawn" \in y.flags
       /\ y.flight = x.flight /\ DOMAIN y.got = DOMAIN x.got
    BY <1>8 DEF SuspendedFlags
<1> QED
    BY <1>0, <1>1, <1>2, <1>6, <1>7, <1>10, <1>11, ArrivedOwn DEF s2

\* An answer after which the application sends the transaction again
LEMMA RetryStep ==
    ASSUME WF(mgr, reply), NEW t \in Numbers(mgr), Retry(t)
    PROVE  Progress
<1> DEFINE s == Received(t)
           d == Disturbed(s)
           b == d.unbalanced \/ Has(mgr, t, "shown")
           k == [d EXCEPT !.unbalanced = @ \/ Has(mgr, t, "shown")]
           set == {t}
           x == s.tx[t]
           e == Situation(s, Idle, t)
           f == Situation(k, Idle, t)
<1>0. Idle.t = 0 /\ Idle.phase = "idle" /\ Idle.op = 0 /\ Idle \in Replies
    BY DEF Idle, Replies, Phases
<1>1. /\ Expected(t) /\ s = Received(t) /\ d = Disturbed(s) /\ mgr' = Resubmitted(k, set)
      /\ reply' = Idle
    BY DEF Retry, Expected
<1>2. k = [d EXCEPT !.unbalanced = @ \/ Has(mgr, t, "shown")] /\ set = {t}
    OBVIOUS
<1> HIDE DEF s, d, k, set
<1>3. Arrived(s, t)
    BY <1>1, ReceivedArrived
<1>4. /\ s \in Manager /\ t \in Numbers(s) /\ t # 0 /\ x \in Tx
      /\ Balance(s) /\ NoneEarly(s) /\ Else(s, Idle, t)
      /\ Sound(x, e) /\ "submitted" \in x.flags /\ "cleared" \notin x.flags
    BY <1>3, ArrivedFields
<1>5. IsSet(s, d)
  <2>1. s.disturbances + 1 \in Nat
      BY <1>4, ManagerFields
  <2> QED
      BY <1>1, <2>1 DEF IsSet, Disturbed
<1>6. Untouched(s, d) /\ d.cur = s.cur /\ d.log = s.log /\ d.later = s.later
    BY <1>4, <1>5, SetFields
<1>7. Beside(s, d, t) /\ Balance(d) /\ NoneEarly(d) /\ d \in Manager /\ Numbers(d) = Numbers(s) /\ d.tx = s.tx
  <2>1. d \in Manager /\ d.tx = s.tx /\ Numbers(d) = Numbers(s)
      BY <1>6 DEF Untouched, Numbers
  <2>2. Beside(s, d, t)
    <3>1. d.loaded = s.loaded /\ d.delaying = s.delaying /\ d.misled = s.misled
          /\ d.unbalanced = s.unbalanced /\ d.lost = s.lost /\ d \in Manager /\ d.tx = s.tx
        BY <1>6 DEF Untouched
    <3> QED
        BY <1>6, <3>1 DEF Beside
  <2> QED
      BY <1>4, <1>6, <2>1, <2>2, UntouchedBalance
<1>8. IsExcused(d, k, b) /\ b \in BOOLEAN /\ (d.unbalanced => b) /\ (Has(mgr, t, "shown") => b)
  <2>1. d.unbalanced \in BOOLEAN
      BY <1>7, ManagerFields
  <2> QED
      BY <1>2, <2>1 DEF IsExcused
<1> HIDE DEF b
<1>9. Beside(d, k, t) /\ k.tx = d.tx /\ k.unbalanced = b /\ Balance(k) /\ NoneEarly(k)
    BY <1>4, <1>7, <1>8, ExcusedEffect
<1>10. Beside(s, k, t) /\ k \in Manager /\ Numbers(k) = Numbers(s) /\ k.tx = s.tx
    BY <1>4, <1>7, <1>9, BesideTransitive, BesideFields
<1>11. /\ f.loaded = e.loaded /\ f.misled = e.misled /\ (f.balanced => e.balanced)
       /\ f.open = e.open /\ f.queued = e.queued
       /\ (f.balanced => ~f.misled) /\ f.phase = "idle" /\ e.phase = "idle"
  <2>1. Idle.t # t
      BY <1>0, <1>4
  <2>2. e = Situation(s, Idle, t) /\ f = Situation(k, Idle, t)
      OBVIOUS
  <2> HIDE DEF e, f
  <2> QED
      BY <1>0, <1>10, <2>1, <2>2, BesideSituation
<1>12. f.balanced => "shown" \notin x.flags
  <2>1. x.flags = mgr.tx[t].flags \ {"abort", "replying"}
      BY <1>3 DEF Arrived
  <2> QED
      BY <1>8, <1>9, <2>1 DEF Situation, Has
<1>13. Resendable(x, f)
  <2> HIDE DEF x, e, f
  <2>1. UnsentOK(x, f) /\ MarksOK(x, f)
      BY <1>4, <1>11 DEF Sound, UnsentOK, MarksOK
  <2>2. ~f.misled => /\ ~f.open
                     /\ "withdrawn" \notin x.flags /\ "cleared" \notin x.flags
                     /\ (~x.login /\ f.phase = "callback" => "abort" \in x.flags)
      BY <1>4, <1>11 DEF Sound, QueueOK
  <2> QED
      BY <1>11, <1>12, <2>1, <2>2 DEF Resendable
<1>14. Else(k, Idle, t)
  <2>1. Apart(Idle, Idle, t)
      BY DEF Apart
  <2> QED
      BY <1>4, <1>9, <1>10, <2>1, ElseBeside
<1>15. SetResendable(k, Idle, set)
  <2>1. ReplyOK(k, Idle)
      BY <1>0 DEF ReplyOK
  <2>2. set \in SUBSET Numbers(k)
      BY <1>2, <1>4, <1>10
  <2>3. ASSUME NEW v \in set PROVE Resendable(k.tx[v], Situation(k, Idle, v))
      BY <1>2, <1>10, <1>13
  <2>4. ASSUME NEW v \in Numbers(k) \ set PROVE Good(k.tx[v], Situation(k, Idle, v))
      BY <1>2, <1>14 DEF Else
  <2> QED
      BY <1>14, <2>1, <2>2, <2>3, <2>4 DEF SetResendable, Else
<1>16. WF(mgr', Idle) /\ Steps(k, mgr', 0)
    BY <1>1, <1>15, ResubmittedIsGood
<1>17. Steps(s, k, 0)
  <2>1. \A u \in Numbers(s) : s.tx[u] \in Tx
      BY <1>4, ManagerFields
  <2>2. \A u \in Numbers(s) : StepTx(s.tx[u], k.tx[u], k.misled, u = 0)
      BY <1>10, <2>1, StepTxReflexive
  <2>3. k.misled = s.misled
      BY <1>10, BesideFields
  <2> QED
      BY <1>10, <2>2, <2>3 DEF Steps
<1>18. mgr' \in Manager
    BY <1>16 DEF WF, Typed
<1>19. Steps(s, mgr', 0)
    BY <1>4, <1>10, <1>16, <1>17, <1>18, StepsTransitive
<1> QED
    BY <1>1, <1>3, <1>16, <1>19, ArrivedStep

--------------------------------------------------------------------------------
(* Requests *)

(* A new request *)

IsAppended(s, s2, x, c) == s2 = [s EXCEPT !.tx = Append(@, x), !.cur = c]

\* The fields with one transaction more
LEMMA AppendedFields ==
    ASSUME NEW s \in Manager, NEW x \in Tx, NEW c \in Nat, NEW s2, IsAppended(s, s2, x, c)
    PROVE  /\ s2 \in Manager /\ s2.tx = Append(s.tx, x) /\ s2.cur = c
           /\ s2.prompts = s.prompts /\ s2.loaded = s.loaded /\ s2.delaying = s.delaying
           /\ s2.misled = s.misled /\ s2.unbalanced = s.unbalanced /\ s2.lost = s.lost
           /\ s2.log = s.log /\ s2.later = s.later
<1>1. s.tx \in Seq(Tx)
    BY ManagerFields
<1> DEFINE q == Append(s.tx, x)
<1>2. q \in Seq(Tx)
    BY <1>1
<1>3. s2 = [s EXCEPT !.tx = q, !.cur = c]
    BY DEF IsAppended
<1> HIDE DEF q
<1>4. /\ s2 \in Manager /\ s2.tx = q /\ s2.cur = c
      /\ s2.prompts = s.prompts /\ s2.loaded = s.loaded /\ s2.delaying = s.delaying
      /\ s2.misled = s.misled /\ s2.unbalanced = s.unbalanced /\ s2.lost = s.lost
      /\ s2.log = s.log /\ s2.later = s.later
    BY <1>2, <1>3 DEF Manager
<1> QED
    BY <1>4 DEF q

\* What is known of the new one, and that the others are the same
LEMMA AppendedEffect ==
    ASSUME NEW s \in Manager, NEW x \in Tx, x.flags = {}, NEW c \in Nat, NEW s2, IsAppended(s, s2, x, c),
           NEW n, n = Len(s.tx) + 1
    PROVE  /\ n \in Nat \ {0} /\ n \notin Numbers(s) /\ Numbers(s2) = Numbers(s) \cup {n}
           /\ s2.tx[n] = x /\ \A t \in Numbers(s) : s2.tx[t] = s.tx[t]
           /\ Queued(s2) = Queued(s) /\ (Balance(s) => Balance(s2)) /\ Steps(s, s2, 0)
<1>1. s.tx \in Seq(Tx) /\ Len(s.tx) \in Nat /\ \A t \in Numbers(s) : s.tx[t] \in Tx
    BY ManagerFields
<1>2. /\ s2.tx = Append(s.tx, x) /\ s2.misled = s.misled /\ s2.log = s.log /\ s2.later = s.later
      /\ s2.prompts = s.prompts /\ s2.loaded = s.loaded /\ s2.delaying = s.delaying
      /\ s2.unbalanced = s.unbalanced
    BY AppendedFields
<1>3. n \in Nat \ {0} /\ n \notin Numbers(s)
    BY <1>1 DEF Numbers
<1>4. Numbers(s2) = Numbers(s) \cup {n}
  <2>1. Len(s2.tx) = Len(s.tx) + 1
      BY <1>1, <1>2
  <2> QED
      BY <1>1, <2>1 DEF Numbers
<1>5. s2.tx[n] = x /\ \A t \in Numbers(s) : s2.tx[t] = s.tx[t]
    BY <1>1, <1>2 DEF Numbers
<1>6. Queued(s2) = Queued(s)
    BY <1>2 DEF Queued
<1>7. Shown(s2) = Shown(s)
    BY <1>3, <1>4, <1>5 DEF Shown, Has
<1>8. Balance(s) => Balance(s2)
    BY <1>2, <1>7 DEF Balance
<1>9. Steps(s, s2, 0)
  <2>1. \A u \in Numbers(s) : StepTx(s.tx[u], s2.tx[u], s2.misled, u = 0)
      BY <1>1, <1>5, StepTxReflexive
  <2> QED
      BY <1>2, <1>4, <2>1 DEF Steps
<1> QED
    BY <1>3, <1>4, <1>5, <1>6, <1>8, <1>9

\* A transaction more, the current one or not, leaves the others as they were
LEMMA AppendedOthers ==
    ASSUME NEW s, NEW r, WF(s, r), NEW x \in Tx, x.flags = {}, NEW s2, NEW n, n = Len(s.tx) + 1,
           NEW c, c \in {s.cur, n}, IsAppended(s, s2, x, c)
    PROVE  /\ s2 \in Manager /\ n \in Numbers(s2) /\ Typed(s2) /\ ReplyOK(s2, r) /\ Balance(s2)
           /\ Steps(s, s2, 0) /\ s2.tx[n] = x
           /\ \A t \in Numbers(s2) \ {n} : Good(s2.tx[t], Situation(s2, r, t))
           /\ n \notin Queued(s2) /\ r.t # n /\ (c = s.cur => s2.cur # n) /\ n # 0
<1>1. /\ s \in Manager /\ s.cur \in {0} \cup Numbers(s) /\ Queued(s) \cup s.lost \subseteq Numbers(s)
      /\ ReplyOK(s, r) /\ Balance(s)
    BY DEF WF, Typed
<1>2. s.cur \in Nat /\ Len(s.tx) \in Nat
    BY <1>1, ManagerFields
<1>3. c \in Nat
    BY <1>2
<1>4. /\ s2 \in Manager /\ s2.cur = c
      /\ s2.loaded = s.loaded /\ s2.misled = s.misled /\ s2.unbalanced = s.unbalanced /\ s2.lost = s.lost
    BY <1>1, <1>3, AppendedFields
<1>5. /\ n \in Nat \ {0} /\ n \notin Numbers(s) /\ Numbers(s2) = Numbers(s) \cup {n}
      /\ s2.tx[n] = x /\ \A t \in Numbers(s) : s2.tx[t] = s.tx[t]
      /\ Queued(s2) = Queued(s) /\ Balance(s2) /\ Steps(s, s2, 0)
    BY <1>1, <1>3, AppendedEffect
<1>6. Typed(s2)
    BY <1>1, <1>4, <1>5 DEF Typed
<1>7. ReplyOK(s2, r) /\ r.t # n
    BY <1>1, <1>5 DEF ReplyOK
<1>8. ASSUME NEW t \in Numbers(s2) \ {n} PROVE Good(s2.tx[t], Situation(s2, r, t))
  <2> DEFINE y == s.tx[t]
             e == Situation(s, r, t)
             f == Situation(s2, r, t)
  <2>1. t \in Numbers(s) /\ t # n /\ s2.tx[t] = y
      BY <1>5
  <2>2. Good(y, e)
      BY <2>1 DEF WF
  <2>3. /\ f.loaded = e.loaded /\ f.misled = e.misled /\ f.balanced = e.balanced
        /\ (f.open => e.open) /\ f.lost = e.lost /\ f.queued = e.queued
        /\ f.phase = e.phase /\ f.op = e.op
      BY <1>4, <1>5, <2>1 DEF Situation
  <2> HIDE DEF y, e, f
  <2>4. Good(y, f)
      BY <2>2, <2>3, GoodElsewhere
  <2> QED
      BY <2>1, <2>4 DEF f
<1> QED
    BY <1>1, <1>4, <1>5, <1>6, <1>7, <1>8

\* createTransaction
LEMMA NewTransactionFields ==
    ASSUME NEW kind, NEW x, x = NewTransaction(kind)
    PROVE  /\ x \in Tx /\ x.flags = {} /\ x.flight = 0 /\ ~x.armed /\ x.orphans = 0 /\ ~x.slot
           /\ Fresh(x) /\ x.login = IsLogin(kind)
<1>1. IsClient(kind) \in BOOLEAN /\ IsLogin(kind) \in BOOLEAN /\ HasPrompt(kind) \in BOOLEAN
    BY DEF IsClient, IsLogin, HasPrompt
<1>2. <<0>> \in Seq(Nat) /\ <<0>> # <<>> /\ \A op \in DOMAIN <<0>> : <<0>>[op] = 0
    OBVIOUS
<1> QED
    BY <1>1, <1>2 DEF NewTransaction, Tx, Fresh

\* A request with credentials is sent by itself
LEMMA LoginSent ==
    ASSUME NEW s, NEW r, WF(s, r), NEW kind, IsLogin(kind), NEW x, x = NewTransaction(kind),
           NEW s1, IsAppended(s, s1, x, s.cur), NEW n, n = Len(s.tx) + 1, NEW s2, s2 = Submitted(s1, {n})
    PROVE  WF(s2, r) /\ Steps(s, s2, 0)
<1> DEFINE set == {n}
           f == Situation(s1, r, n)
<1>1. /\ x \in Tx /\ x.flags = {} /\ x.flight = 0 /\ ~x.armed /\ x.orphans = 0 /\ ~x.slot
      /\ Fresh(x) /\ x.login
    BY NewTransactionFields
<1>2. /\ s1 \in Manager /\ n \in Numbers(s1) /\ Typed(s1) /\ ReplyOK(s1, r) /\ Balance(s1)
      /\ Steps(s, s1, 0) /\ s1.tx[n] = x
      /\ \A t \in Numbers(s1) \ {n} : Good(s1.tx[t], Situation(s1, r, t))
      /\ n \notin Queued(s1) /\ r.t # n /\ s1.cur # n
  <2> DEFINE c == s.cur
  <2>1. c \in {s.cur, n} /\ IsAppended(s, s1, x, c) /\ c = s.cur
      OBVIOUS
  <2> HIDE DEF c
  <2> QED
      BY <1>1, <2>1, AppendedOthers
<1>3. ~f.open /\ ~f.queued /\ f.phase = "idle" /\ (f.balanced => ~f.misled)
    BY <1>2 DEF Situation
<1>4. Sendable(x, f)
  <2> HIDE DEF f
  <2> QED
      BY <1>1, <1>3 DEF Sendable, UnsentOK, MarksOK
<1>5. set = {n} /\ s2 = Submitted(s1, set)
    OBVIOUS
<1> HIDE DEF set
<1>6. SetReady(s1, r, set)
  <2>1. ASSUME NEW t \in set PROVE Sendable(s1.tx[t], Situation(s1, r, t))
      BY <1>2, <1>4, <1>5
  <2>2. ASSUME NEW t \in Numbers(s1) \ set PROVE Good(s1.tx[t], Situation(s1, r, t))
      BY <1>2, <1>5
  <2>3. set \in SUBSET Numbers(s1)
      BY <1>2, <1>5
  <2> QED
      BY <1>2, <2>1, <2>2, <2>3 DEF SetReady
<1>7. WF(s2, r) /\ Steps(s1, s2, 0)
    BY <1>5, <1>6, SubmittedIsGood
<1>8. s \in Manager /\ s2 \in Manager
    BY <1>7 DEF WF, Typed
<1>9. Steps(s, s2, 0)
    BY <1>2, <1>7, <1>8, StepsTransitive
<1> QED
    BY <1>7, <1>9

\* The first request of a new queue
LEMMA QueueOpened ==
    ASSUME NEW s, NEW r, WF(s, r), s.cur = 0, NEW x \in Tx, x.flags = {}, x.flight = 0, ~x.armed,
           x.orphans = 0, ~x.slot, Fresh(x), NEW n, n = Len(s.tx) + 1, NEW s2, IsAppended(s, s2, x, n)
    PROVE  WF(s2, r) /\ Steps(s, s2, 0)
<1> DEFINE f == Situation(s2, r, n)
<1>1. /\ s2 \in Manager /\ n \in Numbers(s2) /\ Typed(s2) /\ ReplyOK(s2, r) /\ Balance(s2)
      /\ Steps(s, s2, 0) /\ s2.tx[n] = x
      /\ \A t \in Numbers(s2) \ {n} : Good(s2.tx[t], Situation(s2, r, t))
      /\ n \notin Queued(s2) /\ r.t # n
  <2> DEFINE c == n
  <2>1. c \in {s.cur, n} /\ IsAppended(s, s2, x, c)
      OBVIOUS
  <2> HIDE DEF c
  <2> QED
      BY <2>1, AppendedOthers
<1>2. ~f.queued /\ f.phase = "idle"
    BY <1>1 DEF Situation
<1>3. Good(x, f)
  <2> HIDE DEF f
  <2> QED
      BY <1>2, UnsentIsGood
<1> QED
    BY <1>1, <1>3 DEF WF

\* A request joins the queue
IsJoined(s, s2, t, kind) == s2 = [s EXCEPT !.tx[t] = Joined(@, kind)]

\* addRequestToTransaction
LEMMA JoinedFields ==
    ASSUME NEW x \in Tx, NEW kind, NEW y, y = Joined(x, kind)
    PROVE  /\ y \in Tx /\ y.flags = x.flags /\ y.flight = x.flight /\ y.armed = x.armed
           /\ y.orphans = x.orphans /\ y.slot = x.slot /\ y.login = x.login
           /\ (Fresh(x) => Fresh(y)) /\ DOMAIN x.got \subseteq DOMAIN y.got
           /\ \A op \in DOMAIN x.got : y.got[op] = x.got[op]
<1> DEFINE q == x.got
           g == Append(q, 0)
           b == x.client /\ IsClient(kind)
           p == x.prompt \/ HasPrompt(kind)
<1>1. q \in Seq(Nat) /\ q # <<>> /\ x.client \in BOOLEAN /\ x.prompt \in BOOLEAN
    BY TxFields
<1>2. y = [x EXCEPT !.got = g, !.client = b, !.prompt = p]
    BY DEF Joined
<1>3. /\ g \in Seq(Nat) /\ g # <<>> /\ DOMAIN q \subseteq DOMAIN g
      /\ \A op \in DOMAIN q : g[op] = q[op]
      /\ \A op \in DOMAIN g : op \in DOMAIN q \/ g[op] = 0
  <2> HIDE DEF q
  <2> QED
      BY <1>1
<1>4. b \in BOOLEAN /\ p \in BOOLEAN
    BY <1>1 DEF HasPrompt, IsClient
<1> HIDE DEF g, b, p
<1>5. /\ y \in Tx /\ y.flags = x.flags /\ y.flight = x.flight /\ y.armed = x.armed
      /\ y.orphans = x.orphans /\ y.slot = x.slot /\ y.login = x.login /\ y.got = g
    BY <1>2, <1>3, <1>4 DEF Tx
<1>6. Fresh(x) => Fresh(y)
    BY <1>3, <1>5 DEF Fresh
<1> HIDE DEF q
<1> QED
    BY <1>3, <1>5, <1>6 DEF q

\* A request joins the queue being filled
LEMMA QueueJoined ==
    ASSUME NEW s, NEW r, WF(s, r), NEW t \in Numbers(s), s.cur = t, "submitted" \notin s.tx[t].flags,
           NEW kind, NEW s2, IsJoined(s, s2, t, kind)
    PROVE  WF(s2, r) /\ Steps(s, s2, 0)
<1> DEFINE x == s.tx[t]
           y == Joined(x, kind)
           e == Situation(s, r, t)
           f == Situation(s2, r, t)
           b == s2.misled
<1>1. /\ s \in Manager /\ Balance(s) /\ NoneEarly(s) /\ ReplyOK(s, r) /\ Else(s, r, t)
      /\ Good(x, e) /\ x \in Tx /\ t # 0 /\ x.flight \in Nat /\ x.got \in Seq(Nat)
    BY WFParts
<1>2. y = Joined(x, kind)
    OBVIOUS
<1>3. IsPut(s, s2, t, y)
    BY DEF IsPut, IsJoined
<1> HIDE DEF y
<1>4. /\ y \in Tx /\ y.flags = x.flags /\ y.flight = x.flight /\ y.armed = x.armed
      /\ y.orphans = x.orphans /\ y.slot = x.slot /\ y.login = x.login
      /\ (Fresh(x) => Fresh(y)) /\ DOMAIN x.got \subseteq DOMAIN y.got
      /\ \A op \in DOMAIN x.got : y.got[op] = x.got[op]
    BY <1>1, <1>2, JoinedFields
<1>5. /\ Beside(s, s2, t) /\ s2.tx[t] = y
      /\ s2.prompts = s.prompts /\ s2.unbalanced = s.unbalanced /\ s2.lost = s.lost
    BY <1>1, <1>3, <1>4, ReplacedBeside
<1>6. /\ f.misled = e.misled /\ f.queued = e.queued /\ f.phase = e.phase /\ e.open
  <2>1. (r.t = t \/ r.t # t) /\ e.open
      BY DEF Situation
  <2>2. e = Situation(s, r, t) /\ f = Situation(s2, r, t) /\ Beside(s, s2, t)
      BY <1>5
  <2> HIDE DEF e, f
  <2> QED
      BY <2>1, <2>2, BesideSituation
<1>7. Good(y, f)
  <2>1. /\ x.flags \subseteq {"withdrawn"} /\ x.flight = 0 /\ ~x.armed /\ x.orphans = 0 /\ ~x.slot
        /\ ~e.queued /\ Fresh(x) /\ e.phase = "idle"
      BY <1>1 DEF Good, Sound, UnsentOK
  <2>2. ~e.misled => "withdrawn" \notin x.flags
      BY <1>1, <1>6 DEF Good, Sound, QueueOK
  <2>3. "submitted" \notin x.flags
      OBVIOUS
  <2> HIDE DEF x, e, f
  <2> QED
      BY <1>4, <1>6, <2>1, <2>2, <2>3, UnsentIsGood
<1>8. Balance(s2) /\ NoneEarly(s2)
    BY <1>1, <1>4, <1>5, BalanceKept
<1>9. WF(s2, r)
  <2>1. ReplyOK(s2, r) /\ Apart(r, r, t)
    <3>1. Numbers(s2) = Numbers(s)
        BY <1>5, BesideFields
    <3> QED
        BY <1>1, <3>1 DEF ReplyOK, Apart
  <2> QED
      BY <1>5, <1>7, <1>8, <2>1, OwnStepWF
<1>10. Steps(s, s2, 0)
  <2>1. StepTx(x, y, b, t = 0)
    <3>1. \A op \in DOMAIN x.got : y.got[op] <= x.got[op]
      <4>1. \A op \in DOMAIN x.got : x.got[op] \in Nat
        <5> DEFINE q == x.got
        <5>1. q \in Seq(Nat)
            BY <1>1
        <5> HIDE DEF q
        <5>2. \A op \in DOMAIN q : q[op] \in Nat
            BY <5>1
        <5> QED
            BY <5>2 DEF q
      <4> HIDE DEF x
      <4> QED
          BY <1>4, <4>1
    <3>2. y.flight <= x.flight
        BY <1>1, <1>4
    <3> HIDE DEF x, b
    <3> QED
        BY <1>4, <3>1, <3>2 DEF StepTx
  <2>2. StepTx(s.tx[t], s2.tx[t], s2.misled, t = 0)
      BY <1>5, <2>1
  <2> QED
      BY <1>1, <1>5, <2>2, StepsBeside
<1> QED
    BY <1>9, <1>10

\* sendRequest
LEMMA SendRequestStep ==
    ASSUME WF(mgr, reply), NEW kind, SendRequest(kind)
    PROVE  Progress
<1> DEFINE x == NewTransaction(kind)
           new == Append(mgr.tx, x)
           n == Len(mgr.tx) + 1
           t == mgr.cur
           joined == [mgr EXCEPT !.tx[mgr.cur] = Joined(@, kind)]
           opened == [mgr EXCEPT !.tx = new, !.cur = Len(new)]
           queued == IF mgr.cur = 0 THEN opened ELSE joined
           alone == [mgr EXCEPT !.tx = new]
<1>1. /\ mgr.cur # 0 /\ ~IsLogin(kind) => ~Has(mgr, mgr.cur, "submitted")
      /\ reply' = reply
      /\ mgr' = IF IsLogin(kind) THEN Submitted(alone, {Len(new)})
                ELSE IF mgr.queuing THEN queued
                ELSE SentQueue(queued)
    BY DEF SendRequest
<1>2. mgr \in Manager /\ mgr.tx \in Seq(Tx) /\ mgr.cur \in {0} \cup Numbers(mgr)
    BY ManagerFields DEF WF, Typed
<1>3. /\ x \in Tx /\ x.flags = {} /\ x.flight = 0 /\ ~x.armed /\ x.orphans = 0 /\ ~x.slot
      /\ Fresh(x) /\ x = NewTransaction(kind)
  <2> DEFINE w == NewTransaction(kind)
  <2>1. w = NewTransaction(kind)
      OBVIOUS
  <2> HIDE DEF w
  <2> QED
      BY <2>1, NewTransactionFields
<1> HIDE DEF x
<1>4. Len(new) = n
    BY <1>2, <1>3
<1>5. IsAppended(mgr, alone, x, mgr.cur)
    BY <1>2 DEF IsAppended, Manager
<1>6. IsAppended(mgr, opened, x, n)
    BY <1>4 DEF IsAppended
<1>7. IsJoined(mgr, joined, t, kind)
    BY DEF IsJoined
<1>8. CASE IsLogin(kind)
  <2>1. mgr' = Submitted(alone, {n}) /\ n = Len(mgr.tx) + 1
      BY <1>1, <1>4, <1>8
  <2> HIDE DEF alone, n
  <2>2. WF(mgr', reply) /\ Steps(mgr, mgr', 0)
      BY <1>3, <1>5, <1>8, <2>1, LoginSent
  <2> QED
      BY <1>1, <2>2, ProgressAny
<1>9. CASE ~IsLogin(kind)
  <2>1. mgr' = IF mgr.queuing THEN queued ELSE SentQueue(queued)
      BY <1>1, <1>9
  <2>2. WF(queued, reply) /\ Steps(mgr, queued, 0)
    <3>1. CASE mgr.cur = 0
      <4>1. queued = opened /\ n = Len(mgr.tx) + 1
          BY <3>1
      <4> HIDE DEF opened, queued, n
      <4> QED
          BY <1>3, <1>6, <3>1, <4>1, QueueOpened
    <3>2. CASE mgr.cur # 0
      <4>1. queued = joined /\ t \in Numbers(mgr) /\ mgr.cur = t /\ "submitted" \notin mgr.tx[t].flags
          BY <1>1, <1>2, <1>9, <3>2 DEF Has
      <4> HIDE DEF joined, queued, t
      <4> QED
          BY <1>7, <4>1, QueueJoined
    <3> QED
        BY <3>1, <3>2
  <2> HIDE DEF queued
  <2>3. CASE mgr.queuing
      BY <1>1, <2>1, <2>2, <2>3, ProgressAny
  <2>4. CASE ~mgr.queuing
    <3>1. mgr' = SentQueue(queued)
        BY <2>1, <2>4
    <3>2. WF(mgr', reply) /\ Steps(queued, mgr', 0)
        BY <2>2, <3>1, SentQueueIsGood
    <3>3. queued \in Manager /\ mgr' \in Manager
        BY <2>2, <3>2 DEF WF, Typed
    <3>4. Steps(mgr, mgr', 0)
        BY <1>2, <2>2, <3>2, <3>3, StepsTransitive
    <3> QED
        BY <1>1, <3>2, <3>4, ProgressAny
  <2> QED
      BY <2>3, <2>4
<1> QED
    BY <1>8, <1>9

--------------------------------------------------------------------------------
(* The theorems *)

\* Before the first request
LEMMA InitIsGood ==
    ASSUME Init
    PROVE  GoodInv
<1>1. <<>> \in Seq(Tx) /\ <<>> \in Seq(Nat)
    OBVIOUS
<1>2. mgr \in Manager
    BY <1>1 DEF Init, Manager
<1>3. mgr.tx = <<>> /\ mgr.cur = 0 /\ mgr.log = <<>> /\ mgr.later = <<>> /\ mgr.lost = {}
      /\ mgr.prompts = 0 /\ ~mgr.delaying /\ reply = Idle
    BY DEF Init
<1>4. Numbers(mgr) = {}
    BY <1>3 DEF Numbers
<1>5. Queued(mgr) = {}
    BY <1>3 DEF Queued, ToSet
<1>6. Typed(mgr)
    BY <1>2, <1>3, <1>4, <1>5 DEF Typed
<1>7. ReplyOK(mgr, reply)
    BY <1>3 DEF ReplyOK, Idle, Replies, Phases
<1>8. Balance(mgr)
  <2>1. Shown(mgr) = {}
      BY <1>4 DEF Shown
  <2> QED
      BY <1>3, <2>1, FS_EmptySet DEF Balance
<1> QED
    BY <1>4, <1>6, <1>7, <1>8 DEF GoodInv, WF

\* Whatever happens to one transaction
LEMMA TransactionStep ==
    ASSUME WF(mgr, reply), NEW t \in Numbers(mgr),
           \/ CancelTransaction(t) \/ Suspend(t) \/ Resend(t)
           \/ TimerFires(t) \/ OrphanFires(t)
           \/ AnswerDropped(t)
           \/ \E op \in 0 .. Len(mgr.tx[t].got) : Results(t, op)
           \/ TransportError(t) \/ LoginRequired(t) \/ CredentialsAnswered(t) \/ Retry(t)
    PROVE  Progress
<1>1. CASE CancelTransaction(t)
    BY <1>1, CancelTransactionStep
<1>2. CASE Suspend(t)
    BY <1>2, SuspendStep
<1>3. CASE Resend(t)
    BY <1>3, ResendStep
<1>4. CASE TimerFires(t)
    BY <1>4, TimerFiresStep
<1>5. CASE OrphanFires(t)
    BY <1>5, OrphanFiresStep
<1>6. CASE AnswerDropped(t)
    BY <1>6, AnswerDroppedStep
<1>7. CASE \E op \in 0 .. Len(mgr.tx[t].got) : Results(t, op)
  <2>1. PICK op \in 0 .. Len(mgr.tx[t].got) : Results(t, op)
      BY <1>7
  <2>2. op \in Nat
      OBVIOUS
  <2> QED
      BY <2>1, <2>2, ResultsStep
<1>8. CASE TransportError(t)
    BY <1>8, TransportErrorStep
<1>9. CASE LoginRequired(t)
    BY <1>9, LoginRequiredStep
<1>10. CASE CredentialsAnswered(t)
    BY <1>10, CredentialsAnsweredStep
<1>11. CASE Retry(t)
    BY <1>11, RetryStep
<1> QED
    BY <1>1, <1>2, <1>3, <1>4, <1>5, <1>6, <1>7, <1>8, <1>9, <1>10, <1>11

\* Whatever happens
LEMMA NextIsGood ==
    ASSUME GoodInv, [Next]_vars
    PROVE  Progress
<1>0. WF(mgr, reply)
    BY DEF GoodInv
<1>1. CASE \E kind \in Kinds : SendRequest(kind)
    BY <1>0, <1>1, SendRequestStep
<1>2. CASE StartQueue
    BY <1>0, <1>2, StartQueueStep
<1>3. CASE SendQueue
    BY <1>0, <1>3, SendQueueStep
<1>4. CASE CancelQueue
    BY <1>0, <1>4, CancelQueueStep
<1>5. CASE LoginSuccess
    BY <1>0, <1>5, LoginSuccessStep
<1>6. CASE NextOperation
    BY <1>0, <1>6, NextOperationStep
<1>7. CASE EndHook
    BY <1>0, <1>7, EndHookStep
<1>8. CASE EndCredentials
    BY <1>0, <1>8, EndCredentialsStep
<1>9. CASE CallbackThrows
    BY <1>0, <1>9, CallbackThrowsStep
<1>10. CASE \E t \in Numbers(mgr) :
              \/ CancelTransaction(t) \/ Suspend(t) \/ Resend(t)
              \/ TimerFires(t) \/ OrphanFires(t)
              \/ AnswerDropped(t)
              \/ \E op \in 0 .. Len(mgr.tx[t].got) : Results(t, op)
              \/ TransportError(t) \/ LoginRequired(t) \/ CredentialsAnswered(t) \/ Retry(t)
    BY <1>0, <1>10, TransactionStep
<1>11. CASE RunLater
    BY <1>0, <1>11, RunLaterStep
<1>12. CASE PageLoad
    BY <1>0, <1>12, PageLoadStep
<1>13. CASE GoOffline
    BY <1>0, <1>13, GoOfflineStep
<1>14. CASE GoOnline
    BY <1>0, <1>14, GoOnlineStep
<1>15. CASE UNCHANGED vars
  <2>1. mgr' = mgr /\ reply' = reply
      BY <1>15 DEF vars
  <2>2. mgr \in Manager
      BY <1>0 DEF WF, Typed
  <2> QED
      BY <1>0, <2>1, <2>2, StepsReflexive DEF Progress
<1> QED
    BY <1>1, <1>2, <1>3, <1>4, <1>5, <1>6, <1>7, <1>8, <1>9, <1>10, <1>11, <1>12, <1>13, <1>14, <1>15
    DEF Next

\* Every transaction, in every state the manager reaches, is as Good says, and the count of
\* prompts is balanced.
THEOREM Inductive == Spec => []GoodInv
<1>1. Init => GoodInv
    BY InitIsGood
<1>2. GoodInv /\ [Next]_vars => GoodInv'
    BY NextIsGood DEF Progress, GoodInv
<1> QED
    BY <1>1, <1>2, PTL DEF Spec

\* What the invariant says of one transaction
LEMMA EachIsGood ==
    ASSUME GoodInv, NEW t \in Numbers(mgr)
    PROVE  /\ Good(mgr.tx[t], Situation(mgr, reply, t)) /\ mgr.tx[t] \in Tx /\ t # 0
<1>1. mgr \in Manager
    BY DEF GoodInv, WF, Typed
<1> QED
    BY <1>1, ManagerFields DEF GoodInv, WF

\* Of any number of requests, however they are queued, cancelled, suspended, retried, timed
\* out, logged and played back: the callback of none is called twice for one submission, with
\* the exceptions AnsweredOncePerSend names (_performTransactionReply, _timeoutTransaction).
THEOREM AnsweredOnce == Spec => []AnsweredOncePerSend
<1>1. GoodInv => AnsweredOncePerSend
  <2> SUFFICES ASSUME GoodInv, NEW t \in Numbers(mgr), NEW op \in DOMAIN mgr.tx[t].got
               PROVE  \/ mgr.tx[t].got[op] <= 1
                      \/ Has(mgr, t, "thrown") \/ t \in mgr.lost
                      \/ mgr.tx[t].login
      BY DEF AnsweredOncePerSend
  <2> DEFINE x == mgr.tx[t]
             e == Situation(mgr, reply, t)
  <2>1. OnceOK(x, e)
      BY EachIsGood DEF Good, Sound
  <2>2. Excused(x, e) => Has(mgr, t, "thrown") \/ t \in mgr.lost \/ x.login
      BY DEF Excused, Has, Situation
  <2> HIDE DEF e
  <2> QED
      BY <2>1, <2>2 DEF OnceOK
<1> QED
    BY <1>1, Inductive, PTL

\* What the manager has cleared was answered, each request of it, since it was last sent, or
\* was withdrawn by the application (_performTransactionReply clears only at the end of an
\* uninterrupted loop).
THEOREM Cleared == Spec => []ClearedIsAnswered
<1>1. GoodInv => ClearedIsAnswered
  <2> SUFFICES ASSUME GoodInv, NEW t \in Numbers(mgr),
                      Has(mgr, t, "cleared"), ~Has(mgr, t, "withdrawn"), ~mgr.tx[t].login, ~mgr.misled
               PROVE  \A op \in DOMAIN mgr.tx[t].got : mgr.tx[t].got[op] >= 1
      BY DEF ClearedIsAnswered
  <2> DEFINE x == mgr.tx[t]
             e == Situation(mgr, reply, t)
  <2>1. ClearedOK(x, e)
      BY EachIsGood DEF Good, Sound
  <2>2. e.misled = mgr.misled
      BY DEF Situation
  <2> HIDE DEF e
  <2> QED
      BY <2>1, <2>2 DEF ClearedOK, Has
<1> QED
    BY <1>1, Inductive, PTL

\* Whatever was submitted and not cleared has something left that will bring it on: a timer, an
\* answer under way, the log, a delayed call, or the one who suspended it.
THEOREM NoneForgotten == Spec => []NobodyForgotten
<1>1. GoodInv => NobodyForgotten
  <2> SUFFICES ASSUME GoodInv, NEW t \in Live(mgr), Has(mgr, t, "submitted")
               PROVE  WayForward(t) \/ Has(mgr, t, "thrown") \/ t \in mgr.lost
      BY DEF NobodyForgotten
  <2> DEFINE x == mgr.tx[t]
             e == Situation(mgr, reply, t)
  <2>0. t \in Numbers(mgr) /\ "cleared" \notin x.flags
      BY DEF Live, IsLive, Has
  <2>1. ForwardOK(x, e) /\ "submitted" \in x.flags
      BY <2>0, EachIsGood DEF Good, Has
  <2>2. /\ e.loaded = mgr.loaded /\ (e.queued <=> t \in ToSet(mgr.log) \cup ToSet(mgr.later))
        /\ (e.lost <=> t \in mgr.lost) /\ (e.phase # "idle" => reply.t = t)
      BY DEF Situation, Queued
  <2> HIDE DEF e
  <2> QED
      BY <2>0, <2>1, <2>2 DEF ForwardOK, WayForward, Has
<1> QED
    BY <1>1, Inductive, PTL

\* The count of prompts is the number of transactions whose prompt is on show, through
\* suspension, relogin, cancellation, delays and resending (doClearPrompt, _sendQueue).
THEOREM Balanced == Spec => []PromptsBalanced
<1>1. GoodInv => PromptsBalanced
  <2> SUFFICES ASSUME GoodInv, ~mgr.unbalanced, ~mgr.misled
               PROVE  /\ mgr.prompts = Cardinality({t \in Numbers(mgr) : Has(mgr, t, "shown")})
                      /\ \A t \in Numbers(mgr) : Has(mgr, t, "cleared") => ~Has(mgr, t, "shown")
      BY DEF PromptsBalanced
  <2>1. mgr.prompts = Cardinality({t \in Numbers(mgr) : Has(mgr, t, "shown")})
      BY DEF GoodInv, WF, Balance, Shown
  <2>2. ASSUME NEW t \in Numbers(mgr), Has(mgr, t, "cleared") PROVE ~Has(mgr, t, "shown")
    <3> DEFINE x == mgr.tx[t]
               e == Situation(mgr, reply, t)
    <3>1. PromptOK(x, e)
        BY EachIsGood DEF Good, Sound
    <3>2. e.balanced
        BY DEF Situation
    <3> HIDE DEF e
    <3> QED
        BY <2>2, <3>1, <3>2 DEF PromptOK, Has
  <2> QED
      BY <2>1, <2>2
<1> QED
    BY <1>1, Inductive, PTL

\* The invariant bounds the values of the variables
LEMMA GoodIsTyped ==
    ASSUME GoodInv
    PROVE  TypeOK
<1>1. mgr \in Manager /\ Typed(mgr) /\ ReplyOK(mgr, reply)
    BY DEF GoodInv, WF, Typed
<1>2. ASSUME NEW t \in Numbers(mgr)
      PROVE  LET x == mgr.tx[t] IN
             /\ x.got \in Seq(Nat) /\ x.got # <<>>
             /\ {x.client, x.login, x.prompt, x.armed, x.slot} \subseteq BOOLEAN
             /\ {x.flight, x.orphans} \subseteq Nat
             /\ x.flags \subseteq Flags
  <2>1. mgr.tx[t] \in Tx
      BY <1>1, ManagerFields
  <2> QED
      BY <2>1, TxFields
<1>3. {mgr.cur, reply.t} \subseteq {0} \cup Numbers(mgr)
    BY <1>1 DEF Typed, ReplyOK
<1>4. /\ {mgr.queuing, mgr.loaded, mgr.delaying, mgr.netUp, mgr.onLine, mgr.playback,
          mgr.misled, mgr.unbalanced} \subseteq BOOLEAN
      /\ mgr.prompts \in Nat
    BY <1>1, ManagerFields
<1>5. ToSet(mgr.log) \cup ToSet(mgr.later) \cup mgr.lost \subseteq Numbers(mgr)
    BY <1>1 DEF Typed, Queued
<1>6. reply.phase \in {"idle", "callback", "hook", "credentials"}
    BY <1>1 DEF ReplyOK, Replies, Phases
<1> QED
    BY <1>2, <1>3, <1>4, <1>5, <1>6 DEF TypeOK

\* sendRequest adds requests to a queue that was not sent, and to none that is gone.
THEOREM QueueUnsent == Spec => []OpenQueueUnsent
<1>1. GoodInv => OpenQueueUnsent
  <2> SUFFICES ASSUME GoodInv, mgr.cur # 0, ~mgr.misled
               PROVE  {"submitted", "cleared"} \cap mgr.tx[mgr.cur].flags = {}
      BY GoodIsTyped DEF OpenQueueUnsent
  <2> DEFINE t == mgr.cur
             x == mgr.tx[t]
             e == Situation(mgr, reply, t)
  <2>0. t \in Numbers(mgr)
      BY DEF GoodInv, WF, Typed
  <2>1. QueueOK(x, e) /\ UnsentOK(x, e)
      BY <2>0, EachIsGood DEF Good, Sound
  <2>2. e.open /\ ~e.misled
      BY DEF Situation
  <2> HIDE DEF e
  <2>3. "submitted" \notin x.flags /\ "cleared" \notin x.flags
      BY <2>1, <2>2 DEF QueueOK, UnsentOK
  <2> QED
      BY <2>3
<1> QED
    BY <1>1, Inductive, PTL

\* No step sends a transaction that the application cancelled, but for a misled playback
\* (resubmitTransaction, playbackNextOfflineTransaction).
THEOREM WithdrawnUnsent == Spec => WithdrawnStaysUnsent
<1>1. GoodInv /\ [Next]_vars =>
        [\A t \in Numbers(mgr) :
           Has(mgr, t, "withdrawn") /\ mgr'.tx[t].flight > mgr.tx[t].flight => mgr'.misled]_vars
  <2> SUFFICES ASSUME GoodInv, [Next]_vars, NEW t \in Numbers(mgr), Has(mgr, t, "withdrawn"),
                      mgr'.tx[t].flight > mgr.tx[t].flight
               PROVE  mgr'.misled
      OBVIOUS
  <2> DEFINE x == mgr.tx[t]
             y == mgr'.tx[t]
  <2>1. Steps(mgr, mgr', reply.t) /\ WF(mgr', reply')
      BY NextIsGood DEF Progress
  <2>2. StepTx(x, y, mgr'.misled, t = reply.t) /\ t \in Numbers(mgr')
      BY <2>1 DEF Steps
  <2>3. x.flight \in Nat /\ y.flight \in Nat
    <3>1. mgr' \in Manager
        BY <2>1 DEF WF, Typed
    <3>2. x \in Tx /\ y \in Tx
        BY <2>2, <3>1, EachIsGood, ManagerFields
    <3> HIDE DEF x, y
    <3> QED
        BY <3>2, TxFields
  <2>4. "withdrawn" \in x.flags /\ y.flight > x.flight
      BY DEF Has
  <2> HIDE DEF x, y
  <2> QED
      BY <2>2, <2>3, <2>4 DEF StepTx
<1> QED
    BY <1>1, Inductive, PTL DEF Spec, WithdrawnStaysUnsent

\* No step calls back for a cleared transaction, but in the reply during which it was cleared.
THEOREM NoneAfterClear == Spec => NoAnswerAfterClear
<1>1. GoodInv /\ [Next]_vars =>
        [\A t \in Numbers(mgr) :
           Has(mgr, t, "cleared")
             /\ (\E op \in DOMAIN mgr.tx[t].got : mgr'.tx[t].got[op] > mgr.tx[t].got[op]) => reply.t = t]_vars
  <2> SUFFICES ASSUME GoodInv, [Next]_vars, NEW t \in Numbers(mgr), Has(mgr, t, "cleared"),
                      NEW op \in DOMAIN mgr.tx[t].got, mgr'.tx[t].got[op] > mgr.tx[t].got[op]
               PROVE  reply.t = t
      OBVIOUS
  <2> DEFINE x == mgr.tx[t]
             y == mgr'.tx[t]
  <2>1. Steps(mgr, mgr', reply.t) /\ WF(mgr', reply')
      BY NextIsGood DEF Progress
  <2>2. StepTx(x, y, mgr'.misled, t = reply.t) /\ t \in Numbers(mgr')
      BY <2>1 DEF Steps
  <2>3. x.got \in Seq(Nat) /\ y.got \in Seq(Nat)
    <3>1. mgr' \in Manager
        BY <2>1 DEF WF, Typed
    <3>2. x \in Tx /\ y \in Tx
        BY <2>2, <3>1, EachIsGood, ManagerFields
    <3> HIDE DEF x, y
    <3> QED
        BY <3>2, TxFields
  <2>4. "cleared" \in x.flags /\ op \in DOMAIN x.got /\ y.got[op] > x.got[op]
      BY DEF Has
  <2> HIDE DEF x, y
  <2>5. SUFFICES ASSUME t # reply.t PROVE FALSE
      OBVIOUS
  <2>6. y.got[op] <= x.got[op] /\ DOMAIN x.got \subseteq DOMAIN y.got
      BY <2>2, <2>4, <2>5 DEF StepTx
  <2>7. x.got[op] \in Nat /\ y.got[op] \in Nat
    <3> DEFINE g == x.got
               h == y.got
    <3>1. g \in Seq(Nat) /\ h \in Seq(Nat) /\ op \in DOMAIN g /\ op \in DOMAIN h
        BY <2>3, <2>4, <2>6
    <3> HIDE DEF g, h
    <3>2. g[op] \in Nat /\ h[op] \in Nat
        BY <3>1
    <3> QED
        BY <3>2 DEF g, h
  <2> QED
      BY <2>4, <2>6, <2>7
<1> QED
    BY <1>1, Inductive, PTL DEF Spec, NoAnswerAfterClear
================================================================================
