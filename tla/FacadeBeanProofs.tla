----------------------------- MODULE FacadeBeanProofs -----------------------------
(*******************************************************************************)
(* Theorems about FacadeBean, for any clients and any number of redeployments.   *)
(*******************************************************************************)
EXTENDS FacadeBean, TLAPS

\* The rows of a transaction that has persisted this far
PendingOK(c) ==
    /\ pc[c] = "florent" => pending[c] = {Row("Florent", c)}
    /\ pc[c] = "bean" => pending[c] = {Row("Florent", c), Row("EasyBeans", c)}
    /\ pc[c] \notin {"florent", "bean"} => pending[c] = {}

\* Only a client whose init has ended owns rows, and it owns both.
RowsOK(c) ==
    /\ Row("Florent", c) \in employees <=> Row("EasyBeans", c) \in employees
    /\ Row("Florent", c) \in employees => pc[c] \notin Inserting \cup {"start"}

\* c may yet insert, or has
Owner(c) == pc[c] \in Inserting \/ Row("Florent", c) \in employees

OverlapOK == \A c, d \in Clients : (c # d /\ Owner(c) /\ Owner(d)) => c \in overlaps[d]

SomeFlorent(rows) == \E d \in Clients : Row("Florent", d) \in rows

SeenOK(c) ==
    /\ (pc[c] \in {"find", "list"} /\ ~outlived[c]) => SomeFlorent(employees)
    /\ pc[c] = "null" => outlived[c]
    /\ (pc[c] = "done" /\ ~outlived[c]) => SomeFlorent(listed[c])
    /\ \A d \in Clients :
          Row("Florent", d) \in listed[c] <=> Row("EasyBeans", d) \in listed[c]

IInv ==
    /\ TypeOK
    /\ \A c \in Clients : PendingOK(c) /\ RowsOK(c) /\ SeenOK(c)
    /\ OverlapOK

--------------------------------------------------------------------------------
\* Rows are employees, and differ by name and by the call that inserts them.
LEMMA Rows ==
    /\ \A c \in Clients : Row("Florent", c) \in Employee /\ Row("EasyBeans", c) \in Employee
    /\ \A c, d \in Clients : Row("Florent", c) # Row("EasyBeans", d)
    /\ \A n \in Names, c, d \in Clients : Row(n, c) = Row(n, d) => c = d
    BY DEF Row, Employee, Names

\* A look-up of Florent finds nobody exactly when no row has that name.
LEMMA SomeoneNamed ==
    ASSUME TypeOK
    PROVE  FoundNull("Florent") <=> ~SomeFlorent(employees)
<1>1. ASSUME NEW e \in employees, e.name = "Florent"
      PROVE  \E d \in Clients : e = Row("Florent", d)
    BY <1>1 DEF TypeOK, Employee, Row
<1>2. \A d \in Clients : Row("Florent", d).name = "Florent"
    BY DEF Row
<1>3. FoundNull("Florent") <=> \A e \in employees : e.name # "Florent"
    BY DEF FoundNull, Named
<1> QED
    BY <1>1, <1>2, <1>3 DEF SomeFlorent

\* The invariant of the tables at the start
LEMMA InitIInv == ASSUME Init PROVE IInv
    BY RedeploymentsAssumption
    DEF Init, IInv, TypeOK, PendingOK, RowsOK, OverlapOK, Owner, SeenOK, Inserting

\* Every step keeps the types.
LEMMA TypeStep == ASSUME IInv, [Next]_vars PROVE TypeOK'
<1>1. CASE \E c \in Clients : PersistFlorent(c) \/ PersistBean(c)
    BY <1>1, Rows DEF IInv, TypeOK, PersistFlorent, PersistBean, Inserting
<1>2. CASE \E c \in Clients : NotDefined(c)
    BY <1>2 DEF IInv, TypeOK, NotDefined, Inserting
<1>3. CASE \E c \in Clients : AlreadyDefined(c) \/ InitFails(c) \/ Commit(c) \/ Abort(c)
    BY <1>3 DEF IInv, TypeOK, AlreadyDefined, InitFails, Commit, Abort, Inserting, Failures
<1>4. CASE \E c \in Clients : FindFlorent(c) \/ FindEmployees(c)
    BY <1>4 DEF IInv, TypeOK, FindFlorent, FindEmployees, Failures
<1>5. CASE Redeploy
    BY <1>5, RedeploymentsAssumption DEF IInv, TypeOK, Redeploy, Failures
<1>6. CASE UNCHANGED vars
    BY <1>6 DEF IInv, TypeOK, vars
<1> QED
    BY <1>1, <1>2, <1>3, <1>4, <1>5, <1>6 DEF Next, InitBean

\* A client that only moves on, or fails, owning what it owned and seeing what it should
LEMMA MoveStep ==
    ASSUME IInv, NEW c \in Clients,
           UNCHANGED <<employees, overlaps, outlived>>,
           \A d \in Clients \ {c} : /\ pc'[d] = pc[d]
                                   /\ pending'[d] = pending[d]
                                   /\ listed'[d] = listed[d],
           PendingOK(c)', SeenOK(c)',
           pc'[c] \notin Inserting \cup {"start"} \/ (pc[c] \in Inserting /\ pc'[c] \in Inserting),
           TypeOK'
    PROVE  IInv'
<1>1. \A d \in Clients : PendingOK(d)'
    BY DEF IInv, PendingOK
<1>2. \A d \in Clients : RowsOK(d)'
    BY DEF IInv, RowsOK
<1>3. \A d \in Clients : SeenOK(d)'
    BY DEF IInv, SeenOK
<1>4. \A d \in Clients : Owner(d)' => Owner(d)
    BY DEF Owner
<1>5. OverlapOK'
    BY <1>4 DEF IInv, OverlapOK
<1> QED
    BY <1>1, <1>2, <1>3, <1>5 DEF IInv

\* The steps that neither start an insertion nor commit one keep the invariant.
LEMMA MovesPreserve ==
    ASSUME IInv, NEW c \in Clients, TypeOK',
           \/ AlreadyDefined(c) \/ InitFails(c) \/ PersistFlorent(c) \/ PersistBean(c)
           \/ Abort(c) \/ FindFlorent(c) \/ FindEmployees(c)
    PROVE  IInv'
<1>1. SomeFlorent(employees) <=> ~FoundNull("Florent")
    BY SomeoneNamed DEF IInv
<1>2. CASE AlreadyDefined(c)
  <2>1. ~FoundNull("Florent")
      BY <1>2 DEF AlreadyDefined, FoundOne, FoundNull
  <2> QED
      BY <1>1, <1>2, <2>1, MoveStep
      DEF AlreadyDefined, IInv, TypeOK, PendingOK, SeenOK, Inserting
<1>3. CASE InitFails(c)
    BY <1>3, MoveStep DEF InitFails, IInv, TypeOK, PendingOK, SeenOK, Inserting
<1>4. CASE PersistFlorent(c)
    BY <1>4, MoveStep DEF PersistFlorent, IInv, TypeOK, PendingOK, SeenOK, Inserting
<1>5. CASE PersistBean(c)
    BY <1>5, MoveStep DEF PersistBean, IInv, TypeOK, PendingOK, SeenOK, Inserting
<1>6. CASE Abort(c)
    BY <1>6, MoveStep DEF Abort, IInv, TypeOK, PendingOK, SeenOK, Inserting
<1>7. CASE FindFlorent(c)
  <2>1. PendingOK(c)' /\ pc'[c] \notin Inserting \cup {"start"}
      BY <1>7 DEF FindFlorent, IInv, TypeOK, PendingOK, Inserting
  <2>2. SeenOK(c)'
      BY <1>1, <1>7 DEF FindFlorent, IInv, TypeOK, SeenOK
  <2> QED
      BY <1>7, <2>1, <2>2, MoveStep DEF FindFlorent, IInv, TypeOK
<1>8. CASE FindEmployees(c)
  <2>1. SeenOK(c)'
      BY <1>8 DEF FindEmployees, IInv, TypeOK, SeenOK, RowsOK
  <2> QED
      BY <1>8, <2>1, MoveStep DEF FindEmployees, IInv, TypeOK, PendingOK, Inserting
<1> QED
    BY <1>2, <1>3, <1>4, <1>5, <1>6, <1>7, <1>8

\* A call that finds the tables empty, and will insert, keeps the invariant.
LEMMA NotDefinedPreserves ==
    ASSUME IInv, NEW c \in Clients, NotDefined(c), TypeOK'
    PROVE  IInv'
<1>1. \A d \in Clients : Row("Florent", d) \notin employees
    BY SomeoneNamed DEF IInv, NotDefined, SomeFlorent
<1>2. \A d \in Clients : PendingOK(d)' /\ RowsOK(d)' /\ SeenOK(d)'
  <2>1. \A d \in Clients : PendingOK(d)'
      BY DEF NotDefined, IInv, TypeOK, PendingOK
  <2>2. \A d \in Clients : RowsOK(d)'
      BY <1>1 DEF NotDefined, IInv, TypeOK, RowsOK
  <2>3. \A d \in Clients : SeenOK(d)'
      BY DEF NotDefined, IInv, TypeOK, SeenOK
  <2> QED
      BY <2>1, <2>2, <2>3
<1>3. \A d \in Clients : Owner(d)' <=> (d = c \/ Owner(d))
    BY DEF NotDefined, IInv, TypeOK, Owner, Inserting
<1>4. \A d \in Clients : Owner(d) <=> pc[d] \in Inserting
    BY <1>1 DEF Owner
<1>5. /\ \A d \in Clients \ {c} : /\ Owner(d) => d \in overlaps'[c] /\ c \in overlaps'[d]
                                 /\ overlaps[d] \subseteq overlaps'[d]
    BY <1>4 DEF NotDefined, IInv, TypeOK
<1>6. OverlapOK'
    BY <1>3, <1>5 DEF IInv, OverlapOK
<1> QED
    BY <1>2, <1>6 DEF IInv

\* A commit puts in both employees of its call.
LEMMA CommitPreserves ==
    ASSUME IInv, NEW c \in Clients, Commit(c), TypeOK'
    PROVE  IInv'
<1>1. employees' = employees \cup {Row("Florent", c), Row("EasyBeans", c)}
    BY DEF Commit, IInv, PendingOK
<1>2. \A d \in Clients : PendingOK(d)'
    BY DEF Commit, IInv, TypeOK, PendingOK
<1>3. \A d \in Clients : RowsOK(d)'
    BY <1>1, Rows DEF Commit, IInv, TypeOK, RowsOK, Inserting, Names
<1>4. \A d \in Clients : SeenOK(d)'
    BY <1>1 DEF Commit, IInv, TypeOK, SeenOK, SomeFlorent
<1>5. \A d \in Clients : Owner(d)' => Owner(d)
    BY <1>1, Rows DEF Commit, IInv, TypeOK, Owner, Inserting, Names
<1>6. OverlapOK'
    BY <1>5 DEF Commit, IInv, OverlapOK
<1> QED
    BY <1>2, <1>3, <1>4, <1>6 DEF IInv

\* A redeployment empties the tables and cuts off the transactions.
LEMMA RedeployPreserves ==
    ASSUME IInv, Redeploy, TypeOK'
    PROVE  IInv'
<1>1. \A c \in Clients : ~Owner(c)'
    BY DEF Redeploy, Owner, Inserting
<1>2. \A c \in Clients : PendingOK(c)' /\ RowsOK(c)'
    BY DEF Redeploy, IInv, PendingOK, RowsOK, Inserting
<1>3. \A c \in Clients : SeenOK(c)'
    BY DEF Redeploy, IInv, TypeOK, SeenOK, Inserting
<1> QED
    BY <1>1, <1>2, <1>3 DEF IInv, OverlapOK

\* The invariant of the tables, for any number of clients
LEMMA IInvAlways == Spec => []IInv
<1>1. ASSUME IInv, UNCHANGED vars PROVE IInv'
    BY <1>1 DEF IInv, TypeOK, PendingOK, RowsOK, OverlapOK, Owner, SeenOK, SomeFlorent, vars
<1>2. IInv /\ [Next]_vars => IInv'
    BY <1>1, TypeStep, MovesPreserve, NotDefinedPreserves, CommitPreserves, RedeployPreserves
    DEF Next, InitBean
<1> QED
    BY InitIInv, <1>2, PTL DEF Spec

--------------------------------------------------------------------------------
\* Type invariant of the bean, its tables and its clients.
THEOREM TypeCorrect == Spec => []TypeOK
<1>1. IInv => TypeOK
    BY DEF IInv
<1> QED
    BY <1>1, IInvAlways, PTL

\* The seeding is all or nothing, and every list shows it so.
THEOREM SeedingIsAtomic == Spec => []AllOrNothing
<1>1. IInv => AllOrNothing
    BY DEF IInv, RowsOK, SeenOK, AllOrNothing
<1> QED
    BY <1>1, IInvAlways, PTL

\* Employees are inserted twice only by overlapping calls of init.
THEOREM DuplicatesNeedOverlap == Spec => []DuplicatesOverlapped
<1>1. IInv => DuplicatesOverlapped
    BY DEF IInv, OverlapOK, Owner, DuplicatesOverlapped
<1> QED
    BY <1>1, IInvAlways, PTL

\* A client finds somebody after its own init, unless the tables were dropped since.
THEOREM FoundAfterInit == Spec => []NullOnlyAfterDrop
<1>1. IInv => NullOnlyAfterDrop
    BY DEF IInv, SeenOK, SomeFlorent, NullOnlyAfterDrop
<1> QED
    BY <1>1, IInvAlways, PTL
================================================================================
