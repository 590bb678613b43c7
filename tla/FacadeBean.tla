-------------------------------- MODULE FacadeBean --------------------------------
(*******************************************************************************)
(* The stateless bean that seeds a database and looks employees up, called by    *)
(* clients that run Client.main() at the same time. Each method of the bean is a *)
(* transaction of the container over READ COMMITTED reads. A redeployment drops  *)
(* and creates the tables (persistence.xml).                                    *)
(*                                                                             *)
(* An employee is known by its name and by the client whose call inserted it; its *)
(* addresses are inserted with it (cascade) and left out.                        *)
(*******************************************************************************)
EXTENDS Naturals

CONSTANTS Clients,
          MaxRedeployments  \* bound

ASSUME RedeploymentsAssumption == MaxRedeployments \in Nat

VARIABLES pc,            \* where each client is
          employees,     \* the committed rows
          pending,       \* the rows persisted in each client's transaction
          listed,        \* what findEmployees returned to each client
          redeployments,
          overlaps,      \* ghost: the clients that were inserting while this one was
          outlived       \* ghost: the database was dropped after this client's init

vars == <<pc, employees, pending, listed, redeployments, overlaps, outlived>>

--------------------------------------------------------------------------------
Names == {"Florent", "EasyBeans"}
Employee == [name : Names, of : Clients]
Inserting == {"checked", "florent", "bean"}
\* Outcomes of a client that did not print everything: an exception of the lookup, a null
\* employee printed, a transaction that failed or that the redeployment cut off
Failures == {"nonUnique", "null", "aborted"}

Row(n, c) == [name |-> n, of |-> c]
Named(n) == {e \in employees : e.name = n}

\* findEmployeeWithItsGivenName: getSingleResult, with NoResultException mapped to null
FoundNull(n) == Named(n) = {}
FoundOne(n) == \E e \in employees : Named(n) = {e}
FoundSeveral(n) == ~FoundNull(n) /\ ~FoundOne(n)

Init ==
    /\ pc = [c \in Clients |-> "start"]
    /\ employees = {}
    /\ pending = [c \in Clients |-> {}]
    /\ listed = [c \in Clients |-> {}]
    /\ redeployments = 0
    /\ overlaps = [c \in Clients |-> {}]
    /\ outlived = [c \in Clients |-> FALSE]

--------------------------------------------------------------------------------
(* init() *)

AlreadyDefined(c) ==
    /\ pc[c] = "start"
    /\ FoundOne("Florent")
    /\ pc' = [pc EXCEPT ![c] = "find"]
    /\ UNCHANGED <<employees, pending, listed, redeployments, overlaps, outlived>>

\* Mutant: the test looks for a name that the bean never gives.
NotDefinedWrongName(c) ==
    LET rivals == {d \in Clients \ {c} : pc[d] \in Inserting} IN
    /\ pc[c] = "start"
    /\ FoundNull("florent")
    /\ pc' = [pc EXCEPT ![c] = "checked"]
    /\ overlaps' = [d \in Clients |-> IF d = c THEN rivals
                                      ELSE IF d \in rivals THEN overlaps[d] \cup {c}
                                      ELSE overlaps[d]]
    /\ UNCHANGED <<employees, pending, listed, redeployments, outlived>>

NotDefined(c) ==
    LET rivals == {d \in Clients \ {c} : pc[d] \in Inserting} IN
    /\ pc[c] = "start"
    /\ FoundNull("Florent")
    /\ pc' = [pc EXCEPT ![c] = "checked"]
    /\ overlaps' = [d \in Clients |-> IF d = c THEN rivals
                                      ELSE IF d \in rivals THEN overlaps[d] \cup {c}
                                      ELSE overlaps[d]]
    /\ UNCHANGED <<employees, pending, listed, redeployments, outlived>>

\* The exception of getSingleResult leaves the bean: only NoResultException is caught.
InitFails(c) ==
    /\ pc[c] = "start"
    /\ FoundSeveral("Florent")
    /\ pc' = [pc EXCEPT ![c] = "nonUnique"]
    /\ UNCHANGED <<employees, pending, listed, redeployments, overlaps, outlived>>

\* Mutant: the row is inserted at once, outside the transaction.
PersistFlorentNow(c) ==
    /\ pc[c] = "checked"
    /\ employees' = employees \cup {Row("Florent", c)}
    /\ pc' = [pc EXCEPT ![c] = "florent"]
    /\ UNCHANGED <<pending, listed, redeployments, overlaps, outlived>>

PersistFlorent(c) ==
    /\ pc[c] = "checked"
    /\ pending' = [pending EXCEPT ![c] = @ \cup {Row("Florent", c)}]
    /\ pc' = [pc EXCEPT ![c] = "florent"]
    /\ UNCHANGED <<employees, listed, redeployments, overlaps, outlived>>

PersistBean(c) ==
    /\ pc[c] = "florent"
    /\ pending' = [pending EXCEPT ![c] = @ \cup {Row("EasyBeans", c)}]
    /\ pc' = [pc EXCEPT ![c] = "bean"]
    /\ UNCHANGED <<employees, listed, redeployments, overlaps, outlived>>

\* Mutant: the persistence context is cleared before it is flushed.
CommitEmpty(c) ==
    /\ pc[c] = "bean"
    /\ pending' = [pending EXCEPT ![c] = {}]
    /\ pc' = [pc EXCEPT ![c] = "find"]
    /\ UNCHANGED <<employees, listed, redeployments, overlaps, outlived>>

Commit(c) ==
    /\ pc[c] = "bean"
    /\ employees' = employees \cup pending[c]
    /\ pending' = [pending EXCEPT ![c] = {}]
    /\ pc' = [pc EXCEPT ![c] = "find"]
    /\ UNCHANGED <<listed, redeployments, overlaps, outlived>>

\* The database refuses an insertion, or the commit.
Abort(c) ==
    /\ pc[c] \in Inserting
    /\ pending' = [pending EXCEPT ![c] = {}]
    /\ pc' = [pc EXCEPT ![c] = "aborted"]
    /\ UNCHANGED <<employees, listed, redeployments, overlaps, outlived>>

--------------------------------------------------------------------------------
(* The rest of main() *)

\* The client prints what it found, which a null is not.
FindFlorent(c) ==
    /\ pc[c] = "find"
    /\ pc' = [pc EXCEPT ![c] = IF FoundNull("Florent") THEN "null"
                               ELSE IF FoundOne("Florent") THEN "list"
                               ELSE "nonUnique"]
    /\ UNCHANGED <<employees, pending, listed, redeployments, overlaps, outlived>>

FindEmployees(c) ==
    /\ pc[c] = "list"
    /\ listed' = [listed EXCEPT ![c] = employees]
    /\ pc' = [pc EXCEPT ![c] = "done"]
    /\ UNCHANGED <<employees, pending, redeployments, overlaps, outlived>>

--------------------------------------------------------------------------------
\* A redeployment cuts the transactions off, then drops and creates the tables.
Redeploy ==
    /\ redeployments < MaxRedeployments
    /\ redeployments' = redeployments + 1
    /\ employees' = {}
    /\ pending' = [c \in Clients |-> {}]
    /\ pc' = [c \in Clients |-> IF pc[c] \in Inserting THEN "aborted" ELSE pc[c]]
    /\ outlived' = [c \in Clients |-> outlived[c] \/ pc[c] \in {"find", "list"}]
    /\ UNCHANGED <<listed, overlaps>>

InitBean(c) ==
    \/ AlreadyDefined(c)
    \/ NotDefined(c)
    \/ InitFails(c)
    \/ PersistFlorent(c)
    \/ PersistBean(c)
    \/ Commit(c)
    \/ Abort(c)

Next ==
    \/ \E c \in Clients : InitBean(c) \/ FindFlorent(c) \/ FindEmployees(c)
    \/ Redeploy

Spec == Init /\ [][Next]_vars

--------------------------------------------------------------------------------
TypeOK ==
    /\ pc \in [Clients -> Inserting \cup Failures \cup {"start", "find", "list", "done"}]
    /\ employees \in SUBSET Employee
    /\ pending \in [Clients -> SUBSET Employee]
    /\ listed \in [Clients -> SUBSET Employee]
    /\ redeployments \in 0..MaxRedeployments
    /\ overlaps \in [Clients -> SUBSET Clients]
    /\ outlived \in [Clients -> BOOLEAN]

\* A client's employees are all there or none is, in the database and in every list,
\* whichever transactions failed or were cut off on the way.
AllOrNothing ==
    \A c \in Clients :
        /\ Row("Florent", c) \in employees <=> Row("EasyBeans", c) \in employees
        /\ \A d \in Clients :
              Row("Florent", c) \in listed[d] <=> Row("EasyBeans", c) \in listed[d]

\* Employees are inserted twice only by calls of init that overlap: a call that begins when
\* another has ended inserts nothing.
DuplicatesOverlapped ==
    \A c, d \in Clients :
        (c # d /\ Row("Florent", c) \in employees /\ Row("Florent", d) \in employees)
            => c \in overlaps[d] /\ d \in overlaps[c]

\* After its own init a client finds somebody, unless the database was dropped since: the
\* null it would print comes from nothing else.
NullOnlyAfterDrop ==
    \A c \in Clients :
        /\ pc[c] = "null" => outlived[c]
        /\ (pc[c] = "done" /\ ~outlived[c]) => \E d \in Clients : Row("Florent", d) \in listed[c]

\* FacadeStatelessSessionBean.java:147: "the given employee, else null", and no exception.
FindsOneOrNull == \A c \in Clients : pc[c] # "nonUnique"
================================================================================
