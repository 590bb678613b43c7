------------------------------- MODULE RpcContract -------------------------------
(*******************************************************************************)
(* What a gwtrpc4j proxy promises about each remote call, with the threads, the *)
(* connections and the cookies left out.  A call is issued at most once, it is  *)
(* settled at most once, and the server runs its method at most once: nothing   *)
(* in the client retries.  The server may run the method after the client gave  *)
(* up (a timeout), so a "failure" says nothing about execution, but a "success" *)
(* is reported only for a method that ran.                                      *)
(*******************************************************************************)

CONSTANT Calls   \* the remote calls

VARIABLES status,    \* how far each call is
          executions \* how often the server has run the call's method

contractVars == <<status, executions>>

\* "escaped" is a call that ended with a runtime exception instead of an answer
Settled == {"success", "failure", "escaped"}

ContractInit ==
    /\ status = [c \in Calls |-> "unissued"]
    /\ executions = [c \in Calls |-> 0]

Issue(c) ==
    /\ status[c] = "unissued"
    /\ status' = [status EXCEPT ![c] = "pending"]
    /\ UNCHANGED executions

\* The proxy refuses a call it cannot encode or send: nothing leaves the client.
Refuse(c) ==
    /\ status[c] = "unissued"
    /\ status' = [status EXCEPT ![c] = "escaped"]
    /\ UNCHANGED executions

Execute(c) ==
    /\ status[c] # "unissued"
    /\ executions[c] = 0
    /\ executions' = [executions EXCEPT ![c] = 1]
    /\ UNCHANGED status

Settle(c, how) ==
    /\ status[c] = "pending"
    /\ how = "success" => executions[c] = 1
    /\ status' = [status EXCEPT ![c] = how]
    /\ UNCHANGED executions

ContractNext ==
    \E c \in Calls :
        \/ Issue(c)
        \/ Refuse(c)
        \/ Execute(c)
        \/ \E how \in Settled : Settle(c, how)

ContractSpec == ContractInit /\ [][ContractNext]_contractVars
================================================================================
