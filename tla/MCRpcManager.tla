-------------------------------- MODULE MCRpcManager --------------------------------
(*******************************************************************************)
(* Instances of RpcManager for TLC.                                             *)
(*******************************************************************************)
EXTENDS RpcManager

\* A request of each way to be answered, each with the prompt that blocks the user
MCKinds == {"prompt", "clientPrompt", "loginPrompt"}
================================================================================
