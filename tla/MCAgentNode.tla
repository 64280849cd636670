----------------------------- MODULE MCAgentNode -----------------------------
(* Model-checking instance of AgentNode.                                   *)
EXTENDS AgentNode, TLC

CONSTANTS g1, h1, h2

(* A networking plugin and two processes of one hypervisor plugin.         *)
OneOfEither == g1 :> Networking @@ h1 :> "dummy" @@ h2 :> "dummy"
=============================================================================
