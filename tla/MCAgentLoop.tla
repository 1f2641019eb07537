----------------------------- MODULE MCAgentLoop -----------------------------
(***************************************************************************)
(* Small instances of AgentLoop for TLC: a question and a result without a *)
(* word in common.                                                         *)
(***************************************************************************)
EXTENDS AgentLoop, TLC

MCWords == [t \in Questions \cup Results |-> {t}]
=============================================================================
