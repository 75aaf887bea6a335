------------------------------ MODULE MCRunner ------------------------------
(* An instance of the llmify runner for TLC. *)
EXTENDS LlmifyRunner
=============================================================================
