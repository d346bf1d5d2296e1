----------------------------- MODULE MCAgentLoop -----------------------------
(* A small instance of AgentLoop for TLC.                                  *)
EXTENDS AgentLoop

CONSTANT planner

OneProvider == <<"cerebras">>

Preferred == <<"openrouter", "gemini", "groq", "cerebras", "kimi", "auto">>

ModelsOf == [cerebras |-> <<"quick", "reasoning">>]

Able == [cerebras |-> {"chat"}]

AllChat == [r \in Requests |-> {"chat"}]

ToolOf == [file |-> "read_file", symbol |-> "find_text", folder |-> "list_directory",
           saver |-> "writer", typo |-> "unregistered"]

Selectable == {"file", "symbol", "folder", "saver", "typo"}
=============================================================================
