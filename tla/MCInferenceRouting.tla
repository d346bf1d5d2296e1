------------------------- MODULE MCInferenceRouting -------------------------
(* Small instances of InferenceRouting for TLC.                            *)
EXTENDS InferenceRouting

CONSTANTS chat, planner

Fallback == <<"ollama", "groq">>

Preferred == <<"openrouter", "gemini", "groq", "cerebras", "kimi", "auto">>

ModelsOf == [ollama |-> <<"llama">>, openrouter |-> <<"lite", "free">>,
             groq |-> <<"fast", "balanced">>, cerebras |-> <<"quick", "reasoning">>]

Able == [ollama |-> {"chat", "vision"}, openrouter |-> {"chat", "vision"},
         groq |-> {"chat", "vision"}, cerebras |-> {"chat"}]

AllChat == [r \in Requests |-> {"chat"}]
=============================================================================
