--------------------------- MODULE MCAgentService ---------------------------
(* Small instances of AgentService for TLC. *)
EXTENDS AgentService

(* A workspace that moves between its two providers, and a partial update  *)
(* that names neither.                                                     *)
MCConfigs ==
  { [vision |-> "claude", fallback |-> "ollama", ollamaUrl |-> TRUE],
    [vision |-> "ollama", fallback |-> "claude", ollamaUrl |-> TRUE],
    [vision |-> "",       fallback |-> "",       ollamaUrl |-> FALSE] }

=============================================================================
