---- MODULE MCOrchestrator ----
(* Two plain checks, one that asks a language model and ends when a call   *)
(* raises, one that asks, may be off and goes on when a call raises.       *)
EXTENDS Orchestrator

SomeChecks == {"numeric", "disclosure", "standard", "tamper"}
SomeOff    == {"standard", "coverage", "chart"}
SomeAsk    == {"numeric", "standard", "coverage", "bilingual"}
====
