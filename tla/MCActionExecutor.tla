-------------------------- MODULE MCActionExecutor --------------------------
(* Model checking of ActionExecutor: every request with up to              *)
(* MaxDetections detections in a short content.                            *)
EXTENDS ActionExecutor

Config(primary, fallback) == [primary |-> primary, fallback |-> fallback]

\* The combinations of the shipped rulesets that differ in the executor.
ShippedConfigs ==
    {Config("mask", "block"), Config("pseudonymize", "mask"),
     Config("tokenize", "block"), Config("tokenize", "mask"),
     Config("block", "block")}

\* A ruleset that retries the vault.
RetryConfigs == ShippedConfigs \union {Config("tokenize", "tokenize")}

\* One configuration per severity.
Severities == {Config("mask", "block"), Config("pseudonymize", "mask"),
               Config("tokenize", "block")}
=============================================================================
