------------------------ MODULE MCIntegrationRuntime ------------------------
(* Small instances of the integration executor for TLC. *)
EXTENDS IntegrationRuntime

CONSTANT reader   \* the one call whose policy allows a retry

OneRetry == [c \in Calls |-> IF c = reader THEN 2 ELSE 1]
=============================================================================
