--------------------------- MODULE MCIntegrations ---------------------------
(* Two integrations, the service of one of which logs up to two events, one *)
(* manual run at a time waiting, restarts at any time.                     *)
EXTENDS Integrations, TLC

=============================================================================
